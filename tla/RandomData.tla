----------------------------- MODULE RandomData -----------------------------
(***************************************************************************)
(* The data a validator stores at miners to challenge them with.           *)
(*                                                                         *)
(* One `forward` of the validator (storage/validator/forward.py) stores    *)
(* random data (store.py), challenges miners (challenge.py), retrieves     *)
(* from them (retrieve.py), rebalances (rebalance.py) and purges           *)
(* (database.py), in this order; a batch of challenges or retrievals runs  *)
(* as concurrent tasks, one per miner.  The API node and the script        *)
(* rebalance_deregistration.py work on the same redis at the same time.    *)
(*                                                                         *)
(* The hash hotkey:{hk} has two fields per piece of data: its metadata, of *)
(* which the seed last sent is kept here, and ttl:{h}, which expires.      *)
(***************************************************************************)
EXTENDS Integers, FiniteSets

CONSTANTS
  Hotkey,     \* miners
  Rand,       \* hashes of random data
  Chunk,      \* hashes of chunks of users' files
  Empty,      \* the hash of no bytes
  None,       \* no field, no value
  Envs        \* bounds: the executions to look at

Hash == Rand \cup Chunk

ASSUME RandomDataAssumption ==
  /\ Rand \cap Chunk = {}
  /\ Empty \in Rand
  /\ None \notin Hash \cup Hotkey \cup {"same", "other", "fresh", "expired"}
  /\ Envs \subseteq [neurons : SUBSET Hotkey, data : SUBSET Hash,
                      others : SUBSET {"api", "script", "kill"}]

VARIABLES
  field,   \* field[hk][h]: the previous seed in the metadata, as below
  ttl,     \* ttl[hk][h]: "fresh" or "expired"
  fwd,     \* forward, and the function it is in
  task,    \* task[hk]: handle_challenge or handle_retrieve
  script,  \* rebalance_deregistration.py
  api,     \* add_metadata_to_hotkey in the API node
  miner,   \* external: the data each miner has, with its previous seed
  env,     \* external: the miners, the data and what else goes on
  open,    \* history: random data with an exchange that was not verified
  due,     \* history: what expired before the ttl purge, not renewed since
  hurt     \* history: hotkeys on which two processes met or one was killed

redis == <<field, ttl>>
fixed == <<env, due>>
vars == <<field, ttl, fwd, task, script, api, miner, env, open, due, hurt>>

-----------------------------------------------------------------------------
(* Redis                                                                   *)

\* A seed is the one the miner used last for the data, or another.
Seed == {"same", "other"}
Cell == {"data", "ttl"} \X Hash

\* hgetall and hkeys.
Keys(hk) == {h \in Hash : field[hk][h] # None}
Ttls(hk) == {h \in Hash : ttl[hk][h] # None}
Cells(hk) ==
  {cell \in Cell : cell[2] \in IF cell[1] = "data" THEN Keys(hk) ELSE Ttls(hk)}

\* One hset.
SetField(hk, h, s) == field' = [field EXCEPT ![hk][h] = s]
SetTtl(hk, h, t) == ttl' = [ttl EXCEPT ![hk][h] = t]

\* One hdel.
Hdel(hk, cell) ==
  IF cell[1] = "data"
    THEN SetField(hk, cell[2], None) /\ UNCHANGED ttl
    ELSE SetTtl(hk, cell[2], None) /\ UNCHANGED field

\* Miners use new seeds: what is recorded for the data is another now.
Aged(hks, hash) ==
  [hk \in Hotkey |->
     IF hk \in hks /\ field[hk][hash[hk]] # None
       THEN [field[hk] EXCEPT ![hash[hk]] = "other"]
       ELSE field[hk]]

\* Time passes.
Expire(hk, h) ==
  /\ ttl[hk][h] = "fresh"
  /\ SetTtl(hk, h, "expired")
  /\ UNCHANGED <<field, fwd, task, script, api, miner, open, hurt, fixed>>

-----------------------------------------------------------------------------
(* Forward                                                                 *)

Idle == [pc |-> "idle", hash |-> None, seed |-> None]

Begin == [pc   |-> "store",
          reb  |-> FALSE,   \* called by rebalance_data_for_hash
          who  |-> {},      \* hotkeys of the loop that goes on
          todo |-> {},      \* hashes left to rebalance
          hk   |-> None,    \* the hotkey the loop is at
          left |-> {},      \* what is left to delete of it
          hash |-> None,
          sent |-> [hk \in Hotkey |-> FALSE],  \* verified, to be recorded
          got  |-> {}]      \* hashes of the data that was decoded

FwdPc == {"store", "put_data", "put_ttl", "challenge", "challenges", "retrieve",
          "retrieves", "monitor", "rebalance", "epoch", "purge", "delete", "ttl",
          "expire", "check", "drop_data", "drop_ttl", "dead", "killed"}

Live(hk) == task[hk].pc # "idle"
Exchange(hk) == {<<hk, task[hk].hash>>}
Has(hk) == task[hk].hash \in miner[hk]
Doubt(pairs) == {pair \in pairs : pair[2] \in Rand}

At(pc) == fwd.pc = pc
Goto(pc) == fwd' = [fwd EXCEPT !.pc = pc]

\* The process ends with its tasks: it was killed, or run raised.  Miners may
\* have handled, or handle yet, what was sent to them.
Stop(pc) ==
  /\ \E handled \in SUBSET {hk \in Hotkey : task[hk].pc \in {"ck_wait", "rt_wait"}
                                            /\ Has(hk)} :
       field' = Aged(handled, [hk \in Hotkey |-> task[hk].hash])
  /\ open' = open \cup {pair \in Hotkey \X Rand :
                          \/ Live(pair[1]) /\ task[pair[1]].hash = pair[2]
                          \/ fwd.sent[pair[1]] /\ fwd.hash = pair[2]}
  /\ fwd' = [Begin EXCEPT !.pc = pc]
  /\ task' = [hk \in Hotkey |-> Idle]
  /\ due' = {}
  /\ UNCHANGED ttl

\* pm2 starts the validator again.
Restart ==
  /\ At("dead") \/ At("killed")
  /\ fwd' = Begin
  /\ UNCHANGED <<redis, task, script, api, miner, open, hurt, fixed>>

\* The hotkey whose two fields a loop of forward is at.
Busy(hk) ==
  /\ fwd.hk = hk
  /\ fwd.pc \in {"put_ttl", "delete", "drop_data", "drop_ttl"}

Kill ==
  /\ "kill" \in env.others
  /\ ~ At("dead") /\ ~ At("killed")
  /\ Stop("killed")
  /\ hurt' = hurt \cup {hk \in Hotkey : Busy(hk)}
  /\ UNCHANGED <<script, api, miner, env>>

-----------------------------------------------------------------------------
(* store_encrypted_data: one round, its retries never run since failed_uids *)
(* is emptied at the end of the round                                      *)

\* A name for new data: nothing in redis or on its way to it bears it.
Unused(h) ==
  /\ \A hk \in Hotkey : field[hk][h] = None /\ ttl[hk][h] = None
  /\ \A cell \in script.left : cell[2] # h

\* What is stored: new random data, or what the retrieval before decoded.
Payload(h) ==
  IF fwd.reb
    THEN h \in fwd.got \/ (fwd.got = {} /\ h = Empty)
    ELSE h \in env.data \cap (Rand \ {Empty}) /\ Unused(h)

AfterStore == IF fwd.reb THEN "rebalance" ELSE "challenge"

\* No miner answered the pings, or (random data) no answer was verified: the
\* metadata is only written for answers that were.
StoreNothing ==
  /\ At("store")
  /\ fwd' = [fwd EXCEPT !.pc = AfterStore, !.got = {}]
  /\ UNCHANGED <<redis, task, script, api, miner, open, hurt, fixed>>

\* verify_store_with_seed: the commitment is to the data and the seed, so only a
\* miner that has the data passes; of those some answers are lost or late.
Verified(stored) == SUBSET stored

\* A bug: the answers are not verified.
StoreSend_Unverified(h, stored, ok) ==
  /\ At("store")
  /\ Payload(h)
  /\ stored # {}
  /\ miner' = [hk \in Hotkey |->
       IF hk \in stored THEN miner[hk] \cup {h}
                        ELSE IF fwd.reb THEN miner[hk] ELSE miner[hk] \ {h}]
  /\ field' = Aged(stored, [hk \in Hotkey |-> h])
  /\ fwd' = [fwd EXCEPT !.pc = "put_data", !.hash = h, !.got = {},
               !.sent = [hk \in Hotkey |-> hk \in env.neurons]]
  /\ open' = LET before == IF fwd.reb THEN open ELSE open \ (Hotkey \X {h})
             IN  (before \cup Doubt(stored \X {h})) \ (ok \X {h})
  /\ UNCHANGED <<ttl, task, script, api, hurt, fixed>>

\* The miners in stored keep the data, of those in ok the answer is verified.
\* New data is nowhere yet, whatever had its name before.
StoreSend(h, stored, ok) ==
  /\ At("store")
  /\ Payload(h)
  /\ stored # {}
  /\ miner' = [hk \in Hotkey |->
       IF hk \in stored THEN miner[hk] \cup {h}
                        ELSE IF fwd.reb THEN miner[hk] ELSE miner[hk] \ {h}]
  /\ field' = Aged(stored, [hk \in Hotkey |-> h])
  /\ fwd' = [fwd EXCEPT !.pc = "put_data", !.hash = h, !.got = {},
               !.sent = [hk \in Hotkey |-> hk \in ok]]
  /\ open' = LET before == IF fwd.reb THEN open ELSE open \ (Hotkey \X {h})
             IN  (before \cup Doubt(stored \X {h})) \ (ok \X {h})
  /\ UNCHANGED <<ttl, task, script, api, hurt, fixed>>

\* success, once per verified answer: add_metadata_to_hotkey.
PutData(hk) ==
  /\ At("put_data")
  /\ fwd.sent[hk]
  /\ SetField(hk, fwd.hash, "same")
  /\ fwd' = [fwd EXCEPT !.pc = "put_ttl", !.hk = hk, !.sent[hk] = FALSE]
  /\ UNCHANGED <<ttl, task, script, api, miner, open, hurt, fixed>>

\* set_ttl_for_hash_and_hotkey.
PutTtl ==
  /\ At("put_ttl")
  /\ SetTtl(fwd.hk, fwd.hash, "fresh")
  /\ Goto("put_data")
  /\ UNCHANGED <<field, task, script, api, miner, open, hurt, fixed>>

StoreEnd ==
  /\ At("put_data")
  /\ \A hk \in Hotkey : ~ fwd.sent[hk]
  /\ fwd' = [fwd EXCEPT !.pc = AfterStore, !.hash = None, !.hk = None]
  /\ UNCHANGED <<redis, task, script, api, miner, open, hurt, fixed>>

-----------------------------------------------------------------------------
(* Batches of tasks: challenge_data and retrieve_data                      *)

SetTask(hk, pc, h, s) ==
  task' = [task EXCEPT ![hk] = [pc |-> pc, hash |-> h, seed |-> s]]
EndTask(hk) == task' = [task EXCEPT ![hk] = Idle]

\* gather, and the turn of the next function of forward.
BatchEnd(pc, next) ==
  /\ At(pc)
  /\ \A hk \in Hotkey : ~ Live(hk)
  /\ Goto(next)
  /\ UNCHANGED <<redis, task, script, api, miner, open, hurt, fixed>>

\* One task per miner that answers a ping, in challenge_data and, of those
\* with metadata only, in retrieve_data.
StartBatch(pc, first, uids) ==
  /\ At(pc)
  /\ fwd' = [fwd EXCEPT !.pc = IF pc = "challenge" THEN "challenges" ELSE "retrieves"]
  /\ task' = [hk \in Hotkey |-> IF hk \in uids THEN [Idle EXCEPT !.pc = first] ELSE Idle]
  /\ UNCHANGED <<redis, script, api, miner, open, hurt, fixed>>

ChallengeData(uids) == StartBatch("challenge", "ck_keys", uids)

\* A bug: miners without data are asked too.
WithMetadata_All(uids) == uids


WithMetadata(uids) == {hk \in uids : Keys(hk) # {}}
RetrieveData(uids) == StartBatch("retrieve", "rt_keys", WithMetadata(uids))

\* Retrievals are only made every fifth step.
NoRetrieve ==
  /\ At("retrieve")
  /\ ~ fwd.reb
  /\ Goto("monitor")
  /\ UNCHANGED <<redis, task, script, api, miner, open, hurt, fixed>>

ChallengeEnd == BatchEnd("challenges", "retrieve")
RetrieveEnd == BatchEnd("retrieves", IF fwd.reb THEN "store" ELSE "monitor")

Used(hk) == Aged({hk}, [k \in Hotkey |-> task[hk].hash])

\* The miner handles the request of the task, which then goes on at pc.
Handle(hk, pc) ==
  /\ Has(hk)
  /\ field' = Used(hk)
  /\ task' = [task EXCEPT ![hk].pc = pc, ![hk].seed = "same"]

\* handle_challenge: hkeys, and the choice of a hash.
CkKeys(hk) ==
  /\ task[hk].pc = "ck_keys"
  /\ IF Keys(hk) = {}
       THEN EndTask(hk)
       ELSE \E h \in Keys(hk) : SetTask(hk, "ck_data", h, None)
  /\ UNCHANGED <<redis, fwd, script, api, miner, open, hurt, fixed>>

\* hget, and the request.  Metadata that is gone raises, in the handler of the
\* exception too.
CkData(hk) ==
  /\ task[hk].pc = "ck_data"
  /\ LET h == task[hk].hash
     IN  IF field[hk][h] = None
           THEN Stop("dead")
           ELSE /\ SetTask(hk, "ck_wait", h, "other")
                /\ UNCHANGED <<redis, fwd, open, due>>
  /\ UNCHANGED <<script, api, miner, env, hurt>>

CkVerified(hk) ==
  /\ task[hk].pc = "ck_wait"
  /\ Handle(hk, "ck_put")
  /\ open' = open \ Exchange(hk)
  /\ UNCHANGED <<ttl, fwd, script, api, miner, hurt, fixed>>

\* No answer, or one that fails verify_challenge_with_seed.
CkFailed(hk) ==
  /\ task[hk].pc = "ck_wait"
  /\ \/ Has(hk) /\ field' = Used(hk)
     \/ UNCHANGED field
  /\ EndTask(hk)
  /\ open' = open \cup Doubt(Exchange(hk))
  /\ UNCHANGED <<ttl, fwd, script, api, miner, hurt, fixed>>

\* A bug: the metadata is not written back.
CkPut_NotStored(hk) ==
  /\ task[hk].pc = "ck_put"
  /\ EndTask(hk)
  /\ UNCHANGED <<redis, fwd, script, api, miner, open, hurt, fixed>>

\* update_metadata_for_data_hash, whether or not the field is still there.
CkPut(hk) ==
  /\ task[hk].pc = "ck_put"
  /\ SetField(hk, task[hk].hash, task[hk].seed)
  /\ EndTask(hk)
  /\ UNCHANGED <<ttl, fwd, script, api, miner, open, hurt, fixed>>

\* handle_retrieve: hkeys, and the choice of a hash.  Without one the pair it
\* returns is unpacked as a triple.  It reads the metadata, which it reads
\* again below, and sends the request.
RtKeys(hk) ==
  /\ task[hk].pc = "rt_keys"
  /\ IF Keys(hk) = {}
       THEN Stop("dead")
       ELSE /\ \E h \in Keys(hk) : SetTask(hk, "rt_wait", h, "other")
            /\ UNCHANGED <<redis, fwd, open, due>>
  /\ UNCHANGED <<script, api, miner, env, hurt>>

\* The miner answers with the data and a proof, which retrieve_data decodes.
RtAnswered(hk) ==
  /\ task[hk].pc = "rt_wait"
  /\ Handle(hk, "rt_data")
  /\ fwd' = [fwd EXCEPT !.got = IF fwd.reb THEN @ \cup {task[hk].hash} ELSE @]
  /\ open' = open \ Exchange(hk)
  /\ UNCHANGED <<ttl, script, api, miner, hurt, fixed>>

\* No data comes back; the function goes on as if it had.
RtFailed(hk) ==
  /\ task[hk].pc = "rt_wait"
  /\ \/ Handle(hk, "rt_data")
     \/ task' = [task EXCEPT ![hk].pc = "rt_data"] /\ UNCHANGED field
  /\ open' = open \cup Doubt(Exchange(hk))
  /\ UNCHANGED <<ttl, fwd, script, api, miner, hurt, fixed>>

\* The metadata is read again; that it is gone is caught.
RtData(hk) ==
  /\ task[hk].pc = "rt_data"
  /\ IF field[hk][task[hk].hash] = None
       THEN EndTask(hk)
       ELSE task' = [task EXCEPT ![hk].pc = "rt_put"]
  /\ UNCHANGED <<redis, fwd, script, api, miner, open, hurt, fixed>>

RtPut(hk) ==
  /\ task[hk].pc = "rt_put"
  /\ SetField(hk, task[hk].hash, task[hk].seed)
  /\ EndTask(hk)
  /\ UNCHANGED <<ttl, fwd, script, api, miner, open, hurt, fixed>>

-----------------------------------------------------------------------------
(* monitor, and rebalance_data for the hotkeys that are down               *)

Monitor(down) ==
  /\ At("monitor")
  /\ fwd' = [fwd EXCEPT !.pc = IF down = {} THEN "epoch" ELSE "rebalance", !.who = down]
  /\ UNCHANGED <<redis, task, script, api, miner, open, hurt, fixed>>

\* A bug: challenge data is rebalanced too.
RebalanceHotkey_All(hk) ==
  /\ At("rebalance")
  /\ fwd.todo = {}
  /\ hk \in fwd.who
  /\ fwd' = [fwd EXCEPT !.who = @ \ {hk}, !.todo = Keys(hk)]
  /\ UNCHANGED <<redis, task, script, api, miner, open, hurt, fixed>>

\* rebalance_data_for_hotkey: the chunks of files among its metadata.
RebalanceHotkey(hk) ==
  /\ At("rebalance")
  /\ fwd.todo = {}
  /\ hk \in fwd.who
  /\ fwd' = [fwd EXCEPT !.who = @ \ {hk}, !.todo = Keys(hk) \cap Chunk]
  /\ UNCHANGED <<redis, task, script, api, miner, open, hurt, fixed>>

\* rebalance_data_for_hash: retrieve_data does not use the hash it is given.
RebalanceHash(h) ==
  /\ At("rebalance")
  /\ h \in fwd.todo
  /\ fwd' = [fwd EXCEPT !.pc = "retrieve", !.reb = TRUE, !.todo = @ \ {h}]
  /\ UNCHANGED <<redis, task, script, api, miner, open, hurt, fixed>>

RebalanceEnd ==
  /\ At("rebalance")
  /\ fwd.todo = {} /\ fwd.who = {}
  /\ fwd' = [fwd EXCEPT !.pc = "epoch", !.reb = FALSE]
  /\ UNCHANGED <<redis, task, script, api, miner, open, hurt, fixed>>

-----------------------------------------------------------------------------
(* The purges                                                              *)

\* get_challenges_for_hotkey: the names of fields are bytes, so check_hash_type
\* looks for file:b'...' and chunk:b'...', which never exist, and every field
\* counts as a challenge.
ChallengesForHotkey(hk) == Cells(hk)

ScanHotkeys == {hk \in Hotkey : Cells(hk) # {}}

\* Every tenth epoch purge_challenges_for_all_hotkeys.
EpochPurge ==
  /\ At("epoch")
  /\ fwd' = [fwd EXCEPT !.pc = "purge", !.who = ScanHotkeys]
  /\ UNCHANGED <<redis, task, script, api, miner, open, hurt, fixed>>

NoEpochPurge ==
  /\ At("epoch")
  /\ Goto("ttl")
  /\ UNCHANGED <<redis, task, script, api, miner, open, hurt, fixed>>

\* purge_challenges_for_hotkey: hgetall, then one hdel per field.
PurgeHotkey(hk) ==
  /\ At("purge")
  /\ hk \in fwd.who
  /\ fwd' = [fwd EXCEPT !.pc = "delete", !.who = @ \ {hk}, !.hk = hk,
               !.left = ChallengesForHotkey(hk)]
  /\ hurt' = IF api.hk = hk THEN hurt \cup {hk} ELSE hurt
  /\ UNCHANGED <<redis, task, script, api, miner, open, fixed>>

PurgeField(cell) ==
  /\ At("delete")
  /\ cell \in fwd.left
  /\ Hdel(fwd.hk, cell)
  /\ fwd' = [fwd EXCEPT !.left = @ \ {cell}]
  /\ UNCHANGED <<task, script, api, miner, open, hurt, fixed>>

PurgedHotkey ==
  /\ At("delete")
  /\ fwd.left = {}
  /\ fwd' = [fwd EXCEPT !.pc = "purge", !.hk = None]
  /\ UNCHANGED <<redis, task, script, api, miner, open, hurt, fixed>>

PurgeEnd ==
  /\ At("purge")
  /\ fwd.who = {}
  /\ Goto("ttl")
  /\ UNCHANGED <<redis, task, script, api, miner, open, hurt, fixed>>

\* Every sixtieth step purge_expired_ttl_keys.
TtlPurge ==
  /\ At("ttl")
  /\ fwd' = [fwd EXCEPT !.pc = "expire", !.who = ScanHotkeys]
  /\ due' = {pair \in Hotkey \X Hash : ttl[pair[1]][pair[2]] = "expired"}
  /\ UNCHANGED <<redis, task, script, api, miner, env, open, hurt>>

NoTtlPurge ==
  /\ At("ttl")
  /\ fwd' = Begin
  /\ UNCHANGED <<redis, task, script, api, miner, open, hurt, fixed>>

ExpireHotkey(hk) ==
  /\ At("expire")
  /\ hk \in fwd.who
  /\ fwd' = [fwd EXCEPT !.pc = "check", !.who = @ \ {hk}, !.hk = hk,
               !.left = {cell \in Cells(hk) : cell[1] = "ttl"}]
  /\ UNCHANGED <<redis, task, script, api, miner, open, hurt, fixed>>

\* is_ttl_expired_for_hash_and_hotkey: that the field is gone raises (None is
\* compared with None).
CheckTtl(h) ==
  /\ At("check")
  /\ <<"ttl", h>> \in fwd.left
  /\ LET rest == fwd.left \ {<<"ttl", h>>}
     IN  \/ ttl[fwd.hk][h] = None /\ Stop("dead")
         \/ /\ ttl[fwd.hk][h] = "fresh"
            /\ fwd' = [fwd EXCEPT !.left = rest]
            /\ UNCHANGED <<redis, task, open, due>>
         \/ /\ ttl[fwd.hk][h] = "expired"
            /\ fwd' = [fwd EXCEPT !.pc = "drop_data", !.left = rest, !.hash = h]
            /\ UNCHANGED <<redis, task, open, due>>
  /\ UNCHANGED <<script, api, miner, env, hurt>>

\* remove_metadata_from_hotkey.
DropData ==
  /\ At("drop_data")
  /\ Hdel(fwd.hk, <<"data", fwd.hash>>)
  /\ Goto("drop_ttl")
  /\ hurt' = IF api.hk = fwd.hk THEN hurt \cup {fwd.hk} ELSE hurt
  /\ UNCHANGED <<task, script, api, miner, open, fixed>>

\* A bug: the time to live stays.
DropTtl_Keep ==
  /\ At("drop_ttl")
  /\ fwd' = [fwd EXCEPT !.pc = "check", !.hash = None]
  /\ UNCHANGED <<redis, task, script, api, miner, open, hurt, fixed>>

\* A bug: one field is removed per hotkey.
DropTtl_Return ==
  /\ At("drop_ttl")
  /\ Hdel(fwd.hk, <<"ttl", fwd.hash>>)
  /\ fwd' = [fwd EXCEPT !.pc = "check", !.hash = None, !.left = {}]
  /\ UNCHANGED <<task, script, api, miner, open, hurt, fixed>>


DropTtl ==
  /\ At("drop_ttl")
  /\ Hdel(fwd.hk, <<"ttl", fwd.hash>>)
  /\ fwd' = [fwd EXCEPT !.pc = "check", !.hash = None]
  /\ UNCHANGED <<task, script, api, miner, open, hurt, fixed>>

ExpiredHotkey ==
  /\ At("check")
  /\ fwd.left = {}
  /\ fwd' = [fwd EXCEPT !.pc = "expire", !.hk = None]
  /\ UNCHANGED <<redis, task, script, api, miner, open, hurt, fixed>>

ExpireEnd ==
  /\ At("expire")
  /\ fwd.who = {}
  /\ fwd' = Begin
  /\ due' = {}
  /\ UNCHANGED <<redis, task, script, api, miner, env, open, hurt>>

-----------------------------------------------------------------------------
(* The other processes                                                     *)

NoScript == [pc |-> "idle", who |-> {}, hk |-> None, left |-> {}, chunks |-> FALSE]

\* rebalance_data with hotkey_replaced, for one hotkey after the other.  Its
\* register_miner is part of Bonding; remove_hotkey_from_chunk is given the
\* metadata for the hash, finds no chunk of that name and changes nothing.
ScriptStart(hotkeys) ==
  /\ "script" \in env.others
  /\ script.pc = "idle"
  /\ hotkeys # {}
  /\ script' = [NoScript EXCEPT !.pc = "hotkey", !.who = hotkeys]
  /\ UNCHANGED <<redis, fwd, task, api, miner, open, hurt, fixed>>

ScriptHotkey(hk) ==
  /\ script.pc = "hotkey"
  /\ hk \in script.who
  /\ script' = [script EXCEPT !.pc = "purge", !.who = @ \ {hk}, !.hk = hk,
                  !.chunks = Keys(hk) \cap Chunk # {}]
  /\ UNCHANGED <<redis, fwd, task, api, miner, open, hurt, fixed>>

ScriptPurge ==
  /\ script.pc = "purge"
  /\ script' = [script EXCEPT !.pc = "delete", !.left = ChallengesForHotkey(script.hk)]
  /\ hurt' = hurt \cup {script.hk}
  /\ UNCHANGED <<redis, fwd, task, api, miner, open, fixed>>

ScriptField(cell) ==
  /\ script.pc = "delete"
  /\ cell \in script.left
  /\ Hdel(script.hk, cell)
  /\ script' = [script EXCEPT !.left = @ \ {cell}]
  /\ UNCHANGED <<fwd, task, api, miner, open, hurt, fixed>>

\* With chunks to rebalance retrieve_data asks the namespace that stands for the
\* validator for its subtensor: the exception ends the script.
ScriptEnd ==
  /\ script.pc = "delete"
  /\ script.left = {}
  /\ script' = IF script.chunks \/ script.who = {}
                 THEN NoScript
                 ELSE [NoScript EXCEPT !.pc = "hotkey", !.who = script.who]
  /\ UNCHANGED <<redis, fwd, task, api, miner, open, hurt, fixed>>

\* A chunk stored by the API node (module Broadband), and its metadata.  Bound:
\* it sends a chunk to a miner once.
ApiData(hk, c) ==
  /\ api.hk = None
  /\ "api" \in env.others /\ c \in env.data
  /\ c \notin miner[hk]
  /\ SetField(hk, c, "same")
  /\ miner' = [miner EXCEPT ![hk] = @ \cup {c}]
  /\ api' = [hk |-> hk, hash |-> c]
  /\ hurt' = IF Busy(hk) THEN hurt \cup {hk} ELSE hurt
  /\ UNCHANGED <<ttl, fwd, task, script, open, fixed>>

ApiTtl ==
  /\ api.hk # None
  /\ SetTtl(api.hk, api.hash, "fresh")
  /\ api' = [hk |-> None, hash |-> None]
  /\ due' = due \ {<<api.hk, api.hash>>}
  /\ UNCHANGED <<field, fwd, task, script, miner, env, open, hurt>>

-----------------------------------------------------------------------------
Init ==
  /\ field = [hk \in Hotkey |-> [h \in Hash |-> None]]
  /\ ttl = [hk \in Hotkey |-> [h \in Hash |-> None]]
  /\ fwd = Begin
  /\ task = [hk \in Hotkey |-> Idle]
  /\ script = NoScript
  /\ api = [hk |-> None, hash |-> None]
  /\ miner = [hk \in Hotkey |-> {}]
  /\ env \in Envs
  /\ open = {}
  /\ due = {}
  /\ hurt = {}

HandleTask(hk) ==
  \/ CkKeys(hk) \/ CkData(hk) \/ CkVerified(hk) \/ CkFailed(hk) \/ CkPut(hk)
  \/ RtKeys(hk) \/ RtAnswered(hk) \/ RtFailed(hk) \/ RtData(hk) \/ RtPut(hk)

StoreRandomData ==
  \/ StoreNothing
  \/ \E h \in Hash, stored \in SUBSET env.neurons : \E ok \in Verified(stored) :
       StoreSend(h, stored, ok)
  \/ \E hk \in Hotkey : PutData(hk)
  \/ PutTtl
  \/ StoreEnd

Batches ==
  \/ \E uids \in SUBSET env.neurons : ChallengeData(uids) \/ RetrieveData(uids)
  \/ ChallengeEnd \/ NoRetrieve \/ RetrieveEnd
  \/ \E hk \in Hotkey : HandleTask(hk)

Rebalance ==
  \/ \E down \in SUBSET env.neurons : Monitor(down)
  \/ \E hk \in Hotkey : RebalanceHotkey(hk)
  \/ \E h \in Chunk : RebalanceHash(h)
  \/ RebalanceEnd

EpochPurgeStep ==
  \/ EpochPurge \/ NoEpochPurge
  \/ \E hk \in Hotkey : PurgeHotkey(hk)
  \/ \E cell \in Cell : PurgeField(cell)
  \/ PurgedHotkey \/ PurgeEnd

TtlPurgeStep ==
  \/ NoTtlPurge
  \/ \E hk \in Hotkey : ExpireHotkey(hk)
  \/ \E h \in Hash : CheckTtl(h)
  \/ DropData \/ DropTtl \/ ExpiredHotkey \/ ExpireEnd

Forward ==
  StoreRandomData \/ Batches \/ Rebalance \/ EpochPurgeStep \/ TtlPurgeStep

Script ==
  \/ \E hotkeys \in SUBSET env.neurons : ScriptStart(hotkeys)
  \/ \E hk \in Hotkey : ScriptHotkey(hk)
  \/ ScriptPurge
  \/ \E cell \in Cell : ScriptField(cell)
  \/ ScriptEnd

Api == ApiTtl \/ \E hk \in env.neurons, c \in Chunk : ApiData(hk, c)

Next ==
  \/ Forward \/ TtlPurge \/ Restart \/ Kill \/ Script \/ Api
  \/ \E hk \in Hotkey, h \in Hash : Expire(hk, h)

Spec == Init /\ [][Next]_vars

-----------------------------------------------------------------------------
(* Properties                                                              *)

TypeOK ==
  /\ field \in [Hotkey -> [Hash -> Seed \cup {None}]]
  /\ ttl \in [Hotkey -> [Hash -> {"fresh", "expired", None}]]
  /\ fwd.pc \in FwdPc /\ fwd.reb \in BOOLEAN
  /\ fwd.who \subseteq Hotkey /\ fwd.todo \subseteq Chunk /\ fwd.left \subseteq Cell
  /\ fwd.hk \in Hotkey \cup {None} /\ fwd.hash \in Hash \cup {None}
  /\ fwd.sent \in [Hotkey -> BOOLEAN] /\ fwd.got \subseteq Hash
  /\ task \in [Hotkey -> [pc   : {"idle", "ck_keys", "ck_data", "ck_wait", "ck_put",
                                  "rt_keys", "rt_wait", "rt_data", "rt_put"},
                          hash : Hash \cup {None},
                          seed : Seed \cup {None}]]
  /\ miner \in [Hotkey -> SUBSET Hash]
  /\ open \subseteq Hotkey \X Rand /\ due \subseteq Hotkey \X Hash
  /\ hurt \subseteq Hotkey

\* The validator holds metadata only for data the miner has: a miner is never
\* challenged for, or asked to return, what nobody proved it stored.
StoredOnly ==
  \A hk \in Hotkey, h \in Hash : field[hk][h] # None => h \in miner[hk]

\* The seed the validator records for random data is the one the miner used last,
\* unless an exchange was not verified, whatever is purged, written back or
\* killed between the answer and the write.
Pending(hk, h) ==
  \/ task[hk].hash = h /\ task[hk].pc \in {"ck_put", "rt_data", "rt_put"}
  \/ fwd.hash = h /\ fwd.sent[hk]

SeedsAgree ==
  \A hk \in Hotkey, h \in Rand :
    field[hk][h] # None /\ <<hk, h>> \notin open /\ ~ Pending(hk, h)
      => field[hk][h] = "same"

\* Metadata and its time to live come and go together: nothing is kept for ever,
\* and no time to live is left behind.  It holds where no other process purged or
\* stored meanwhile and none was killed between the two commands.
TtlKept ==
  \A hk \in Hotkey \ hurt :
    ~ Busy(hk) /\ api.hk # hk => Keys(hk) = Ttls(hk)

\* forward only raises when the script has purged under it: neither purge of its
\* own, nor the API node, takes away what a task or a loop has read.
LoopSurvives == At("dead") => "script" \in env.others /\ hurt # {}

Gone ==
  \A pair \in due :
    \/ pair[1] \in hurt
    \/ ttl[pair[1]][pair[2]] = None /\ field[pair[1]][pair[2]] = None

\* What had expired when the purge of expired data began is gone, with its data,
\* when it ends (again where no two processes met).
PurgeComplete == [][ExpireEnd => Gone]_vars

\* "scans through all the hashes related to a given hotkey and filters out those
\* which are identified as challenge data": purging the challenges leaves the
\* chunks of users' files.
PurgeKeepsChunks ==
  [][At("delete") => \A hk \in Hotkey, c \in Chunk :
       field[hk][c] # None => field'[hk][c] # None]_vars
=============================================================================
