------------------------------ MODULE EpochLoop ------------------------------
(***************************************************************************)
(* The main loop of the validator (neurons/validator.py), the thread that  *)
(* follows the registrations of hotkeys, the monitor and the state that is *)
(* saved on disk (state.py).                                               *)
(*                                                                         *)
(* The chain is external.  A uid is registered by one hotkey after the     *)
(* other; the n-th hotkey of a uid is the number n.  Only distances        *)
(* between blocks matter to the code: they are kept, up to the largest it  *)
(* compares with.                                                          *)
(***************************************************************************)
EXTENDS Naturals, Sequences, FiniteSets

CONSTANTS
  Uid,
  WaitBlocks,        \* blocks between two steps
  CheckpointBlocks,  \* neuron.checkpoint_block_length
  HalfTempo,         \* blocks between two settings of weights
  QuietBlocks,       \* blocks after a registration before the script runs
  MaxFailures,       \* failed pings before a miner is down
  PurgeEvery,        \* epochs between two purges
  MaxLag,            \* bound: headers the thread has not handled
  Envs               \* bounds: what may happen around the process

ASSUME EpochLoopAssumption ==
  /\ {WaitBlocks, CheckpointBlocks, HalfTempo, QuietBlocks, MaxFailures, MaxLag} \subseteq Nat
  /\ PurgeEvery \in Nat \ {0}
  /\ WaitBlocks <= CheckpointBlocks
  /\ \A e \in Envs :
        /\ DOMAIN e = {"hotkeys", "epochs", "rewarded", "failing", "pool", "kill"}
        /\ e.hotkeys \in [Uid -> Nat]          \* the last hotkey of each uid
        /\ e.epochs \in Nat                    \* the last epoch
        /\ e.rewarded \subseteq Uid             \* uids that the tasks of forward reward
        /\ e.failing \subseteq Uid              \* uids whose pings may fail
        /\ e.pool \in Nat                     \* weights that may be on their way to a block
        /\ e.kill \in BOOLEAN                  \* whether the process may be killed

VARIABLES
  env,      \* constant: the environment of this execution
  owner,    \* external: the hotkey of each uid on the chain, 0 for none
  since,    \* external: blocks since the chain took weights (last_update)
  pool,     \* external: weights that were sent, in the order they will be in blocks: for
            \* each, whether their sender's last_update is still that of the chain
  epoch,    \* external: the current epoch
  headers,  \* external: blocks on their way to the thread
  v,        \* the main thread
  sub,      \* the subscription thread
  saved,    \* model.torch
  hist      \* history

vars == <<env, owner, since, pool, epoch, headers, v, sub, saved, hist>>

-----------------------------------------------------------------------------
(* State                                                                   *)

Hotkeys == UNION {0..env.hotkeys[u] : u \in Uid}
None == <<>>
Zero == [u \in Uid |-> 0]
NoScore == [u \in Uid |-> {}]
Cap(n, max) == IF n > max THEN max ELSE n

Main ==
  [pc       : {"off", "load", "resync", "save", "thread", "sync", "wait", "forward",
               "monitor", "purge", "mark", "check", "weights", "end"},
   ret      : {"", "thread", "check", "weights", "end"},  \* where save returns to
   hotkeys  : [Uid -> Hotkeys],          \* metagraph.hotkeys
   axons    : [Uid -> Hotkeys],          \* metagraph.axons
   scored   : [Uid -> SUBSET Hotkeys],   \* whose rewards are in the scores
   size     : SUBSET Uid,                \* uids the scores have room for
   lookup   : [Uid -> 0..MaxFailures],   \* monitor_lookup
   down     : SUBSET Uid,                \* down_uids
   purged   : 0..env.epochs,               \* last_purged_epoch
   epoch    : 0..env.epochs,               \* current_epoch
   step     : 0..CheckpointBlocks,       \* blocks since prev_step_block
   weights  : 0..HalfTempo + 1]          \* blocks since prev_set_weights_block

Thread ==
  [alive : BOOLEAN,
   queue : Seq(Uid \X Hotkeys),  \* rebalance_queue
   quiet : 0..QuietBlocks]       \* blocks since last_registered_block

\* A file that is missing or cut short cannot be read.
File ==
  [readable : BOOLEAN, scored : [Uid -> SUBSET Hotkeys], size : SUBSET Uid,
   lookup : [Uid -> 0..MaxFailures], purged : 0..env.epochs]

History ==
  [fails    : [Uid -> 0..MaxFailures + 1],  \* failed pings since the last report
   unsaved  : SUBSET Uid,                   \* reported since the last save
   restored : SUBSET Uid,                   \* whose report a restart has undone
   purges   : SUBSET (0..env.epochs),
   read     : BOOLEAN,                      \* last_update has not changed since sync read it
   lost     : BOOLEAN]                      \* the mark of a purge may be missing on disk


Registered(hotkeys) == {u \in Uid : hotkeys[u] # 0}
At(pc) == v.pc = pc
Goto(pc) == v' = [v EXCEPT !.pc = pc]

\* checkpoint, and save_state alone.
Checkpoint(ret) == v' = [v EXCEPT !.pc = "resync", !.ret = ret]
SaveThen(ret) == [v EXCEPT !.pc = "save", !.ret = ret]

-----------------------------------------------------------------------------
(* The chain                                                               *)

Passed ==
  /\ since' = Cap(since + 1, HalfTempo + 1)
  /\ v' = [v EXCEPT !.step = Cap(@ + 1, CheckpointBlocks),
                    !.weights = Cap(@ + 1, HalfTempo + 1)]

Deliver(header) ==
  IF sub.alive
    THEN Len(headers) < MaxLag /\ headers' = Append(headers, header)
    ELSE UNCHANGED headers

\* A block, with at most one registration.
Block ==
  /\ Passed
  /\ Deliver(None)
  /\ UNCHANGED <<env, owner, pool, epoch, sub, saved, hist>>

RegisterNeuron(u) ==
  /\ owner[u] < env.hotkeys[u]
  /\ owner' = [owner EXCEPT ![u] = @ + 1]
  /\ Passed
  /\ Deliver(<<u, owner[u] + 1>>)
  /\ UNCHANGED <<env, pool, epoch, sub, saved, hist>>

\* get_current_epoch counts tempos.
NextEpoch ==
  /\ epoch < env.epochs
  /\ epoch' = epoch + 1
  /\ hist' = [hist EXCEPT !.lost = FALSE]
  /\ UNCHANGED <<env, owner, since, pool, headers, v, sub, saved>>

\* The weights that were sent first are in a block, or will never be in one.
TakeWeights ==
  /\ pool # <<>>
  /\ since' = 0
  /\ pool' = [i \in 1..Len(pool) - 1 |-> FALSE]
  /\ hist' = [hist EXCEPT !.read = FALSE]
  /\ UNCHANGED <<env, owner, epoch, headers, v, sub, saved>>

DropWeights ==
  /\ pool # <<>>
  /\ pool' = Tail(pool)
  /\ UNCHANGED <<env, owner, since, epoch, headers, v, sub, saved, hist>>

-----------------------------------------------------------------------------
(* The process starts and ends                                             *)

NoThread == [alive |-> FALSE, queue |-> <<>>, quiet |-> QuietBlocks]

\* __init__.
Boot ==
  /\ At("off")
  /\ v' = [pc |-> "load", ret |-> "", hotkeys |-> owner, axons |-> owner,
           scored |-> NoScore, size |-> Registered(owner), lookup |-> Zero, down |-> {},
           purged |-> 0, epoch |-> 0, step |-> 0, weights |-> HalfTempo + 1]
  /\ sub' = NoThread
  /\ headers' = <<>>
  /\ UNCHANGED <<env, owner, since, pool, epoch, saved, hist>>

\* load_state: a file that cannot be read is a warning.
LoadState ==
  /\ At("load")
  /\ IF ~ saved.readable
       THEN Checkpoint("thread") /\ UNCHANGED hist
       ELSE /\ v' = [v EXCEPT !.pc = "resync", !.ret = "thread",
                       !.purged = saved.purged,
                       !.lookup = [u \in Uid |->
                          IF u \in Registered(v.hotkeys) THEN saved.lookup[u] ELSE 0],
                       !.scored = [u \in Uid |->
                          IF u \in saved.size THEN saved.scored[u] ELSE {}]]
            /\ hist' = [hist EXCEPT !.restored = @ \cup hist.unsaved, !.unsaved = {}]
  /\ UNCHANGED <<env, owner, since, pool, epoch, headers, sub, saved>>

\* The process ends; pm2 starts it again.
End ==
  /\ v' = [v EXCEPT !.pc = "off"]
  /\ sub' = NoThread
  /\ headers' = <<>>
  /\ hist' = [hist EXCEPT !.lost = @ \/ v.pc \in {"mark", "save"}]

Kill ==
  /\ env.kill
  /\ ~ At("off")
  /\ End
  /\ IF At("save") THEN saved' \in {saved, [saved EXCEPT !.readable = FALSE]} ELSE UNCHANGED saved
  /\ UNCHANGED <<env, owner, since, pool, epoch>>

-----------------------------------------------------------------------------
(* state.py                                                                *)

\* resync_metagraph, where the hotkeys before the sync are the ones the loop and
\* the thread have put into the metagraph meanwhile.
ResyncMetagraph ==
  /\ At("resync")
  /\ LET changed == v.axons # owner
         replaced == {u \in Registered(v.hotkeys) : v.hotkeys[u] # owner[u]}
     IN  v' = [SaveThen(v.ret) EXCEPT
                 !.hotkeys = owner, !.axons = owner,
                 !.size = IF changed THEN @ \cup Registered(owner) ELSE @,
                 !.scored = [u \in Uid |->
                    IF changed /\ u \in replaced THEN {} ELSE v.scored[u]]]
  /\ UNCHANGED <<env, owner, since, pool, epoch, headers, sub, saved, hist>>

SaveState ==
  /\ At("save")
  /\ saved' = [readable |-> TRUE, scored |-> v.scored, size |-> v.size, lookup |-> v.lookup,
               purged |-> v.purged]
  /\ Goto(v.ret)
  /\ hist' = [hist EXCEPT !.unsaved = {}]
  /\ UNCHANGED <<env, owner, since, pool, epoch, headers, sub>>

\* torch.save raises: a warning.
SaveFails ==
  /\ At("save")
  /\ Goto(v.ret)
  /\ hist' = [hist EXCEPT !.lost = TRUE]
  /\ UNCHANGED <<env, owner, since, pool, epoch, headers, sub, saved>>

-----------------------------------------------------------------------------
(* run                                                                     *)

\* run_subscription_thread.
StartThread ==
  /\ At("thread")
  /\ Goto("sync")
  /\ sub' = [sub EXCEPT !.alive = TRUE]
  /\ UNCHANGED <<env, owner, since, pool, epoch, headers, saved, hist>>

\* A bug: prev_set_weights_block is kept from the last attempt of this process.
Sync_Kept ==
  /\ At("sync")
  /\ v' = [v EXCEPT !.pc = "wait", !.hotkeys = owner, !.axons = owner]
  /\ hist' = [hist EXCEPT !.read = TRUE]
  /\ UNCHANGED <<env, owner, since, pool, epoch, headers, sub, saved>>

Sync ==
  /\ At("sync")
  /\ v' = [v EXCEPT !.pc = "wait", !.hotkeys = owner, !.axons = owner,
                    !.weights = since]
  /\ hist' = [hist EXCEPT !.read = TRUE]
  /\ UNCHANGED <<env, owner, since, pool, epoch, headers, sub, saved>>

Wait ==
  /\ At("wait")
  /\ v.step >= WaitBlocks
  /\ Goto("forward")
  /\ UNCHANGED <<env, owner, since, pool, epoch, headers, sub, saved, hist>>

\* scatter puts a reward into the scores of each uid: there is room for it, or
\* it raises and run ends.
Scored(uids) == [u \in Uid |-> v.scored[u] \cup IF u \in uids THEN {v.axons[u]} ELSE {}]

Forward(uids) ==
  /\ At("forward")
  /\ uids \subseteq Registered(v.axons) \cap env.rewarded
  /\ IF uids \subseteq v.size
       THEN /\ v' = [v EXCEPT !.pc = "monitor", !.scored = Scored(uids)]
            /\ UNCHANGED <<headers, sub, hist>>
       ELSE End
  /\ UNCHANGED <<env, owner, since, pool, epoch, saved>>

\* A bug: off by one.
Reported_Early(failed) == {u \in failed : v.lookup[u] + 1 >= MaxFailures}

Reported(failed) == {u \in failed : v.lookup[u] = MaxFailures}

\* A bug: the counter of a miner that is reported goes on.
Monitor_NoReset(failed) ==
  /\ At("monitor")
  /\ failed \subseteq Registered(v.axons) \cap env.failing
  /\ LET down == Reported(failed)
         fails == [u \in Uid |-> IF u \in failed THEN Cap(hist.fails[u] + 1, MaxFailures + 1)
                                                ELSE hist.fails[u]]
     IN  IF down \subseteq v.size
           THEN /\ v' = [v EXCEPT !.pc = "purge", !.down = down, !.scored = Scored(down),
                            !.lookup = [u \in Uid |->
                               IF u \in failed THEN @[u] + 1 ELSE @[u]]]
                /\ hist' = [hist EXCEPT !.fails = fails]
                /\ UNCHANGED <<headers, sub>>
           ELSE End
  /\ UNCHANGED <<env, owner, since, pool, epoch, saved>>

Monitor(failed) ==
  /\ At("monitor")
  /\ failed \subseteq Registered(v.axons) \cap env.failing
  /\ LET down == Reported(failed)
         fails == [u \in Uid |-> IF u \in failed THEN Cap(hist.fails[u] + 1, MaxFailures + 1)
                                                ELSE hist.fails[u]]
     IN  IF down \subseteq v.size
           THEN /\ v' = [v EXCEPT !.pc = "purge", !.down = down, !.scored = Scored(down),
                            !.lookup = [u \in Uid |->
                               IF u \in down THEN 0 ELSE IF u \in failed THEN @[u] + 1 ELSE @[u]]]
                /\ hist' = [hist EXCEPT !.fails = fails]
                /\ UNCHANGED <<headers, sub>>
           ELSE End
  /\ UNCHANGED <<env, owner, since, pool, epoch, saved>>

\* The rebalance of the miners that are down, and the purge of the challenges.
Purge ==
  /\ At("purge")
  /\ LET due == epoch % PurgeEvery = 0 /\ v.purged < epoch
     IN  /\ v' = [v EXCEPT !.pc = IF due THEN "mark" ELSE "check", !.epoch = epoch, !.down = {}]
         /\ hist' = [hist EXCEPT
              !.purges = IF due THEN @ \cup {epoch} ELSE @,
              !.fails = [u \in Uid |-> IF u \in v.down THEN 0 ELSE @[u]],
              !.unsaved = @ \cup v.down,
              !.restored = @ \ v.down]
  /\ UNCHANGED <<env, owner, since, pool, epoch, headers, sub, saved>>

\* A bug: the mark is left to the next checkpoint.
Mark_Unsaved ==
  /\ At("mark")
  /\ v' = [v EXCEPT !.pc = "check", !.purged = v.epoch]
  /\ UNCHANGED <<env, owner, since, pool, epoch, headers, sub, saved, hist>>

Mark ==
  /\ At("mark")
  /\ v' = [SaveThen("check") EXCEPT !.purged = v.epoch]
  /\ UNCHANGED <<env, owner, since, pool, epoch, headers, sub, saved, hist>>

Check ==
  /\ At("check")
  /\ IF v.step >= CheckpointBlocks THEN Checkpoint("weights") ELSE Goto("weights")
  /\ UNCHANGED <<env, owner, since, pool, epoch, headers, sub, saved, hist>>

\* set_weights_for_validator sends the weights and does not wait for a block; they may
\* not even get under way, or the call raises (set_weights has no message to return).
Weights(outcome) ==
  /\ At("weights")
  /\ IF v.weights <= HalfTempo
       THEN Goto("end") /\ UNCHANGED <<pool, headers, sub, hist>>
     ELSE IF outcome = "raised"
       THEN End /\ UNCHANGED pool
       ELSE /\ IF outcome = "sent" THEN Len(pool) < env.pool /\ pool' = Append(pool, hist.read)
                                  ELSE UNCHANGED pool
            /\ v' = [SaveThen("end") EXCEPT !.weights = 0]
            /\ UNCHANGED <<headers, sub, hist>>
  /\ UNCHANGED <<env, owner, since, epoch, saved>>

EndStep ==
  /\ At("end")
  /\ v' = [v EXCEPT !.pc = "sync", !.step = 0]
  /\ UNCHANGED <<env, owner, since, pool, epoch, headers, sub, saved, hist>>

-----------------------------------------------------------------------------
(* The subscription thread                                                 *)

\* A uid that the metagraph does not have yet raises IndexError, which ends the
\* thread.
HandlerDies ==
  /\ sub.alive
  /\ headers # <<>>
  /\ Head(headers) # None
  /\ v.hotkeys[Head(headers)[1]] = 0
  /\ sub' = NoThread
  /\ headers' = <<>>
  /\ UNCHANGED <<env, owner, since, pool, epoch, v, saved, hist>>

\* A bug: the queue is looked at when a registration is found.
HandleHeader_Found ==
  /\ sub.alive
  /\ headers # <<>>
  /\ LET header == Head(headers)
         found  == header # None
         quiet  == IF found THEN 0 ELSE Cap(sub.quiet + 1, QuietBlocks)
         queue  == IF found THEN Append(sub.queue, <<header[1], v.hotkeys[header[1]]>>)
                            ELSE sub.queue
     IN  /\ found => v.hotkeys[header[1]] # 0
         /\ sub' = [sub EXCEPT !.quiet = quiet,
                               !.queue = IF found /\ quiet >= QuietBlocks THEN <<>> ELSE queue]
         /\ v' = IF found THEN [v EXCEPT !.hotkeys[header[1]] = header[2]] ELSE v
  /\ headers' = Tail(headers)
  /\ UNCHANGED <<env, owner, since, pool, epoch, saved, hist>>

\* neuron_registered_subscription_handler.
HandleHeader ==
  /\ sub.alive
  /\ headers # <<>>
  /\ LET header == Head(headers)
         found  == header # None
         quiet  == IF found THEN 0 ELSE Cap(sub.quiet + 1, QuietBlocks)
         queue  == IF found THEN Append(sub.queue, <<header[1], v.hotkeys[header[1]]>>)
                            ELSE sub.queue
     IN  /\ found => v.hotkeys[header[1]] # 0
         /\ sub' = [sub EXCEPT !.quiet = quiet,
                               !.queue = IF quiet >= QuietBlocks THEN <<>> ELSE queue]
         /\ v' = IF found THEN [v EXCEPT !.hotkeys[header[1]] = header[2]] ELSE v
  /\ headers' = Tail(headers)
  /\ UNCHANGED <<env, owner, since, pool, epoch, saved, hist>>

-----------------------------------------------------------------------------
(* Specification                                                           *)

Init ==
  /\ env \in Envs
  /\ owner \in {h \in [Uid -> {0, 1}] :
                  Registered(h) # {} /\ \A u \in Uid : h[u] <= env.hotkeys[u]}
  /\ since = HalfTempo + 1 /\ pool = <<>>
  /\ epoch = 0
  /\ headers = <<>>
  /\ v = [pc |-> "off", ret |-> "", hotkeys |-> Zero, axons |-> Zero, scored |-> NoScore,
          size |-> {}, lookup |-> Zero, down |-> {}, purged |-> 0, epoch |-> 0,
          step |-> 0, weights |-> 0]
  /\ sub = NoThread
  /\ saved = [readable |-> FALSE, scored |-> NoScore, size |-> {}, lookup |-> Zero, purged |-> 0]
  /\ hist = [fails |-> Zero, unsaved |-> {}, restored |-> {}, purges |-> {},
             read |-> FALSE, lost |-> FALSE]

Chain == Block \/ NextEpoch \/ TakeWeights \/ DropWeights \/ \E u \in Uid : RegisterNeuron(u)

Loop ==
  \/ Boot \/ LoadState \/ StartThread
  \/ ResyncMetagraph \/ SaveState \/ SaveFails
  \/ Sync \/ Wait \/ Purge \/ Mark \/ Check \/ EndStep
  \/ \E uids \in SUBSET Uid : Forward(uids) \/ Monitor(uids)
  \/ \E outcome \in {"sent", "refused", "raised"} : Weights(outcome)

Subscription == HandleHeader \/ HandlerDies

Next == Chain \/ Loop \/ Subscription \/ Kill

\* Blocks keep coming, and both threads run.
Spec ==
  /\ Init /\ [][Next]_vars
  /\ WF_vars(Block) /\ WF_vars(Loop) /\ WF_vars(Subscription)

-----------------------------------------------------------------------------
(* Properties                                                              *)

TypeOK ==
  /\ env \in Envs
  /\ owner \in [Uid -> Hotkeys]
  /\ since \in 0..HalfTempo + 1
  /\ pool \in Seq(BOOLEAN) /\ Len(pool) <= env.pool
  /\ epoch \in 0..env.epochs
  /\ headers \in Seq({None} \cup Uid \X Hotkeys) /\ Len(headers) <= MaxLag
  /\ v \in Main
  /\ sub \in Thread
  /\ saved \in File
  /\ hist \in History

\* A miner is reported down, and its data copied to others, only after more than
\* MaxFailures failed pings since the last report (monitor_lookup), unless the
\* process ended between that report and the next save of the counters.
DownEarned ==
  \A u \in v.down : hist.fails[u] > MaxFailures \/ u \in hist.restored

\* The challenges are purged once in an epoch, through every restart, unless the
\* process ended before last_purged_epoch was on disk or the save failed.
PurgeOnce ==
  [][At("purge") /\ v'.pc = "mark" => epoch \notin hist.purges \/ hist.lost]_vars

\* The chain takes weights within half a tempo of the last ones only from a loop that
\* read last_update before it took those: restarts, kills, weights that got lost and
\* attempts that failed set none early (last_update is read again in every loop).
WeightsSpaced ==
  [][TakeWeights /\ Head(pool) => since > HalfTempo]_vars

\* Hotkeys that wait in the rebalance queue are given to the script, or the thread
\* ends.
QueueDrains == sub.queue # <<>> ~> sub.queue = <<>>

\* After a checkpoint, the moving average of a uid holds rewards of the hotkey in
\* the metagraph only: resync_metagraph zeroes those of replaced hotkeys.
ScoresOfOwners ==
  At("save") /\ v.ret = "weights" =>
    \A u \in Registered(v.axons) : v.scored[u] \subseteq {v.axons[u]}
=============================================================================
