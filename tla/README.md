# Verification of FileTAO

TLA+ models of the storage subnet in this repository, TLC configurations that
check them on small instances, and TLAPS proofs of the invariants that matter
most. Everything is translated from the Python sources; paths below are
relative to the repository.

## The system

FileTAO is a Bittensor subnet. **Miners** keep encrypted chunks on disk and
prove from time to time that they still have them. **Validators** store random
data of their own, challenge, retrieve, score the miners and set weights on
chain. **API nodes** store and retrieve the data of users through the same
functions as the validators and share the validator's redis index. Maintenance
**scripts** migrate the miner's index and rebalance a replaced hotkey.

| Part | State it keeps | Operations | Talks to |
|---|---|---|---|
| miner handlers (`neurons/miner.py`, `storage/miner/database.py`) | redis hash per data hash, one field per caller: file path, last seed; data directory | `store`, `challenge`, `retrieve`, `01_migrate.py` | called by validators and API nodes through the axon |
| miner admission (`*_blacklist_fn`, `RateLimiter`) | request log, timestamps per caller | blacklist, whitelist, rate limit | runs before every handler |
| bonding (`storage/validator/bonding.py`) | `stats:{hotkey}` in redis | `register_miner`, `update_statistics`, `compute_all_tiers`, rollover | validator, API node and rebalance script share the hash |
| validator index (`storage/validator/database.py`) | `file:`, `chunk:`, `hotkey:` hashes, payloads, time-to-live fields | add, look up, delete, purge | every validator operation |
| broadband store (`storage/validator/store.py`) | distributions of chunks to miners | chunk, ping, query, verify, reroll | `Network`, index, bonding, miners |
| chunk distribution (`storage/validator/utils.py`) | none | sizes, index ranges, groups of uids | called by the broadband store |
| challenge and retrieve (`challenge.py`, `retrieve.py`, `verify.py`) | previous seed per (hotkey, hash) in the index | choose, query, verify, update the seed | index, miners, bonding |
| network (`network.py`) | failure counters of uids | ping, reroll, monitor | miners |
| rebalance and distribute (`rebalance.py`, `distribute.py`) | none | move the chunks of a dropped hotkey, redistribute expiring ones | index, bonding, store |
| rewards (`reward.py`) and weights (`weights.py`, `shared/weights.py`) | moving averaged scores | scale, apply, set weights | bonding, chain |
| epoch loop (`forward.py`, `state.py`, `neurons/validator.py`) | step, last purge, last tier epoch, checkpoint file | the validator's main loop | everything above |
| Merkle tree, ECC (`storage/shared`) | leaves and levels | build, update, prove, validate | miner's `challenge`, `verify.py` |
| API node (`neurons/api.py`) | none of its own | store, retrieve, delete for users | broadband store, retrieve |
| client and command line (`storage/api`, `storage/cli`) | a JSON file of hashes and hotkeys per wallet | `store`, `retrieve`, `delete`; `put`, `get` | API nodes |
| indexer, web front end, plots | read-only views | | not modelled |

What is hard here: handlers are coroutines of one event loop that share redis
and interleave at every `await`; several *processes* (validator, API node,
scripts) share the validator's redis without transactions; a process may be
killed between two commands; two index formats are alive at once and are
converted on the fly; values are read before an `await` and written after it;
miners come, go and change their hotkey.

| Module | Models | Runs | Proofs |
|---|---|---|---|
| `Miner` | miner handlers and index | `miner_index`, `miner_legacy` | `Miner_proofs` |
| `Bonding` | reputation of a miner | `bonding_tiers` | `Bonding_proofs` |
| `ValidatorIndex`, `Broadband`, `FileStore` | index of files, store, retrieve and delete of an API node, and what these promise | `broadband_calls`, `broadband_alone`, `broadband_full` | `Broadband_proofs` |
| `RandomData` | random data: store, challenge, retrieve, rebalance, purge | `challenge`, `challenge_purge` | `RandomData_proofs` |
| `EpochLoop` | main loop of the validator, monitor, checkpoints | `epochs`, `epochs_scores` | `EpochLoop_proofs` |
| `Distribution`, `MerkleTree`, `Rewards`, `Admission`, `Client` | parts that share no state with the others | `sequential`, `sequential_tail` | `Client_proofs`, `MerkleTree_proofs`, `Sequential_proofs` |

A module `M` is instantiated for TLC by `MCM` (the last five by
`MCSequential`), and a run `r` by `MCM_r.cfg`.

## Miner

`Miner.tla` models `neurons/miner.py` (`store`, `challenge`, `retrieve`) with
all of `storage/miner/database.py` they reach, and `01_migrate.py`.

*State.* `entry[h][hk]` is the field `hk` of the redis hash `h`, `legacy[h]`
the flat fields of a row written before version 1.5.3, `files` the data
directory, `req[r]` a handler in progress, `acked` a history of the stores
whose reply was sent. Metadata keeps its file path and its seed; sizes, times
and time-to-live are left out. A seed is abstracted to who sent it and about
which hash.

*Actions.* One action per redis command or disk access, because a coroutine
runs alone between two awaits. The prefix names the function: `St` for `store`
and `store_or_update_chunk_metadata`, `Old` for `is_old_version`, `Up` for
`update_seed_info`, `Cv` for `convert_to_new_format`, `Gm` for
`get_chunk_metadata`, `Mg` for the migration. A request record holds the local
variables that live across an await and, for the shared callees, where they
return to. The migration script is a process of its own: `Crash` kills either
the miner or the script.

*Details worth knowing.* `hotkey != old_hotkey` in `convert_to_new_format`
compares `str` with `bytes` and is always true (`CvHgetall`). An empty row
makes `get_chunk_metadata` return an empty dictionary, not `None`, so the
answer is "File not found" and not "File metadata not found" (`GmRaw`,
`Resolve`).

| Run | Instance | What it shows |
|---|---|---|
| `miner_index` | two callers use one new hash, one of them a hash of its own, two requests at once, kills | `EntryHasData`: nothing indexed or acknowledged without its data; `AckedServable`: an acknowledged store stays indexed under a valid path |
| `miner_legacy` | the owner stores, another caller reads, the script migrates; kills; fairness | `TypeOK`; `SeedFromCaller`: seeds never cross callers; `LostOnlyByWriteBack`: what may lose a chunk's file; `Answered`: every request ends |

Two requests at once are enough for every conflict between two commands of
two handlers; a third slot only repeats one of them. Slots are symmetric. `Answered` needs
`FairSpec`: weak fairness of each coroutine's next step, which asyncio's ready
queue and a redis server that replies provide. The requests that arrive are
not fair.

A conversion reads the row, deletes it and writes it again, and the index can
lose where the data is. `LostOnlyByWriteBack` says in which two ways only: the
process is killed between `delete` and `hset`, or a handler looks for its field
in that gap, takes it for missing (`update_seed_info` then builds an entry
with the path `""`) and writes it back over the path that the conversion
has put there since. Two requests of one caller about an old row are enough for
the second, so "a conversion keeps the path" is not a property of this code;
that nothing else loses it, however many conversions, stores and migrations
overlap, is. `AckedServable` is about callers that do
not ask for a hash before their store was acknowledged and share it with no
one. Without either condition it fails: `update_seed_info` gives the second
caller of a hash an entry with the path `""` (`database.py:158`, whose comment
expects a "reconstruction on load" that no code does), and later challenges and
retrievals of that caller find no data that is on disk. In the same way
`convert_to_new_format` writes the owner's field, deletes the row and writes
the caller's field only, although its comment speaks of saving both
(`CvDelete`).

*Proved* (`Miner_proofs.tla`), for any sets of callers, hashes and requests:
`TypeCorrect` (`[]TypeOK`), `IndexHasData` (`[]EntryHasData`),
`SeedsStayWithCaller` (`[]SeedFromCaller`), `AckedStoresAreServed`
(`[]AckedServable`) and `FilesLostOnlyByWriteBack`
(`LostOnlyByWriteBack`). None of these is inductive: a
handler past `StSave` will write a field without looking at the disk again.
`IndexInv` adds what each program point has established (`MayIndex`: a handler
that may still write a field has saved or found the data), which request may
be at which command (`ControlOK`), and that what a coroutine carries over an
await belongs to its caller and hash (`CarriesOK`). The proof has one lemma
per function and one step per command.

`LostOnlyByWriteBack` needs `PathInv`: a path in a field, or carried by a
request, is unknown or names a file that exists. `RowSteps` then says what a step
does to a row: nothing, one field written with the path of a file or, by a
write-back, with an unknown one, or the `delete` of a conversion, which is then
at its `hset` with the old path. `AckedServable` follows a hash that
one caller has to itself (`Sole`): `SoleInv` says that no request finds the row in
the old format (so no conversion can reset the path), and that a request
past its first store finds the field with the path of the file it saved.

## Bonding

`Bonding.tla` models the reputation of one miner, the redis hash
`stats:{hotkey}`, and every function of `storage/validator/bonding.py` that
writes it. Rows of different miners interact in one way: an exception of one
miner's `compute_tier` ends `compute_all_tiers` before any row is reset
(`RolloverAborted`, a choice at the end of the computation of this row).

*State.* The row (`exists`, `suc`, `att`, `total`, `tier`, `limit` and the two
fields `oldSuc`, `oldAtt` from before the rename of `retrieval_*`), the
coroutines inside `update_statistics` (`upd[u]`), the computation of the tiers
(`comp`), and the history `reported` of the calls
that reported a success, counted when the call starts. `limit` is named by
the tier it belongs to. A field that is missing is `Absent`.

*Actions.* One per redis command: `CountAttempt`, `CountSuccess`, the
`hget`/`hset`/`hdel` of the rename, the three reads that initialise
`total_successes`, the seven reads of `compute_tier` and its writes, the
`hmset` of the rollover, and `Reregister` for the rebalance script.
`ScoreAtLeast` is the mean of the two Wilson bounds, which is
`(s + z²/2) / (n + z²)`, in integers; `ScoreUndefined` says when the square
root is of a negative number.

| Run | Instance | What it shows |
|---|---|---|
| `bonding_tiers` | two concurrent updates and a computation on a registered row | `TierEarned`: no tier above the total successes; `TotalAccounted`: total successes and what calls in progress owe are what was reported |
| | new and legacy rows, a registration, calls that do not overlap | `ScoreDefined`: the square root of the Wilson bound exists, whatever the order of renames, resets and registrations |

`setting`, chosen from `Settings` at the start, says which of the two an execution is.

`ScoreDefined` needs calls that do not overlap: when a rollover falls between
the two commands of an update, successes exceed attempts, `math.sqrt` raises,
and `compute_all_tiers` ends without a reset. `TotalAccounted` is about a row
with `total_successes`: on a legacy row the first update sums up counters that
contain its own success already and then adds it again
(`bonding.py:176-202`), which counts it twice.

Bounds: `MaxUpdates`, `MaxComputes`, `MaxRegisters` cap the calls explored;
tiers are Bronze and two more, reached with one and two successes instead of
500 and more. Three updates reach the top tier and leave one to race; the
thresholds are parameters, and the proofs hold for every table. The system
stops when the calls are used up, so these runs do not check for deadlock.

*Proved* (`Bonding_proofs.tla`), for any number of updaters, tiers, thresholds
and calls: `RowTyped` (`[]TypeOK`, which is proved only), `TiersAreEarned` (`[]TierEarned`),
`TotalsAreAccounted` (`[]TotalAccounted`) and `ScoresAreDefined`
(`[]ScoreDefined`, which is about calls that do not overlap). The invariant `BondInv` adds that the total
only grows after a computation has read it (`SettledOK`), which is why a tier
decided on a stale total is still earned when it is written. `AccountStep` shows
that each command moves `total`, the set `Owing` and `reported` together. `HighestExists`
is the lemma that the highest tier met exists: a set of tiers is finite and
not empty, proved by well-foundedness of the distance to the top tier.
`ScoreDefined` needs more than that successes are at most attempts: on a legacy
row the counters of the old names still have to move, and an update that counts
first and moves after overwrites what it counted. `AloneInv` says by how much
each pair of counters may differ at each command of an update (`CountersOK`),
and what a computation has read of them (`CompOK`).
## Index and broadband store

`ValidatorIndex.tla` is the part of `storage/validator/database.py` that holds
users' data: `file[f]`, `row[c]`, `held[hk]` and `key[f]` stand for the keys
`file:`, `chunk:`, `hotkey:` and `payload:validator:`. `Broadband.tla` extends
it with the coroutines that work on the index: `store_user_data` and
`store_broadband` (`call[o]`, with one distribution of miners per chunk in
`dist[o][i]`), `delete_user_data` (`del`), `retrieve_user_data` (`ret`). `disk`
is external: what the miners keep.

*Actions*, in the order of the code: `Lookup`, `SetKey` (`api.py`);
`LookupAgain`, `Plan` or `PlanFails`; per round `CreateTasks`, then per chunk
`AskMiners` and `StoreChunk`, `Gather`, and `HandleUid` per answer; `Reroll` or
`EndRounds`; `MapChunk` per `zadd`. Deletion is `DeleteLookup`, `DeleteChunks`,
`DeleteRow`, `DeleteFile`; retrieval `RetrieveLookup`, `RetrieveFetch`,
`RetrieveKey`. `Crash` kills the API node.

*Abstractions.* Data is named by its hash and a chunk by the call that
encrypted it and its place, since every encryption is fresh. Which miners
`Network` finds and reroll picks is any group of the right size without the
miners that failed. A miner that is asked stores or not, and of those that
store any subset answers with a commitment that verifies. The capacity of the
miners of one chunk is read in one action, and a limit counts chunks instead of
bytes. The answers to a chunk, `hget` and `hmset` of its metadata are one action
(`StoreChunk`): until the file lists the chunk no one else reads or writes that
row, and a kill in between leaves what a miner that is not heard leaves.
A `zrange` and the `hgetall`s of the chunks are one action in `Lookup`,
`DeleteChunks` and `RetrieveLookup`: only a deletion takes a row away, and where
something is said of stores that overlap, in runs and theorems, nothing is deleted.
A uid keeps its hotkey during a call. The code looks the hotkey up at each use
(`store.py:337`, `389`, `419`), and the thread of `api.py:486` may have replaced
the metagraph meanwhile: a chunk may then be listed for one hotkey and credited
to its successor, which no property here would show. Left out: time-to-live fields, the user's own payload, scores, and the
exceptions of a malformed answer. `CreateTasks` is enabled when the semaphore
has a second permit: a call holds one while it asks for another, and each call
has a semaphore of its own.

| Run | Instance | What it shows |
|---|---|---|
| `broadband_calls` | two overlapping stores of one file, of one chunk on both miners, two rounds, kills, fairness | `CreditedListed`: credited only where it is listed, across lost answers and rerolls; `MappedListed`: no file lists a chunk without metadata; `Finishes` |
| `broadband_full` | two stores in a row, one miner full with its first chunk | violation of `CreditedHolds` |
| `broadband_alone` | stores of two chunks, a deletion, retrievals, one at a time | `QuietWhole`: a file is whole or gone; `ImplementsFileStore` |

The run `broadband_full` shows a finding: `store_chunk_group` takes full miners out
of its own copy of the uids (`store.py:334`), and the answers are zipped with the
uids of the distribution (`store.py:486`). Behind a full miner each answer counts
for the miner before: that one is credited with a chunk it was never sent, and the
one that stored it with nothing. `broadband_calls` has limits that nobody reaches,
and `CreditedListed` speaks of the time until a miner is full.

*Refinement.* `FileStore.tla` is what a user whose requests do not overlap may
count on: a file has one version or none, a version is stored once, a retrieval
returns data of the version the file has with the key of that version.
`Broadband` implements it (`ImplementsFileStore`) with the version of a file
read off the call whose key it has once the file is mapped, and the answer off
the retrieval that has read the key. A store takes effect with its last
`MapChunk`, a deletion when the key goes, everything before stutters.

Bounds: two calls show every overlap of two clients; one chunk on both of two
miners is the least with a lost answer, a reroll and a credit that comes too
late; two chunks, in `broadband_alone`, are the least that can be half mapped;
there the miners are alike, and so are the calls, which send the same file: hence
the symmetry of that run, which checks safety only;
`MaxRounds` is 3 in the code and 2 here, where a third round only repeats the
second. The configurations differ in `Overlap`, `MayCrash` and `Requests`,
which say what goes on besides the calls. Every call ends for good, so these
runs do not check for deadlock; `Finishes` does, under `FairSpec`: weak
fairness of each call's next step, which the event loop and the dendrite's
timeout of 100 seconds provide.

What the code does not promise, and no property states: that of two
overlapping stores of one file the key and the chunks come from the same call
(`api.py:248`; `ImplementsFileStore` is about calls one at a time); that a kill while a
file is mapped leaves no part of it (`database.py:629`; later stores of the
data are answered as if it were stored, so `QuietWhole` is about runs without
kills); that a store nobody answered fails (`store.py:603` maps it all the
same); that a call ends with `neuron.semaphore_size` 1 (`store.py:445` asks for
a second permit); that the semaphore bounds the requests in flight (the tasks
are awaited outside it); that a deletion takes back the credits of the hotkeys
(`database.py:1060`); that a retrieval returns all of a file (`retrieve.py:428`
joins the chunks that came back).

*Proved* (`Broadband_proofs.tla`), for any calls, files, miners, numbers of
chunks and rounds: `TypeCorrect` (`[]TypeOK`, which is proved only); `MappedListedCorrect` (`[]MappedListed`) and
`CreditedListedCorrect` (`[]CreditedListed`), where nothing is deleted, since a
deletion that overlaps a store removes rows. The limits are any. What
`broadband_full` finds happens in no other way: `CreditedUntilFull` shows
`CreditedHolds` until a miner is full, and who is full stays full
(`HeldGrows`, `FullStays`). One
lemma per variable says what a step can do to it (`DistSteps`, `CallSteps`,
`RowSteps`, `DiskSteps`, `HeldSteps`, `FileSteps`). The invariants follow an
answer through the call: `AllAsked` (no miner left out, so that the j-th answer
is the j-th miner's, `AnswererOfGroup`), `Proven` (what verifies is on disk),
`TodoAsked`, and `VerifyRowed`, `RowedListed`, `MapListed` for the order in
which metadata, credits and the mapping are written.

The second part of `Broadband_proofs.tla` proves `QuietWholeCorrect` (`[]QuietWhole`) and the
refinement, `BroadbandRefines` (`Spec => ImplementsFileStore`), when requests do
not overlap and nothing is killed (`Alone`, as in `broadband_alone`). `AloneInv`
says that one request at most is in progress (`OneAtATime`), and whose chunks a
file has at each of its commands: none, those mapped so far, or all those of one
finished call whose key it still has (`FileOK`, `Belongs`). Every action then
maps to a step of `FileStore` or to a stutter. Nothing is assumed of what the
miners answer. Without `Alone` both fail, for the reasons above.


## Random data

`RandomData.tla` is what the validator does to the index besides serving
users: one `forward` after the other stores random data, challenges miners,
retrieves, rebalances the data of miners that are down, and purges, while the
API node stores chunks and the script `rebalance_deregistration.py` works on
the same redis.

*State.* `field[hk][h]` and `ttl[hk][h]` are the two fields that redis keeps
for one piece of data of a hotkey. Of the metadata only the previous seed is
kept, and of the seed whether it is the `"same"` as the one the miner used
last. `fwd` is the program counter and the locals of `forward`, `task[hk]` a
coroutine of a batch of challenges or retrievals, `script` and `api` the other
two processes. `miner` is external. `open`, `due` and `hurt` are history: which
exchanges were not verified, what had expired when a purge began, and on which
hotkeys two processes met.

*Actions* are named after the functions, in the order of `forward`:
`StoreSend`, `PutData`, `PutTtl`; `ChallengeData` and `CkKeys` … `CkPut`;
`RetrieveData` and `RtKeys` … `RtPut`; `Monitor`, `RebalanceHotkey`,
`RebalanceHash`; `EpochPurge` … `PurgeField`; `TtlPurge` … `DropTtl`. One
action per redis command or request. `Kill` ends the validator anywhere,
`Stop("dead")` where the code raises, and `Restart` starts it again.

*What the code does that one would not expect.* `rebalance_data_for_hash`
retrieves from all miners with metadata whatever they are asked for, and not
the hash it was called with (`RebalanceHash`); when nothing came back it
stores the hash of no bytes (`Empty`). `handle_retrieve` returns a pair where
its caller unpacks three when a hotkey has no metadata (`RtKeys`), and
`is_ttl_expired_for_hash_and_hotkey` compares `None` with `None` when the
field has gone (`CheckTtl`): each ends the validator. The script gives up on
the first hotkey with chunks to move (`ScriptEnd`). A challenge that ends after
the script has purged brings its field back without a time to live (`CkPut`);
such hotkeys are in `hurt`.

| Run | Instance | What it shows |
|---|---|---|
| `challenge` | two miners and the script; one miner, chunks of the API node and kills; one miner, API node and script | `TypeOK`; `StoredOnly`: nobody is challenged for what it has not proved to store; `SeedsAgree`: the two ends of the seed chain agree unless an exchange was not verified; `TtlKept`, `PurgeComplete`: metadata and time to live come and go together and the purge leaves nothing; `LoopSurvives`: only the script can make `forward` raise |
| `challenge_purge` | the same | violation of `PurgeKeepsChunks` |

The finding of `challenge_purge`: `get_challenges_for_hotkey` is documented to
pick challenge data only; it passes field names as bytes to `check_hash_type`
(`database.py:995`), looks for keys like `file:b'…'`, finds none, and takes
every field for a challenge. The purge of every tenth epoch deletes the
metadata of users' chunks and all `ttl:` fields.

Bounds: the constant `Envs` lists the executions to look at, each with its
miners, its data and who else is at work. One piece of random data and one
chunk are enough for every command to meet every other on one field, two
miners for two tasks of one batch. The empty data is only stored by a failed
rebalance. Whether a step retrieves, purges or meets the end of an epoch is
left open instead of counted. No fairness is used here. Deadlock is not
checked: a validator that raised may stay down.

Left out: an answer to a retrieval with data and a proof that fails, where
`retrieve_data` decodes the data all the same, counts here as one without data
(`RtFailed`); `distribute_data`; the reports of statistics (Bonding).

*Proved*, for any miners, hashes, environments and number of tasks
(`RandomData_proofs.tla`): every property of the run `challenge`. The proofs
share `Ctrl`, which says where `forward` is: tasks exist only inside a batch,
verified answers wait to be recorded only in `put_data` and `put_ttl`, and the
script that deletes has marked its hotkey in `hurt`. On top of it

- `RecordedIsStored` carries through `Stored` what is on its way to a field: the
  answers not yet recorded and the hashes of tasks about to write back are
  stored too, and so is what has a time to live, because a new name is only
  used when neither field bears it (`Unused`);
- `BothEndsAgree` needs for a retrieval that goes on without an answer that the
  old seed it writes back belongs to an exchange already in `open`;
- `OnlyTheScriptKills` is `Survives`: the field a task chose, and the times to
  live the loop has still to look at, are there; it holds until the script has
  purged a hotkey, and purges of `forward` find no task under way;
- `MetadataExpires` is `KeptAt`, which says how the two fields differ while one
  command of a pair has run and not the other;
- `ExpiredIsPurged` follows each expired field (`DueAt`) from the hotkeys left
  to scan, to the fields left to check, to the two commands that drop it.

That the environment lists at least one hotkey, or that the data is finite, is
not needed. `PurgeKeepsChunks` is false, as the run shows.

## Epoch loop

`EpochLoop.tla` is `run` of `neurons/validator.py` with `forward`'s purges and
monitor, `state.py`, `set_weights_for_validator`, and the thread that follows
registrations on the chain.

*State.* `v` is the main thread: its program counter, the metagraph it has in
memory (`hotkeys`, `axons`), the scores (as the set of hotkeys whose rewards
are in them, and the uids they have room for), the counters of the monitor and
the blocks since the last step and the last setting of weights. `sub` is the
thread with its queue, `saved` the checkpoint, `owner`, `since` and `epoch` the
chain, `headers` the blocks on their way to the thread, `pool` the weights on
their way to a block, each with a flag that says whether the `last_update` its
sender read is still the chain's. Blocks are counted only up to the largest
distance the code compares with.

*Actions.* `Boot`, `LoadState`, `ResyncMetagraph`, `SaveState` or `SaveFails`,
`StartThread`; `Sync`, `Wait`, `Forward`, `Monitor`, `Purge`, `Mark`, `Check`,
`Weights`, `EndStep`; `HandleHeader` and `HandlerDies`; `Block`,
`RegisterNeuron`, `NextEpoch`, `TakeWeights` and `DropWeights` of the chain; `Kill`, which may cut the
checkpoint short. `End` is a restart after an exception: the rewards of a uid
for which the scores have no room (`Forward`), or `set_weights`, whose handler
returns a variable that was never assigned (`shared/weights.py:91`).

| Run | Instance | What it shows |
|---|---|---|
| `epochs` | two uids that get new hotkeys; failing miners and kills; four epochs and kills; weights (two settings on their way at most) and kills; fairness | `TypeOK`; `DownEarned`: a miner is reported down after more than `MaxFailures` failures only; `PurgeOnce`: one purge per epoch across restarts; `WeightsSpaced`: weights whose sender read the present `last_update` are taken after half a tempo only; `QueueDrains`: replaced hotkeys reach the script, or the thread ends |
| `epochs_scores` | the same | violation of `ScoresOfOwners` |

The finding of `epochs_scores`: `state.py:124` zeroes the scores of hotkeys
that were replaced. It compares the metagraph before and after its own sync;
the loop synced at its start and the thread assigned the new hotkey, so nothing
differs and the newcomer inherits the score. For the same reason the scores do
not grow with the metagraph, and a reward for a new uid raises.

Weights are sent without waiting for a block (`weights.py:144-145`,
`shared/weights.py:35-36`), so `Weights` only puts them into `pool`, and the
chain takes or loses them at any later moment. The loop reads `last_update`
again before that moment: weights that are still in the pool are not in it, and
the loop may send others three blocks later. The chain may then take two
settings within half a tempo; the model does this too. `WeightsSpaced` is
about the weights for which the `last_update` that was read is still that of
the chain when they are taken: no restart, lost checkpoint, refused attempt or
lost setting makes these early.

Three properties name the executions they exclude. Counters that a restart
brings back were reported once already (`restored`). A purge is repeated when
the process ended before `last_purged_epoch` was on disk, or the save failed
(`lost`).

Fairness: blocks keep coming, the main thread takes its next step and the
thread handles its headers. `QueueDrains` also needs that registrations end,
which the bound on hotkeys provides: the code empties the queue when no
registration came for `QuietBlocks` blocks, and a chain that always registers
somebody keeps it waiting. Deadlock is checked: blocks never end.

Bounds: `Envs` again lists environments, each of which allows one kind of
trouble. Two hotkeys on one uid, which may also be free at first, are a
registration and a replacement; the periods are the least at which each comparison can go both ways.
`metagraph.hotkeys` is taken to be a list that can be assigned to, as
`validator.py:374` needs; `num_concurrent_forwards` is at its default of 1; the
deregistration of the validator itself is left out. The thread gives the
script the hotkey the metagraph has when the header arrives, which a sync of
the main thread may have made the new one (`validator.py:371`).

*Proved*, for any uids, hotkeys, periods and environments
(`EpochLoop_proofs.tla`): `LoopTypes`, `DownIsEarned`, `PurgedOnce` and
`WeightsAreSpaced`. The invariant `LoopInv` adds to the types what the main
thread knows: between `sync` and the setting of weights its count of blocks is
the chain's, unless the chain took weights meanwhile (`SinceKnown`), weights in
the pool whose flag is still set may be taken at once (`PoolFresh`), each counter of failures has been earned, in memory
and in the checkpoint, unless a restart brought it back (`CountersEarned`), and
an epoch that was purged is marked in memory, on disk, or on its way there
(`PurgesMarked`). `QueueDrains` is about fairness and stays with TLC.

## Components that share no state

`MCSequential` extends five modules with a variable each. `turn` says which
one moves in an execution while the others rest, so that their states add up
and do not multiply. Users and callers may stop, so deadlock is not checked.

**`Distribution`** is the plan of `store_broadband`: which miners, how long a
chunk, which ranges, which groups (`storage/validator/utils.py`), and the pings
that replace miners without an answer (`compute_and_ping_chunks`,
`ping_and_retry_uids`). `PlanCovers`: the chunks follow each other without
gaps and reach the end of the file where the groups suffice (and are at most
`Overhead + 1`, which the defaults meet: the size of a chunk is rounded down),
and otherwise lack less than a chunk. `PingedAnswered`: a chunk that got its miners got ones
that answered. `PickThorough`: a search gives up only when everyone, or `k`
others in each round, was asked. Checked for every length in `Lengths`, which
stand for an empty file, one chunk, a multiple of the largest chunk and one
byte more. `Overhead` stands for what `sys.getsizeof` adds to the length.
The rerolls of a round are in `Broadband`; a reroll forgets `exclude_uids`
(`network.py:100`).

The run `sequential_tail` shows a finding: the number of groups is rounded
down (`utils.py:792`) and `zip` stops at the shorter list, so the last bytes of
a file longer than the largest chunk for each group of miners are in no
chunk (`AllBytesPlanned`); a retrieval returns the file without its end.

**`MerkleTree`** is `storage/shared/merkle.py` with an injective hash: a hash
is the sequence of what is hashed. `ProofsHold`: the proof of a leaf leads to
the root for its value and no other. `UpdateRebuilds`: an update gives the
tree that would be built anew. A node without a sibling spoils both:
`make_tree` moves it up as it is, `update_leaf` hashes it alone
(`merkle.py:284`). Once an update went through one (`solo`), `UpdateRebuilds`
says nothing, and `ProofsHold` speaks of the leaves that are below none. The
levels are what the loops leave, as recursive functions over the number of the
level (`Above`, `Proofs`, `Updates`, `ProofHash`). Five leaves have such nodes in
the last level and in the one above, six only above the last.

**`Rewards`** goes from the answers of a round to scores (`reward.py`,
`challenge.py`) and from scores to weights (`weights.py`). Sizes of rewards
are abstracted to sign and order. `OwnAnswer`: a score moves by its miner's
own answer, also when miners without data are taken out of a round, by their
outcome out of uids and answers (`challenge.py:278`) and by their index out of
rewards and sizes (`challenge.py:146`). `OwnTime`: the time a reward is scaled with
is the miner's own, although the times are sorted in between and come back
through a dictionary; who did not answer is as slow as the slowest. The sizes do
not: `scale_rewards` documents `data_sizes` as "corresponding to each axon", in the
order of the uids, and divides the sorted times by them (`reward.py:173`), so that
a time is divided by the size of another answer wherever sizes differ, as they do in
challenges and retrievals (`retrieve.py:193`). `UnitTimes` has it so, and no
property says otherwise. `WeightsFollow`: negative and lost scores weigh
nothing, the others keep their order. A round in which nobody earned anything
divides 0 by 0 and the scores of all that were asked are `NaN` until a restart.

**`Admission`** is the blacklist and priority functions of the miner and the
API node, and `RateLimiter`. `RateExact`: at most `MaxRequests` of a caller
pass in any `TimeWindow` seconds, and nobody is refused with fewer. Here code and
documentation differ: the option is a "Time window in blocks for rate limiting"
(`storage/miner/config.py:140`), and a caller is told that it exceeded so many
"requests in {blocks} blocks" (`neurons/miner.py:371`), but `RateLimiter` subtracts
`time.time()` (`storage/miner/utils.py:333`): by default 50 requests pass in 25
seconds, not in 25 blocks of 12 seconds. `RateExact` says what the code does, and
that it is exact. Other behaviour that the
module has and no property judges: the metagraph of a miner is read when it
starts (`miner.py:402`), the limiters are in memory only, and a request before
they exist raises (`miner.py:232`); the retrieve and delete functions of the API
node do not look at its blacklist; its metagraph loop ends with the first
exception (`ApiRefresh`). Time is bounded by `MaxNow`, two windows.

**`Client`** is `storage/api` and the `put` and `get` commands: processes of one
wallet that ask API nodes and share a JSON file of hashes. `run[p]` is a
process, `mail` the requests on their way, which may arrive late or after the
client has gone, and `hashes` the file. `MailMine`: a late answer is never
taken for one of the next attempt. `GivesUpLate`: a store gives up only after
all attempts, and never over a success that could be saved. The save of the
entry is inside the attempt (`store_api.py:158-165`): where the directory or the
disk refuses (`FailSave`), a success counts as a failed attempt, the data is
stored once more, and in the end store raises "Maximum retry limit reached
without success" although a node has the data. `LookupRight`: an entry names
a node that has stored its CID. `KeepsWhenAlone`: an entry is there for every
reported CID as long as no two saves meet and none is cut short, since the file
is read, changed and written back without a lock. Left out: `--uids` of `get`,
names that end in `_hotkeys`, encryption. Where every attempt to retrieve
raises, `data` is unbound and `retrieve` raises too (`retrieve_api.py:153`). Sampling with replacement becomes a set of
nodes. `get` reports an empty file as saved (`retrievecommand.py:146`), and
`delete` returns true for an answer that says nothing was deleted
(`delete_api.py:122`).

| Run | Instance | What it shows |
|---|---|---|
| `sequential` | all five | `TypeOK` and the properties named above |
| `sequential_tail` | the same | violation of `AllBytesPlanned` |

*Proved* (`Client_proofs.tla`), for any processes, nodes, CIDs, attempts and
calls: `ClientTypes`, `MailIsMine`, `EntriesTrue` (`[]LookupRight`),
`GivesUpAtEnd` (`[]GivesUpLate`), `SavesAreKept` (`[]KeepsWhenAlone`). The
invariant `ClientInv` adds that the copy of the file in the hands of a process
is true as well (`TrueHashes`) and that what a process knows at a program point
was earned (`RunOK`), since another process writes the file while this one holds
its copy. `SaveInv` adds for `KeepsWhenAlone` that as long as nothing was
disturbed one process saves at a time, and that the copy it holds has every
entry that is owed, those of processes that have ended included (`SavesOK`).

*Proved* (`MerkleTree_proofs.tla`), for any leaves and any bound on their
number: `TreeTypes` (`[]TreeTypeOK`), `ProofsAreRight` (`[]ProofsHold`) and
`UpdatesRebuild` (`[]UpdateRebuilds`). `TreeInv` says of a tree that is ready
that each level has half the nodes of the one below (`Shaped`), that every node
with two children is their hash (`Paired`), which no update disturbs, and that
without `solo` every level is what `_calculate_next_level` makes of the one
below (`Hashed`). `ProofsLead` climbs from the leaf: with each part of a proof the
hash is that of the next node on the path exactly if it was that of the node
before (`Climb`), because the hash is injective. `UpdatesRebuild` follows
since two trees of this kind over the same leaves are one (`OneTree`). What is
said of all levels is proved with the set of the levels that have been reached
(`Steps`, `StepsDown`), in place of an induction: so is that the recursive
functions exist (`AboveDefined`, `IndexDefined`, `ProofsDefined`,
`HashDefined`, `UpdateDefined`).

*Proved* (`Sequential_proofs.tla`), for any constants that meet the assumptions
of the modules, each for the specification of its component (`PlanSpec`,
`RewSpec`, `GateSpec`):

- `RatesAreExact` (`[]RateExact`). The limiter forgets old requests, the property
  is about all of them: `GateInv` says that what it keeps of a caller is the end
  of the list of all times that caller was let pass, and that any two of these
  that are `MaxRequests` apart are more than a window apart (`InOrder`); who was
  refused last has a limiter that is full (`Full`).
- `OwnAnswersCount` (`OwnAnswer`), `TimesAreOwn` (`[]OwnTime`) and
  `WeightsFollowScores` (`[]WeightsFollow`). `RewInv` says that uids, answers and
  rewards of a round stay in step through the filter (`Together`); that the filter
  keeps the order is argued from the rank of a place among the places kept
  (`Counted`, `KeptRight`), and that the two filters agree (`WithoutKept`). For
  `OwnTime` the places of a stable sort are a permutation (`PlacesRight`), so that
  the dictionary leads from a miner to its own time (`UnitsRight`). A round asks a
  miner once (`RewardsAssumption`), as the uids are drawn without repetition.
- `ChunksCoverFile` (`[]PlanCovers`), `PingedHaveAnswered` (`[]PingedAnswered`) and
  `PicksAreThorough` (`[]PickThorough`). `PlanInv` keeps the layout the chunks had
  when they were cut while pings replace their miners (`PlanOf`), says that the
  chunks with enough answers lie behind the one that is pinged, and counts the
  miners a search has asked or is about to ask (`Thorough`). How far the chunks
  reach is arithmetic on the two divisions (`ChunkSize`, `ChunkCount`,
  `ChunksCover`), which SMT does once each product has a name. The metagraph is
  finite and there is at least one round of pings (`DistributionAssumption`).
- `GateTypes`, `RewardTypes`, `PlanTypes`: the parts of `TypeOK` of these modules.
- `OneAtATime`: the specification that the run checks implements those of the five
  components, so that every theorem above holds of it as well; from this and the
  types of the components, `SequentialTypes` (`[]TypeOK`).

What would be an induction over finite sets (a least number exists, a set has as
many members as ranks) is argued from a least counterexample, since sets ordered
by inclusion and numbers are well founded (`LeastSet`, `LeastNatural`, in
`MerkleTree_proofs.tla`).

## Assumptions, bounds and what is only model-checked

The proofs rest on the named assumptions on constants in the modules, which TLC
evaluates in the runs, and where it is said on requests that do
not overlap (`Alone`), or that nothing is deleted or killed. Liveness under
fairness (`Answered`, `Finishes`, `QueueDrains`) is checked by TLC only: a proof
needs `ENABLED`, which the prover does not handle. Every invariant and every
action property of a passing run is stated by a theorem. The four violations are
counterexamples of TLC.

A bug for each property is written next to the definition it would spoil
(operators named `Name_What`): in its place TLC finds the property violated.

## Plan

Done: the modules and the proofs above. Left: `distribute_data` as another loop in
`RandomData`.

## Not modelled

Elliptic curve commitments, encryption and CIDs: byte-level functions. The
models take a commitment to be determined by its inputs, equal CIDs to be
equal data, and a payload to decrypt what it was made for. Prompts, list and
stats commands, the indexer, the web front end and plots: user interface and
read-only views. `02_clean.py` and the removal functions it uses; statistics of
disk and network use; wandb and event logs; `distribute_data`, which calls the
retrieval and the store modelled here; helpers in `storage/validator/utils.py`
that nothing calls; the axon, the dendrite and the chain of Bittensor, which are
external and modelled by what the code sees of them.
