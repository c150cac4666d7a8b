----------------------------- MODULE Broadband -----------------------------
(***************************************************************************)
(* Storing, retrieving and deleting the data of users: store_user_data,    *)
(* retrieve_user_data and delete_user_data of neurons/api.py, with         *)
(* store_broadband (storage/validator/store.py), retrieve_broadband        *)
(* (retrieve.py) and the index they share.                                 *)
(*                                                                         *)
(* A call runs one task per chunk and then one per answer; tasks and calls *)
(* interleave at every await.  Miners are external: a miner asked to store *)
(* a chunk stores it and answers with a commitment that verifies, stores   *)
(* it and is not heard, or does neither.  A uid keeps its hotkey during a  *)
(* call: the code looks the hotkey up again at each use.                   *)
(***************************************************************************)
EXTENDS ValidatorIndex

CONSTANTS
  FileOf,        \* [Call -> File]: what the user of a call sends
  R,             \* miners per chunk
  MaxRounds,     \* the `retries < 3` of store_broadband
  SemaphoreSize, \* neuron.semaphore_size
  Overlap,       \* whether calls overlap
  MayCrash,      \* whether the API node may be killed
  Requests       \* what users do besides storing

ASSUME BroadbandAssumption ==
  /\ IsFiniteSet(Hotkey)
  /\ FileOf \in [Call -> File]
  /\ R \in Nat \ {0}
  /\ MaxRounds \in Nat \ {0}
  /\ SemaphoreSize \in Nat \ {0}
  /\ Overlap \in BOOLEAN /\ MayCrash \in BOOLEAN
  /\ Requests \subseteq {"retrieve", "delete"}

VARIABLES
  call,   \* store_user_data: one record per call
  dist,   \* dist[o][i]: the distribution of chunk i in call o
  del,    \* delete_user_data
  ret,    \* retrieve_user_data
  disk    \* external: chunks a miner holds

vars == <<index, call, dist, del, ret, disk>>

-----------------------------------------------------------------------------
(* Local variables of the coroutines                                       *)

CallPc == {"idle", "key", "again", "plan", "round", "query", "verify", "map",
           "stored", "exists", "failed", "killed"}
AtRest == {"idle", "stored", "exists", "failed", "killed"}
CallRec ==
  {c \in [pc : CallPc, round : Nat, mapped : 0..NumChunks] :
     /\ c.pc \notin {"map", "stored", "killed"} => c.mapped = 0
     /\ c.pc = "map" => c.mapped < NumChunks}

\* Groups of distinct miners, and those of at most n.
Groups == {s \in UNION {[1..m -> Hotkey] : m \in 0..Cardinality(Hotkey)} :
             \A j, k \in DOMAIN s : s[j] = s[k] => j = k}
Group(n) == {s \in Groups : Cardinality(DOMAIN s) <= n}

\* uids: miners chosen; asked: positions left by the capacity filter; ok: those
\* of them whose answer verifies; todo: pairs of zip(uids, responses) to handle.
Place == 1..Cardinality(Hotkey)
Dist ==
  {d \in [at : {"new", "asked", "rowed"}, uids : Groups, asked : SUBSET Place,
          ok : SUBSET Place, todo : SUBSET Place] :
     /\ d.ok \subseteq d.asked
     /\ d.asked \subseteq DOMAIN d.uids
     /\ d.at = "new" => d.ok = {}}

NewDist(g) ==
  [at |-> "new", uids |-> g, asked |-> {}, ok |-> {}, todo |-> {}]

NoDist == [i \in Position |-> NewDist(<<>>)]

At(o, pc) == call[o].pc = pc
SetDist(o, i, d) == dist' = [dist EXCEPT ![o][i] = d]
Goto(o, pc) == call' = [call EXCEPT ![o].pc = pc]

Del ==
  {d \in [pc : {"idle", "chunks", "rows", "done"}, file : File \cup {None},
          left : SUBSET Chunk] : d.pc # "idle" => d.file \in File}
IdleDel == [pc |-> "idle", file |-> None, left |-> {}]

\* who: the hotkeys that were listed for the chunks when they were looked up.
Ret ==
  {r \in [pc : {"idle", "fetch", "key", "done"}, file : File \cup {None},
          who : UNION {[S -> SUBSET Hotkey] : S \in SUBSET Chunk},
          got : SUBSET Chunk, key : Call \cup {None}] :
     r.pc # "idle" => r.file \in File}
IdleRet ==
  [pc |-> "idle", file |-> None, who |-> <<>>, got |-> {}, key |-> None]

\* Calls that do not overlap begin when nothing else is going on.
MayBegin ==
  \/ Overlap
  \/ /\ \A o \in Call : call[o].pc \in AtRest
     /\ del.pc \in {"idle", "done"}
     /\ ret.pc \in {"idle", "done"}

-----------------------------------------------------------------------------
(* store_user_data and store_broadband                                     *)

\* store_user_data: reject what is stored already.  The chunks listed are read with their
\* rows: a row once listed goes only by a deletion.
Lookup(o) ==
  /\ At(o, "idle")
  /\ MayBegin
  /\ Goto(o, IF Known(FileOf[o]) THEN "exists" ELSE "key")
  /\ UNCHANGED <<index, dist, del, ret, disk>>

\* Encrypt, and store the key before there is anything to decrypt.
SetKey(o) ==
  /\ At(o, "key")
  /\ key' = [key EXCEPT ![FileOf[o]] = o]
  /\ Goto(o, "again")
  /\ UNCHANGED <<file, row, held, dist, del, ret, disk>>

\* store_broadband looks again.
LookupAgain(o) ==
  /\ At(o, "again")
  /\ Goto(o, IF Known(FileOf[o]) THEN "exists" ELSE "plan")
  /\ UNCHANGED <<index, dist, del, ret, disk>>

\* create_initial_distributions: R miners per chunk, or as many as answer.
Plan(o) ==
  /\ At(o, "plan")
  /\ \E g \in [Position -> Group(R)] :
       dist' = [dist EXCEPT ![o] = [i \in Position |-> NewDist(g[i])]]
  /\ Goto(o, "round")
  /\ UNCHANGED <<index, del, ret, disk>>

\* Three failures leave `distributions` unbound: store_user_data raises.
PlanFails(o) ==
  /\ At(o, "plan")
  /\ Goto(o, "failed")
  /\ UNCHANGED <<index, dist, del, ret, disk>>

\* The loop holds one permit of the semaphore when semaphore_query_miners
\* asks for another.
CreateTasks(o) ==
  /\ At(o, "round")
  /\ SemaphoreSize > 1
  /\ Goto(o, "query")
  /\ UNCHANGED <<index, dist, del, ret, disk>>

\* store_chunk_group up to the call of the dendrite: leave out full miners.
AskMiners(o, i) ==
  /\ At(o, "query")
  /\ dist[o][i].at = "new"
  /\ SetDist(o, i, [dist[o][i] EXCEPT !.at = "asked", !.asked =
                     {j \in DOMAIN dist[o][i].uids :
                        ~AtCapacity(dist[o][i].uids[j])}])
  /\ UNCHANGED <<index, call, del, ret, disk>>

\* The miners at some places of a distribution.
Miners(d, places) == {d.uids[j] : j \in places}

MinersKeep(c, hks) ==
  disk' = [hk \in Hotkey |-> IF hk \in hks THEN disk[hk] \cup {c}
                             ELSE disk[hk]]

\* A bug: a chunk that nobody proved to store gets no metadata.
StoreChunk_Verified(o, i) ==
  LET d == dist[o][i] IN
  /\ At(o, "query")
  /\ d.at = "asked"
  /\ \E ok \in SUBSET d.asked :
       /\ MinersKeep(<<o, i>>, Miners(d, ok))
       /\ SetDist(o, i, [d EXCEPT !.at = "rowed", !.ok = ok])
       /\ IF ok = {} THEN UNCHANGED row
          ELSE StoreChunkMetadata(<<o, i>>, Miners(d, ok))
  /\ UNCHANGED <<file, held, key, call, del, ret>>

\* The answers, and store_chunk_metadata with every miner that was asked.  Only this task
\* writes the row before the file lists the chunk, so its hget and hmset are one step.
StoreChunk(o, i) ==
  LET d == dist[o][i] IN
  /\ At(o, "query")
  /\ d.at = "asked"
  /\ \E kept \in SUBSET d.asked, ok \in SUBSET d.asked :
       /\ ok \subseteq kept
       /\ MinersKeep(<<o, i>>, Miners(d, kept))
       /\ SetDist(o, i, [d EXCEPT !.at = "rowed", !.ok = ok])
  /\ StoreChunkMetadata(<<o, i>>, Miners(d, d.asked))
  /\ UNCHANGED <<file, held, key, call, del, ret>>

\* gather: the pairs of zip(dist["uids"], dist["responses"]) are as many as
\* there are answers.
Gather(o) ==
  /\ At(o, "query")
  /\ \A i \in Position : dist[o][i].at = "rowed"
  /\ dist' = [dist EXCEPT ![o] = [i \in Position |->
               [dist[o][i] EXCEPT !.todo = 1..Cardinality(dist[o][i].asked)]]]
  /\ Goto(o, "verify")
  /\ UNCHANGED <<index, del, ret, disk>>

\* The place of the j-th answer: the responses are those of the miners asked.
Answerer(asked, j) ==
  CHOOSE k \in asked : Cardinality({x \in asked : x <= k}) = j

\* handle_uid_operations for the j-th uid and the j-th response: where a miner was left
\* out, that of another one.
HandleUid(o, i, j) ==
  LET d == dist[o][i] IN
  /\ At(o, "verify")
  /\ j \in d.todo
  /\ IF Answerer(d.asked, j) \in d.ok
       THEN AddMetadataToHotkey(d.uids[j], <<o, i>>)
       ELSE UNCHANGED held
  /\ SetDist(o, i, [d EXCEPT !.todo = @ \ {j}])
  /\ UNCHANGED <<file, row, key, call, del, ret, disk>>

\* The pairs of the round that did not verify, and the uids they blame.
Failures(o) ==
  {p \in Position \X Place :
     /\ p[2] <= Cardinality(dist[o][p[1]].asked)
     /\ Answerer(dist[o][p[1]].asked, p[2]) \notin dist[o][p[1]].ok}
Blamed(o) == {dist[o][p[1]].uids[p[2]] : p \in Failures(o)}

RoundOver(o) == At(o, "verify") /\ \A i \in Position : dist[o][i].todo = {}

\* A bug: a round with a new group does not count as a retry.
Reroll_NotCounted(o) ==
  /\ RoundOver(o)
  /\ Failures(o) # {}
  /\ \E g \in [Position -> {s \in Group(Cardinality(Failures(o))) :
                              \A j \in DOMAIN s : s[j] \notin Blamed(o)}] :
       dist' = [dist EXCEPT ![o] = [i \in Position |-> NewDist(g[i])]]
  /\ Goto(o, "round")
  /\ UNCHANGED <<index, del, ret, disk>>

\* One failure anywhere rerolls every chunk.
Reroll(o) ==
  /\ RoundOver(o)
  /\ Failures(o) # {}
  /\ call[o].round + 1 < MaxRounds
  /\ \E g \in [Position -> {s \in Group(Cardinality(Failures(o))) :
                              \A j \in DOMAIN s : s[j] \notin Blamed(o)}] :
       dist' = [dist EXCEPT ![o] = [i \in Position |-> NewDist(g[i])]]
  /\ call' = [call EXCEPT ![o].pc = "round", ![o].round = @ + 1]
  /\ UNCHANGED <<index, del, ret, disk>>

\* The loop ends: nothing failed, or no round is left.
EndRounds(o) ==
  /\ RoundOver(o)
  /\ Failures(o) = {} \/ call[o].round + 1 >= MaxRounds
  /\ dist' = [dist EXCEPT ![o] = NoDist]
  /\ Goto(o, "map")
  /\ UNCHANGED <<index, del, ret, disk>>

\* store_file_chunk_mapping_ordered, one zadd per chunk, whatever was stored.
MapChunk(o) ==
  LET n == call[o].mapped + 1 IN
  /\ At(o, "map")
  /\ AddToFile(FileOf[o], <<o, n>>)
  /\ call' = [call EXCEPT ![o].mapped = n,
                          ![o].pc = IF n = NumChunks THEN "stored" ELSE "map"]
  /\ UNCHANGED <<row, held, key, dist, del, ret, disk>>

-----------------------------------------------------------------------------
(* delete_user_data and delete_file_from_database                          *)

DelGoto(pc) == del' = [del EXCEPT !.pc = pc]

DeleteLookup(f) ==
  /\ "delete" \in Requests
  /\ del.pc = "idle"
  /\ MayBegin
  /\ Known(f)
  /\ del' = [del EXCEPT !.pc = "chunks", !.file = f]
  /\ UNCHANGED <<index, call, dist, ret, disk>>

DeleteChunks ==
  /\ del.pc = "chunks"
  /\ IF file[del.file] = {}
       THEN DelGoto("done")
       ELSE \E S \in ChunksForFile(del.file) :
              del' = [del EXCEPT !.pc = "rows", !.left = S]
  /\ UNCHANGED <<index, call, dist, ret, disk>>

DeleteRow ==
  /\ del.pc = "rows"
  /\ \E c \in del.left :
       /\ \A d \in del.left : c[2] <= d[2]
       /\ row' = [row EXCEPT ![c] = None]
       /\ del' = [del EXCEPT !.left = @ \ {c}]
  /\ UNCHANGED <<file, held, key, call, dist, ret, disk>>

\* A bug: the list of the chunks outlives their metadata.
DeleteFile_KeepList ==
  /\ del.pc = "rows"
  /\ del.left = {}
  /\ DelGoto("done")
  /\ UNCHANGED <<index, call, dist, ret, disk>>

\* The file goes only when no chunk of it is found any more.
DeleteFile ==
  /\ del.pc = "rows"
  /\ del.left = {}
  /\ file' = [file EXCEPT ![del.file] = IF Known(del.file) THEN @ ELSE {}]
  /\ DelGoto("done")
  /\ UNCHANGED <<row, held, key, call, dist, ret, disk>>

-----------------------------------------------------------------------------
(* retrieve_user_data and retrieve_broadband                               *)

RetrieveLookup(f) ==
  /\ "retrieve" \in Requests
  /\ ret.pc \in {"idle", "done"}
  /\ MayBegin
  /\ Known(f)
  /\ \E S \in ChunksForFile(f) :
       ret' = [IdleRet EXCEPT !.pc = "fetch", !.file = f,
                              !.who = [c \in S |-> row[c]]]
  /\ UNCHANGED <<index, call, dist, del, disk>>

\* retrieve_chunk_group for every chunk, then the join: a chunk no listed miner
\* returned is left out.
RetrieveFetch ==
  /\ ret.pc = "fetch"
  /\ \E got \in SUBSET {c \in DOMAIN ret.who :
                          \E hk \in ret.who[c] : c \in disk[hk]} :
       ret' = [ret EXCEPT !.pc = "key", !.got = got]
  /\ UNCHANGED <<index, call, dist, del, disk>>

RetrieveKey ==
  /\ ret.pc = "key"
  /\ ret' = [ret EXCEPT !.pc = "done", !.key = key[ret.file]]
  /\ UNCHANGED <<index, call, dist, del, disk>>

-----------------------------------------------------------------------------
(* The API node                                                            *)

\* The process is killed: its coroutines end, redis and the miners stay.
Crash ==
  /\ MayCrash
  /\ call' = [o \in Call |-> IF call[o].pc \in AtRest THEN call[o]
                             ELSE [call[o] EXCEPT !.pc = "killed"]]
  /\ del' = IF del.pc = "idle" THEN del ELSE [del EXCEPT !.pc = "done"]
  /\ ret' = IdleRet
  /\ dist' = [o \in Call |-> NoDist]
  /\ UNCHANGED <<index, disk>>

Init ==
  /\ EmptyIndex
  /\ call = [o \in Call |-> [pc |-> "idle", round |-> 0, mapped |-> 0]]
  /\ dist = [o \in Call |-> NoDist]
  /\ del = IdleDel
  /\ ret = IdleRet
  /\ disk = [hk \in Hotkey |-> {}]

Task(o) ==
  \/ \E i \in Position : AskMiners(o, i) \/ StoreChunk(o, i)
  \/ \E i \in Position, j \in Place : HandleUid(o, i, j)

\* A call after its arrival.
Proceed(o) ==
  \/ SetKey(o) \/ LookupAgain(o) \/ Plan(o) \/ PlanFails(o)
  \/ CreateTasks(o) \/ Task(o) \/ Gather(o)
  \/ Reroll(o) \/ EndRounds(o) \/ MapChunk(o)

StoreUserData(o) == Lookup(o) \/ Proceed(o)

DeleteUserData ==
  \/ \E f \in File : DeleteLookup(f)
  \/ DeleteChunks \/ DeleteRow \/ DeleteFile

RetrieveUserData ==
  \/ \E f \in File : RetrieveLookup(f)
  \/ RetrieveFetch \/ RetrieveKey

Next ==
  \/ \E o \in Call : StoreUserData(o)
  \/ DeleteUserData
  \/ RetrieveUserData
  \/ Crash

Spec == Init /\ [][Next]_vars

\* asyncio resumes a coroutine whose await is over, and the dendrite's calls
\* end by their timeout.
FairSpec == Spec /\ \A o \in Call : WF_vars(Proceed(o))

-----------------------------------------------------------------------------
(* Properties                                                              *)

\* Type invariant of the index, the coroutines and the miners' disks.
TypeOK ==
  /\ IndexTypeOK
  /\ call \in [Call -> CallRec]
  /\ dist \in [Call -> [Position -> Dist]]
  /\ del \in Del
  /\ ret \in Ret
  /\ disk \in [Hotkey -> SUBSET Chunk]

\* No miner has reached its limit.  Nothing here takes a credit away, so none ever has.
NoneFull == \A hk \in Hotkey : ~AtCapacity(hk)

\* A hotkey is credited only with chunks its miner has.  store.py:411 says "Prepare
\* storage for the data for particular miner" of an answer that verifies.
CreditedHolds == \A hk \in Hotkey : held[hk] \subseteq disk[hk]

\* As long as no miner is full, a hotkey credited with a chunk is listed for it: every
\* copy the validator pays for can be found by a retrieval, whatever rounds, answers and
\* calls were in between.
CreditedListed ==
  NoneFull =>
    \A hk \in Hotkey : \A c \in held[hk] : row[c] # None /\ hk \in row[c]

\* No file lists a chunk without metadata, which a retrieval would leave out
\* of the data without an error.
MappedListed == \A f \in File : \A c \in file[f] : row[c] # None

\* When nothing is going on a file is not there, or all chunks of one call are
\* listed and each has its metadata.
Quiet ==
  /\ \A o \in Call : call[o].pc \in AtRest
  /\ del.pc \in {"idle", "done"}
QuietWhole ==
  Quiet => \A f \in File :
    \/ file[f] = {}
    \/ /\ \E o \in Call : file[f] = {o} \X Position
       /\ Rowed(f) = file[f]

\* Every call of store_user_data ends.
Finishes == \A o \in Call : call[o].pc # "idle" ~> call[o].pc \in AtRest

\* The version of a file is the call that encrypted it, from the mapping of its last
\* chunk on until the first chunk is deleted.
Whole(f, o) == {o} \X Position \subseteq Rowed(f)

VersionOf(f) ==
  IF \E o \in Call : Whole(f, o) THEN CHOOSE o \in Call : Whole(f, o) ELSE None

Versions == [f \in File |-> VersionOf(f)]
StoredVersions == {o \in Call : At(o, "stored")}

\* What the user of a retrieval has in hands.
Answer ==
  IF ret.pc = "done" THEN [key |-> ret.key, data |-> {c[1] : c \in ret.got}]
                     ELSE [key |-> None, data |-> {}]

FS == INSTANCE FileStore WITH
  Version <- Call, version <- Versions, stored <- StoredVersions, answer <- Answer

\* Without overlaps and kills, storing, retrieving and deleting step by step, chunk by
\* chunk, looks to the user like one step each on a store of whole files.
ImplementsFileStore == FS!Spec
=============================================================================
