------------------------------- MODULE Miner -------------------------------
(***************************************************************************)
(* The storage miner: the three axon handlers of neurons/miner.py (store,  *)
(* challenge, retrieve), the metadata functions of                         *)
(* storage/miner/database.py they call, and the schema migration script    *)
(* scripts/redis/schema_migration/01_migrate.py that may run beside them.  *)
(*                                                                         *)
(* The handlers are coroutines of one event loop that share a redis        *)
(* database and a data directory.  Between two awaits a coroutine runs     *)
(* alone, and every redis command is atomic, so the model has one action   *)
(* per redis command and one per disk access; any two requests interleave  *)
(* between them.  A request is a slot of Req, its program counter names    *)
(* the command it sends next.                                              *)
(***************************************************************************)
EXTENDS Naturals, FiniteSets

CONSTANTS
  Hotkey,      \* hotkeys of the callers (validators, API nodes)
  Hash,        \* data hashes
  Req,         \* request slots: how many handlers may be in progress
  Storers,     \* [Hash -> SUBSET Hotkey]: who stores the data of a hash
  Readers,     \* [Hash -> SUBSET Hotkey]: who challenges or retrieves a hash
  Patient,     \* callers that ask for a hash only after their store returned
  LegacyOwner, \* [Hash -> Hotkey \cup {None}]: owner of a row from before 1.5.3
  MayCrash,    \* whether the miner process may be killed
  None,        \* no hotkey
  NoMd         \* no metadata: an absent redis field

-----------------------------------------------------------------------------
(* Data                                                                    *)

\* {directory}/{hotkey}/{hash}, the location save_data_to_filesystem writes.
Dir(hk, h) == <<"dir", hk, h>>

\* {directory}/{hash}, the location used before 1.5.3.
Flat(h) == <<"flat", h>>

EmptyPath == <<"empty">>      \* the filepath ""
NoPath    == <<"none">>       \* no filepath key in the dictionary

File == {Dir(hk, h) : hk \in Hotkey, h \in Hash} \cup {Flat(h) : h \in Hash}
Path == File \cup {EmptyPath, NoPath}

\* A seed is abstracted to its provenance: who sent it, about which hash.
Seed   == Hotkey \X Hash
NoSeed == <<>>                \* the seed ""

Md       == [path : Path, seed : Seed \cup {NoSeed}]
OldMd    == [hotkey : Hotkey, path : Path, seed : Seed]
EmptyMd  == [path |-> NoPath, seed |-> NoSeed]

Op == {"store", "challenge", "retrieve", "migrate"}

ConvertPc == {"cv_hgetall", "cv_both", "cv_delete", "cv_set"}
UpdatePc  == {"old_hgetall", "old_hget", "up_hget", "up_hset"}
LookupPc  == {"gm_hgetall", "gm_hget", "gm_read", "gm_raw", "load"}
StorePc   == {"st_hexists", "st_save", "st_getpath", "st_exists", "st_hget",
              "st_new"}
Pc == ConvertPc \cup UpdatePc \cup LookupPc \cup StorePc
        \cup {"idle", "mg_hgetall", "done"}

Status == {"none", "ok", "not_found"}

Request ==
  [pc : Pc, op : Op, hk : Hotkey \cup {None}, h : Hash,
   data : Md,                     \* the metadata dictionary it holds
   old : OldMd \cup {NoMd},       \* old_md of convert_to_new_format
   to : Hotkey \cup {None},       \* the hotkey argument of the callee
   ret : {"old_hgetall", "up_hget", "gm_read", "done"},
   proof : Seed \cup {NoSeed},    \* the seed its proof was computed from
   status : Status]

ASSUME HashAssumption == Hash # {}
ASSUME NoneAssumption == None \notin Hotkey
ASSUME NoMdAssumption == NoMd \notin Md /\ NoMd \notin OldMd
ASSUME StorersAssumption == Storers \in [Hash -> SUBSET Hotkey]
ASSUME ReadersAssumption == Readers \in [Hash -> SUBSET Hotkey]
ASSUME PatientAssumption == Patient \subseteq Hotkey
ASSUME LegacyAssumption == LegacyOwner \in [Hash -> Hotkey \cup {None}]
ASSUME CrashAssumption == MayCrash \in BOOLEAN

VARIABLES
  entry,   \* [Hash -> [Hotkey -> Md or NoMd]]: field hk of the redis hash h
  legacy,  \* [Hash -> OldMd or NoMd]: the flat fields of a row before 1.5.3
  files,   \* the files in the data directory
  req,     \* the handlers in progress
  acked    \* the stores whose reply was sent: <<hash, hotkey>>

vars == <<entry, legacy, files, req, acked>>
redis == <<entry, legacy>>

-----------------------------------------------------------------------------
(* Steps of one request                                                    *)

IdleRequest ==
  [pc |-> "idle", op |-> "store", hk |-> None, h |-> CHOOSE h \in Hash : TRUE,
   data |-> EmptyMd, old |-> NoMd, to |-> None, ret |-> "done",
   proof |-> NoSeed, status |-> "none"]

At(r, pc) == req[r].pc = pc

\* The coroutine of r advances to the record q.
Become(r, q) == req' = [req EXCEPT ![r] = q]
Goto(r, pc) == Become(r, [req[r] EXCEPT !.pc = pc])
Finish(r, status) ==
  Become(r, [req[r] EXCEPT !.pc = "done", !.status = status, !.data = EmptyMd])

Field(r) == entry[req[r].h][req[r].hk]

\* hgetall(h) returns an empty dictionary.
RowEmpty(h) == legacy[h] = NoMd /\ \A hk \in Hotkey : entry[h][hk] = NoMd

CallerSeed(r) == <<req[r].hk, req[r].h>>

\* A call of convert_to_new_format with hotkey argument `to'.
CallConvert(r, to, ret) ==
  Become(r, [req[r] EXCEPT !.pc = "cv_hgetall", !.to = to, !.ret = ret,
                           !.data = EmptyMd])

\* convert_to_new_format returns to its caller.
ReturnFromConvert(r) ==
  Become(r, [req[r] EXCEPT !.pc = req[r].ret, !.ret = "done",
                           !.to = req[r].hk, !.old = NoMd])

\* A call of update_seed_info, which starts with is_old_version(h, hk).  The
\* dictionary the caller holds is not used again.
CallUpdate(q) ==
  [q EXCEPT !.pc = "old_hgetall", !.to = q.hk, !.data = EmptyMd]

-----------------------------------------------------------------------------
(* Arrival and reply                                                       *)

\* The axon dispatches a request of hotkey hk about hash h to its handler.
Receive(r) ==
  /\ At(r, "idle")
  /\ \E op \in Op \ {"migrate"}, h \in Hash :
       \E hk \in IF op = "store" THEN Storers[h] ELSE Readers[h] :
         /\ (op # "store" /\ hk \in Patient) => <<h, hk>> \in acked
         /\ Become(r, [IdleRequest EXCEPT
                         !.pc = IF op = "store" THEN "st_hexists"
                                                ELSE "gm_hgetall",
                         !.op = op, !.hk = hk, !.h = h])
  /\ UNCHANGED <<redis, files, acked>>

\* 01_migrate.py reaches the key h: convert_all_to_hotkey_format.
Migrate(r) ==
  /\ At(r, "idle")
  /\ \E h \in Hash :
       Become(r, [IdleRequest EXCEPT !.pc = "mg_hgetall", !.op = "migrate",
                                     !.h = h])
  /\ UNCHANGED <<redis, files, acked>>

\* The handler returns its synapse.
Reply(r) ==
  /\ At(r, "done")
  /\ acked' = IF req[r].op = "store"
                THEN acked \cup {<<req[r].h, req[r].hk>>} ELSE acked
  /\ Become(r, IdleRequest)
  /\ UNCHANGED <<redis, files>>

\* The miner or the migration script is killed: its coroutines are gone, redis
\* and the disk stay.
Crash ==
  /\ MayCrash
  /\ \E script \in BOOLEAN :
       LET dead == {r \in Req : (req[r].op = "migrate") = script} IN
       /\ \E r \in dead : ~At(r, "idle")
       /\ req' = [r \in Req |-> IF r \in dead THEN IdleRequest ELSE req[r]]
  /\ UNCHANGED <<redis, files, acked>>

-----------------------------------------------------------------------------
(* miner.store and store_or_update_chunk_metadata                          *)

\* A bug: tests whether the row exists, not the caller's field of it.
StHexists_AnyCaller(r) ==
  /\ At(r, "st_hexists")
  /\ Goto(r, IF RowEmpty(req[r].h) THEN "st_save" ELSE "st_getpath")
  /\ UNCHANGED <<redis, files, acked>>

StHexists(r) ==
  /\ At(r, "st_hexists")
  /\ Goto(r, IF Field(r) = NoMd THEN "st_save" ELSE "st_getpath")
  /\ UNCHANGED <<redis, files, acked>>

StSave(r) ==
  LET path == Dir(req[r].hk, req[r].h) IN
  /\ At(r, "st_save")
  /\ files' = files \cup {path}
  /\ Become(r, [req[r] EXCEPT !.pc = "st_exists", !.data.path = path])
  /\ UNCHANGED <<redis, acked>>

StGetFilepath(r) ==
  LET md == Field(r) IN
  /\ At(r, "st_getpath")
  /\ Become(r, [req[r] EXCEPT
                  !.pc = "st_exists",
                  !.data.path = IF md = NoMd THEN EmptyPath ELSE md.path])
  /\ UNCHANGED <<redis, files, acked>>

StExists(r) ==
  /\ At(r, "st_exists")
  /\ Goto(r, IF RowEmpty(req[r].h) THEN "st_new" ELSE "st_hget")
  /\ UNCHANGED <<redis, files, acked>>

StHget(r) ==
  /\ At(r, "st_hget")
  /\ IF Field(r) = NoMd THEN CallConvert(r, None, "old_hgetall")
                        ELSE Become(r, CallUpdate(req[r]))
  /\ UNCHANGED <<redis, files, acked>>

\* store_chunk_metadata
StNew(r) ==
  LET q == req[r] IN
  /\ At(r, "st_new")
  /\ entry' = [entry EXCEPT
       ![q.h][q.hk] = [path |-> q.data.path, seed |-> CallerSeed(r)]]
  /\ Finish(r, "ok")
  /\ UNCHANGED <<legacy, files, acked>>

-----------------------------------------------------------------------------
(* is_old_version and update_seed_info                                     *)

\* is_old_version(key) without a hotkey, called by the migration, takes the
\* hotkey out of the row first.
MgHgetall(r) ==
  LET old == legacy[req[r].h] IN
  /\ At(r, "mg_hgetall")
  /\ IF old = NoMd
       THEN Finish(r, "ok")
       ELSE Become(r, [req[r] EXCEPT !.pc = "old_hgetall", !.to = old.hotkey])
  /\ UNCHANGED <<redis, files, acked>>

\* Where the caller of is_old_version continues when the row is not old.
NotOldPc(r) == IF req[r].op = "migrate" THEN "done" ELSE "up_hget"

OldHgetall(r) ==
  /\ At(r, "old_hgetall")
  /\ Goto(r, IF RowEmpty(req[r].h) THEN NotOldPc(r) ELSE "old_hget")
  /\ UNCHANGED <<redis, files, acked>>

OldHget(r) ==
  /\ At(r, "old_hget")
  /\ IF entry[req[r].h][req[r].to] # NoMd
       THEN Goto(r, NotOldPc(r))
       ELSE CallConvert(r, req[r].hk, NotOldPc(r))
  /\ UNCHANGED <<redis, files, acked>>

\* A bug: builds the dictionary afresh even when the field exists.
UpdatedMd_Fresh(md, seed) == [path |-> EmptyPath, seed |-> seed]

\* The metadata update_seed_info writes back for what it read.
UpdatedMd(md, seed) ==
  IF md = NoMd THEN [path |-> EmptyPath, seed |-> seed]
               ELSE [md EXCEPT !.seed = seed]

UpHget(r) ==
  /\ At(r, "up_hget")
  /\ Become(r, [req[r] EXCEPT !.pc = "up_hset",
                              !.data = UpdatedMd(Field(r), CallerSeed(r))])
  /\ UNCHANGED <<redis, files, acked>>

\* A bug: writes the metadata into every field of the row.
UpHset_EveryField(r) ==
  LET q == req[r] IN
  /\ At(r, "up_hset")
  /\ entry' = [entry EXCEPT ![q.h] =
       [hk \in Hotkey |-> IF @[hk] # NoMd \/ hk = q.hk THEN q.data ELSE NoMd]]
  /\ Finish(r, "ok")
  /\ UNCHANGED <<legacy, files, acked>>

UpHset(r) ==
  LET q == req[r] IN
  /\ At(r, "up_hset")
  /\ entry' = [entry EXCEPT ![q.h][q.hk] = q.data]
  /\ Finish(r, "ok")
  /\ UNCHANGED <<legacy, files, acked>>

-----------------------------------------------------------------------------
(* convert_to_new_format                                                   *)

\* A bug: a row in the new format sends the caller back to look again.
CvHgetall_Retry(r) ==
  LET old == legacy[req[r].h] IN
  /\ At(r, "cv_hgetall")
  /\ IF old = NoMd
       THEN IF req[r].ret = "gm_read" THEN Goto(r, "gm_hgetall")
                                      ELSE ReturnFromConvert(r)
       ELSE Become(r, [req[r] EXCEPT
              !.pc = IF req[r].to = None THEN "cv_delete" ELSE "cv_both",
              !.old = old,
              !.to = IF req[r].to = None THEN old.hotkey ELSE req[r].to])
  /\ UNCHANGED <<redis, files, acked>>

\* `hotkey != old_hotkey' compares a str with bytes and always holds.
CvHgetall(r) ==
  LET old == legacy[req[r].h] IN
  /\ At(r, "cv_hgetall")
  /\ IF old = NoMd
       THEN ReturnFromConvert(r)
       ELSE Become(r, [req[r] EXCEPT
              !.pc = IF req[r].to = None THEN "cv_delete" ELSE "cv_both",
              !.old = old,
              !.to = IF req[r].to = None THEN old.hotkey ELSE req[r].to])
  /\ UNCHANGED <<redis, files, acked>>

\* A bug: the dictionary keeps its hotkey key.
NewMd_KeepHotkey(old) == old

NewMd(old) == [path |-> old.path, seed |-> old.seed]

CvBoth(r) ==
  LET q == req[r] IN
  /\ At(r, "cv_both")
  /\ entry' = [entry EXCEPT ![q.h][q.old.hotkey] = NewMd(q.old)]
  /\ Goto(r, "cv_delete")
  /\ UNCHANGED <<legacy, files, acked>>

\* delete(h) removes every field of the row.
DeleteRow(h) ==
  /\ entry' = [entry EXCEPT ![h] = [hk \in Hotkey |-> NoMd]]
  /\ legacy' = [legacy EXCEPT ![h] = NoMd]

\* A bug: takes the row for saved already and returns after the delete.
CvDelete_Return(r) ==
  /\ At(r, "cv_delete")
  /\ DeleteRow(req[r].h)
  /\ ReturnFromConvert(r)
  /\ UNCHANGED <<files, acked>>

CvDelete(r) ==
  /\ At(r, "cv_delete")
  /\ DeleteRow(req[r].h)
  /\ Goto(r, "cv_set")
  /\ UNCHANGED <<files, acked>>

CvSet(r) ==
  LET q == req[r] IN
  /\ At(r, "cv_set")
  /\ entry' = [entry EXCEPT ![q.h][q.to] = NewMd(q.old)]
  /\ ReturnFromConvert(r)
  /\ UNCHANGED <<legacy, files, acked>>

-----------------------------------------------------------------------------
(* miner.challenge and miner.retrieve                                      *)

GmHgetall(r) ==
  /\ At(r, "gm_hgetall")
  /\ Goto(r, IF RowEmpty(req[r].h) THEN "gm_read" ELSE "gm_hget")
  /\ UNCHANGED <<redis, files, acked>>

GmHget(r) ==
  /\ At(r, "gm_hget")
  /\ IF Field(r) = NoMd THEN CallConvert(r, req[r].hk, "gm_read")
                        ELSE Goto(r, "gm_read")
  /\ UNCHANGED <<redis, files, acked>>

GmRead(r) ==
  /\ At(r, "gm_read")
  /\ IF Field(r) = NoMd
       THEN Goto(r, "gm_raw")
       ELSE Become(r, [req[r] EXCEPT !.pc = "load", !.data = Field(r)])
  /\ UNCHANGED <<redis, files, acked>>

\* The whole row read as a dictionary: the flat fields when it still has
\* them, else a dictionary (perhaps empty) without filepath and seed.
GmRaw(r) ==
  LET old == legacy[req[r].h] IN
  /\ At(r, "gm_raw")
  /\ Become(r, [req[r] EXCEPT
                  !.pc = "load",
                  !.data = IF old = NoMd THEN EmptyMd ELSE NewMd(old)])
  /\ UNCHANGED <<redis, files, acked>>

\* The file the handler opens for the metadata it holds.
Resolve(q) ==
  IF q.data.path # NoPath THEN q.data.path
  ELSE IF Dir(q.hk, q.h) \in files THEN Dir(q.hk, q.h)
  ELSE Flat(q.h)

Load(r) ==
  LET q == req[r] IN
  /\ At(r, "load")
  /\ IF Resolve(q) \in files
       THEN Become(r, CallUpdate([q EXCEPT !.proof = q.data.seed]))
       ELSE Finish(r, "not_found")
  /\ UNCHANGED <<redis, files, acked>>

-----------------------------------------------------------------------------

\* The fields of a row written before 1.5.3.
LegacyRow(h) ==
  [hotkey |-> LegacyOwner[h], path |-> Flat(h),
   seed |-> <<LegacyOwner[h], h>>]

Init ==
  /\ entry = [h \in Hash |-> [hk \in Hotkey |-> NoMd]]
  /\ legacy = [h \in Hash |->
       IF LegacyOwner[h] = None THEN NoMd ELSE LegacyRow(h)]
  /\ files = {Flat(h) : h \in {g \in Hash : LegacyOwner[g] # None}}
  /\ req = [r \in Req |-> IdleRequest]
  /\ acked = {}

Store(r) ==
  \/ StHexists(r) \/ StSave(r) \/ StGetFilepath(r)
  \/ StExists(r) \/ StHget(r) \/ StNew(r)

UpdateSeedInfo(r) ==
  \/ MgHgetall(r) \/ OldHgetall(r) \/ OldHget(r)
  \/ UpHget(r) \/ UpHset(r)

ConvertToNewFormat(r) ==
  \/ CvHgetall(r) \/ CvBoth(r) \/ CvDelete(r) \/ CvSet(r)

GetChunkMetadata(r) ==
  \/ GmHgetall(r) \/ GmHget(r) \/ GmRead(r) \/ GmRaw(r) \/ Load(r)

\* A step of the coroutine of r, up to and including its reply.
Progress(r) ==
  \/ Store(r) \/ UpdateSeedInfo(r) \/ ConvertToNewFormat(r)
  \/ GetChunkMetadata(r) \/ Reply(r)

Next == Crash \/ \E r \in Req : Receive(r) \/ Migrate(r) \/ Progress(r)

Spec == Init /\ [][Next]_vars

\* The event loop resumes every coroutine whose redis reply arrived.
FairSpec == Spec /\ \A r \in Req : WF_vars(Progress(r))

-----------------------------------------------------------------------------
(* Properties                                                              *)

\* Every variable has its type.
TypeOK ==
  /\ entry \in [Hash -> [Hotkey -> Md \cup {NoMd}]]
  /\ legacy \in [Hash -> OldMd \cup {NoMd}]
  /\ files \subseteq File
  /\ req \in [Req -> Request]
  /\ acked \subseteq Hash \X Hotkey

\* The data of h is at one of the two places the handlers look for it when
\* the metadata gives no filepath.
OnDisk(h, hk) == Dir(hk, h) \in files \/ Flat(h) \in files

\* Whatever the interleaving of stores, challenges, conversions and crashes,
\* a field of the index is never there without its data: whoever a redis
\* field or an acknowledged store belongs to, the data can be found on disk.
EntryHasData ==
  \A h \in Hash, hk \in Hotkey :
    entry[h][hk] # NoMd \/ <<h, hk>> \in acked => OnDisk(h, hk)

\* Seeds never cross callers: what the index holds for hk, and what a proof
\* for hk is computed from, was sent by hk, or comes from the row that hk
\* took over from its owner of before 1.5.3, and was sent about that hash.
Provenance(seed, h, hk) == seed \in {<<hk, h>>, <<LegacyOwner[h], h>>, NoSeed}

SeedFromCaller ==
  /\ \A h \in Hash, hk \in Hotkey :
       entry[h][hk] # NoMd => Provenance(entry[h][hk].seed, h, hk)
  /\ \A r \in Req : Provenance(req[r].proof, req[r].h, req[r].hk)

\* A hash only hk uses, in the new format.
Sole(h, hk) == Storers[h] = {hk} /\ Readers[h] = {hk} /\ LegacyOwner[h] = None

\* When a store returned, its metadata is in the index and names a file that
\* exists, for a caller that shares the hash with no one and does not ask for
\* it before its store returned; a crash, a repeated store or concurrent
\* requests do not change that.
AckedServable ==
  \A h \in Hash, hk \in Patient :
    Sole(h, hk) /\ <<h, hk>> \in acked =>
      entry[h][hk] # NoMd /\ entry[h][hk].path \in files

\* The index, or a coroutine between the delete and the hset of
\* convert_to_new_format, names a file that holds the data of h.
Located(h) ==
  \/ legacy[h] # NoMd /\ legacy[h].path \in files
  \/ \E hk \in Hotkey : entry[h][hk] # NoMd /\ entry[h][hk].path \in files
  \/ \E r \in Req : req[r].h = h /\ At(r, "cv_set") /\ req[r].old.path \in files

\* r writes back metadata whose field it found missing.
WritesUnknownPath(r, h) ==
  /\ req[r].h = h
  /\ req[r].pc \in {"up_hset", "st_new"} /\ At(r, "done")'
  /\ req[r].data.path = EmptyPath

\* r had deleted the row of h and is killed before it writes it again.
KilledInConversion(r, h) ==
  req[r].h = h /\ At(r, "cv_set") /\ At(r, "idle")'

\* Where the data of a chunk is can be lost from the index in two ways only: a
\* kill in the middle of a conversion, or a handler that looked for its field
\* while the row was deleted and writes its "unknown filepath" over the path
\* that a conversion put there meanwhile.  However many conversions, stores,
\* challenges and migrations interleave, no other command loses it: not the
\* delete of a conversion that others have finished, nor its hset.
LostOnlyByWriteBack ==
  [][\A h \in Hash : Located(h) /\ ~Located(h)' =>
       \E r \in Req : WritesUnknownPath(r, h) \/ KilledInConversion(r, h)]_vars

\* Every request is answered: no handler waits for another one, and no
\* sequence of conversions by others sends a handler round for ever.
Answered == \A r \in Req : ~At(r, "idle") ~> At(r, "idle")

-----------------------------------------------------------------------------
(* The inductive invariant behind EntryHasData and SeedFromCaller          *)

Reads == {"challenge", "retrieve"}

\* Metadata of (h, hk) names a place of that hash and carries its seeds.
OwnMd(md, h, hk) ==
  /\ md.path \in {Dir(hk, h), Flat(h), EmptyPath}
  /\ Provenance(md.seed, h, hk)

\* Which command of which handler q is about to send.
ControlOK(q) ==
  /\ q.pc # "idle" /\ q.op # "migrate" => q.hk \in Hotkey
  /\ q.pc \in StorePc => q.op = "store"
  /\ q.pc \in LookupPc => q.op \in Reads
  /\ q.pc \in {"mg_hgetall"} => q.op = "migrate"
  /\ q.pc \in {"up_hget", "up_hset"} => q.op # "migrate"
  /\ q.pc \in {"old_hgetall", "old_hget"} => q.to \in Hotkey
  /\ q.pc \in ConvertPc =>
       \/ q.op = "store" /\ q.ret \in {"old_hgetall", "up_hget"}
       \/ q.op \in Reads /\ q.ret \in {"gm_read", "up_hget"}
       \/ q.op = "migrate" /\ q.ret = "done"
  /\ q.pc \in ConvertPc \ {"cv_hgetall"} => q.old # NoMd /\ q.to \in Hotkey

\* What q carries belongs to its hash and caller.
CarriesOK(q) ==
  /\ OwnMd(q.data, q.h, q.hk) \/ q.data = EmptyMd
  /\ q.pc \in {"st_exists", "st_hget", "st_new", "up_hset"} =>
       q.data.path # NoPath
  /\ Provenance(q.proof, q.h, q.hk)
  /\ q.old # NoMd => LegacyOwner[q.h] # None /\ q.old = LegacyRow(q.h)

\* q may still write a field for its caller: it has saved or found the data.
MayIndex(q) ==
  \/ q.op = "store" /\ q.pc \notin {"idle", "st_hexists", "st_save"}
  \/ /\ q.op \in Reads
     /\ q.pc \in UpdatePc \/ (q.pc \in ConvertPc /\ q.ret = "up_hget")

RequestOK(q) ==
  ControlOK(q) /\ CarriesOK(q) /\ (MayIndex(q) => OnDisk(q.h, q.hk))

LegacyOK ==
  \A h \in Hash :
    /\ LegacyOwner[h] # None => Flat(h) \in files
    /\ legacy[h] # NoMd => LegacyOwner[h] # None /\ legacy[h] = LegacyRow(h)

EntryOK ==
  \A h \in Hash, hk \in Hotkey :
    entry[h][hk] # NoMd => OwnMd(entry[h][hk], h, hk) /\ OnDisk(h, hk)

AckedOK ==
  \A h \in Hash, hk \in Hotkey : <<h, hk>> \in acked => OnDisk(h, hk)

\* The inductive invariant: EntryHasData and SeedFromCaller strengthened with
\* what a coroutine between two awaits carries and has established.
IndexInv ==
  /\ TypeOK
  /\ LegacyOK
  /\ EntryOK
  /\ AckedOK
  /\ \A r \in Req : RequestOK(req[r])

=============================================================================
