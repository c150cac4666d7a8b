--------------------------- MODULE ValidatorIndex ---------------------------
(***************************************************************************)
(* The index a validator and its API node share in redis, as               *)
(* storage/validator/database.py keeps it for the data of users:           *)
(*                                                                         *)
(*   file:{f}               sorted set of the chunks of a file             *)
(*   chunk:{c}              hotkeys that were asked to store a chunk       *)
(*   hotkey:{hk}            one field per chunk the hotkey is credited with*)
(*   payload:validator:{f}  the key the API node encrypted a file with     *)
(*                                                                         *)
(* A file is named by the hash of what the user sent.  The API node        *)
(* encrypts it afresh in every call, so a chunk is named by the call that  *)
(* encrypted it and its position; the position is its score in file:{f}.   *)
(***************************************************************************)
EXTENDS Integers, FiniteSets, Sequences

CONSTANTS
  File,         \* hashes of users' data
  Hotkey,       \* miners
  Call,         \* calls of store_user_data
  NumChunks,    \* chunks of a file
  Limit,        \* [Hotkey -> Nat]: storage_limit of a miner, in chunks
  None          \* the value of a key that does not exist

ASSUME IndexAssumption ==
  /\ NumChunks \in Nat \ {0}
  /\ Limit \in [Hotkey -> Nat]
  /\ None \notin Call \cup File
  /\ \A S \in SUBSET Hotkey : S # None

Position == 1..NumChunks
Chunk == Call \X Position

VARIABLES
  file,   \* file[f]: members of the sorted set
  row,    \* row[c]: hotkeys listed for chunk c
  held,   \* held[hk]: chunks hotkey hk is credited with
  key     \* key[f]: the call whose encryption payload is stored

index == <<file, row, held, key>>

IndexTypeOK ==
  /\ file \in [File -> SUBSET Chunk]
  /\ row \in [Chunk -> {None} \cup SUBSET Hotkey]
  /\ held \in [Hotkey -> SUBSET Chunk]
  /\ key \in [File -> Call \cup {None}]

EmptyIndex ==
  /\ file = [f \in File |-> {}]
  /\ row = [c \in Chunk |-> None]
  /\ held = [hk \in Hotkey |-> {}]
  /\ key = [f \in File |-> None]

-----------------------------------------------------------------------------
(* Looking up                                                              *)

\* get_all_chunks_for_file skips the members that have no metadata...
Rowed(f) == {c \in file[f] : row[c] # None}

\* ...and keeps one chunk per position: where two share a score, the one
\* whose hash sorts last.
ChunksForFile(f) ==
  {S \in SUBSET Rowed(f) :
     /\ \A c, d \in S : c[2] = d[2] => c = d
     /\ \A c \in Rowed(f) : \E d \in S : d[2] = c[2]}

\* The test `if await get_ordered_metadata(...)`: not None and not [].
Known(f) == Rowed(f) # {}

\* total_hotkey_storage >= storage_limit.
AtCapacity(hk) == Cardinality(held[hk]) >= Limit[hk]

-----------------------------------------------------------------------------
(* Writing                                                                 *)

\* A bug: the hotkeys of earlier rounds are overwritten.
StoreChunkMetadata_Overwrite(c, hks) == row' = [row EXCEPT ![c] = hks]

\* store_chunk_metadata merges with the hotkeys already listed.
StoreChunkMetadata(c, hks) ==
  row' = [row EXCEPT ![c] = IF @ = None THEN hks ELSE @ \cup hks]

\* add_metadata_to_hotkey.
AddMetadataToHotkey(hk, c) == held' = [held EXCEPT ![hk] = @ \cup {c}]

\* The zadd of store_file_chunk_mapping_ordered.
AddToFile(f, c) == file' = [file EXCEPT ![f] = @ \cup {c}]
=============================================================================
