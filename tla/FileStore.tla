------------------------------ MODULE FileStore ------------------------------
(***************************************************************************)
(* What store, retrieve and delete of an API node promise a user whose     *)
(* requests do not overlap: a file has one version or none, a version is   *)
(* stored once, and a retrieval returns data of the version the file has,  *)
(* with the key of that version.                                           *)
(***************************************************************************)
CONSTANTS File, Version, None

VARIABLES
  version,  \* the version each file has, or None
  stored,   \* versions that were ever stored
  answer    \* of the last retrieval: the key, and the versions of the data

vars == <<version, stored, answer>>

NoAnswer == [key |-> None, data |-> {}]

Init ==
  /\ version = [f \in File |-> None]
  /\ stored = {}
  /\ answer = NoAnswer

Store(f, v) ==
  /\ version[f] = None
  /\ v \notin stored
  /\ version' = [version EXCEPT ![f] = v]
  /\ stored' = stored \cup {v}
  /\ UNCHANGED answer

Delete(f) ==
  /\ version[f] # None
  /\ version' = [version EXCEPT ![f] = None]
  /\ UNCHANGED <<stored, answer>>

\* Miners may fail to return anything.
Retrieve(f) ==
  /\ version[f] # None
  /\ \E data \in SUBSET {version[f]} : answer' = [key |-> version[f], data |-> data]
  /\ UNCHANGED <<version, stored>>

\* The user has read the answer.
Forget ==
  /\ answer # NoAnswer
  /\ answer' = NoAnswer
  /\ UNCHANGED <<version, stored>>

Next ==
  \/ \E f \in File : Delete(f) \/ Retrieve(f) \/ \E v \in Version : Store(f, v)
  \/ Forget

Spec == Init /\ [][Next]_vars
=============================================================================
