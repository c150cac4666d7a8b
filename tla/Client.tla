-------------------------------- MODULE Client --------------------------------
(***************************************************************************)
(* A user's side: store, retrieve and delete of storage/api with query_api,*)
(* and the put and get commands of storage/cli.  The processes of one      *)
(* wallet share a JSON file that says which node stored what.              *)
(*                                                                         *)
(* API nodes are external here: a node stores what reaches it, late        *)
(* perhaps, and after the client has gone (Broadband says how).            *)
(***************************************************************************)
EXTENDS Naturals, FiniteSets

CONSTANTS
  Process,    \* runs of a command or a script
  Node,       \* hotkeys of API nodes
  Cid,
  FileName,   \* the base name of the files that put stores
  NoProcess, NoEntry, NoCid,
  MaxTries,   \* max_retries
  MaxCalls    \* bound: calls

ASSUME ClientAssumption ==
  /\ MaxTries \in Nat \ {0} /\ MaxCalls \in Nat
  /\ FileName \notin Cid /\ NoProcess \notin Process
  /\ NoEntry \notin [cid : Cid, node : Node]

VARIABLES
  run,       \* run[p]: what a process is at
  mail,      \* external: requests on their way
  calls,     \* how many calls there were
  hashes,    \* the file of hashes
  torn,      \* whether the file is no JSON now
  holds,     \* external: the CIDs a node has
  held,      \* history: the CIDs a node has ever stored
  saved,     \* history: what put has reported as stored
  disturbed  \* history: a save was cut short, or two met

file == <<hashes, torn>>
nodes == <<holds, held>>
history == <<saved, disturbed>>
client == <<run, mail, calls, file, nodes, history>>

Key   == Cid \cup {FileName}
Entry == [cid : Cid, node : Node]       \* hashes[key] and hashes[key + "_hotkeys"]
Hashes == [Key -> Entry \cup {NoEntry}]
NoHashes == [k \in Key |-> NoEntry]

Over == {"idle", "stored", "gave up", "data", "empty", "raised", "deleted", "killed"}
Pc   == Over \cup {"try", "wait", "read", "open", "write", "get", "delete"}

\* asked: nodes that have not answered; done: the answers that are in; late: another
\* process wrote since this one opened the file; heard: a success has arrived, in this
\* attempt or an earlier one; unsaved: the save that followed the last success failed.
Run ==
  [pc : Pc, cid : Cid \cup {NoCid}, tries : 0..MaxTries, asked : SUBSET Node,
   done : SUBSET [node : Node, ok : BOOLEAN],
   key : Key, copy : Hashes, late : BOOLEAN, heard : BOOLEAN, unsaved : BOOLEAN]
NoRun == [pc |-> "idle", cid |-> NoCid, tries |-> 0, asked |-> {}, done |-> {},
          key |-> FileName, copy |-> NoHashes, late |-> FALSE, heard |-> FALSE,
          unsaved |-> FALSE]
Request == [from : Process \cup {NoProcess}, to : Node, cid : Cid]

At(p, pc) == run[p].pc = pc
SetRun(p, r) == run' = [run EXCEPT ![p] = r]
End(e) == [NoRun EXCEPT !.pc = e]
MayBegin(p) == run[p].pc \in Over /\ calls < MaxCalls

\* list_all_hashes: a file that is missing or no JSON reads as empty.
ListAllHashes == IF torn THEN NoHashes ELSE hashes

\* The axons of get_query_api_axons without uids: nodes that answer a ping.
ApiNodes == {s \in SUBSET Node : Cardinality(s) <= 3}

-----------------------------------------------------------------------------
(* store                                                                   *)

Put(p, c) ==
  /\ MayBegin(p)
  /\ calls' = calls + 1
  /\ SetRun(p, [NoRun EXCEPT !.pc = "try", !.cid = c])
  /\ UNCHANGED <<mail, file, nodes, history>>

\* A bug: one attempt too many.
Again_OneMore(r) ==
  [r EXCEPT !.tries = @ + 1, !.asked = {}, !.done = {},
            !.pc = IF r.tries < MaxTries THEN "try" ELSE "gave up"]

\* What becomes of an attempt without a success.
Again(r) ==
  [r EXCEPT !.tries = @ + 1, !.asked = {}, !.done = {},
            !.pc = IF r.tries + 1 < MaxTries THEN "try" ELSE "gave up"]

\* One attempt: up to three nodes that answer a ping, or the one that the caller names.
Try(p) ==
  /\ At(p, "try")
  /\ \E asked \in ApiNodes :
       /\ mail' = mail \cup {[from |-> p, to |-> n, cid |-> run[p].cid] : n \in asked}
       /\ SetRun(p, IF asked = {} THEN Again(run[p])
                    ELSE [run[p] EXCEPT !.pc = "wait", !.asked = asked])
  /\ UNCHANGED <<calls, file, nodes, history>>

\* A bug: pending tasks are not cancelled.
Late_Pending(p) == mail

\* Requests of p that nobody waits for any more.
Late(p) == {IF m.from = p THEN [m EXCEPT !.from = NoProcess] ELSE m : m \in mail}

\* What the process that sent m learns.
Learn(m, ok) ==
  run' = [p \in Process |->
            IF p = m.from
              THEN [run[p] EXCEPT !.asked = @ \ {m.to}, !.heard = @ \/ ok,
                                  !.unsaved = @ /\ ~ ok,
                                  !.done  = @ \cup {[node |-> m.to, ok |-> ok]}]
              ELSE run[p]]

\* A node serves a request; its answer may be lost.
Serve(m) ==
  /\ mail' = mail \ {m}
  /\ holds' = [holds EXCEPT ![m.to] = @ \cup {m.cid}]
  /\ held' = [held EXCEPT ![m.to] = @ \cup {m.cid}]
  /\ \E ok \in BOOLEAN : Learn(m, ok)
  /\ UNCHANGED <<calls, file, history>>

\* A request fails or times out; the node may still get to it.
Fail(m) ==
  /\ \/ mail' = mail \ {m}
     \/ mail' = (mail \ {m}) \cup {[m EXCEPT !.from = NoProcess]}
  /\ Learn(m, FALSE)
  /\ UNCHANGED <<calls, file, nodes, history>>

Success(p, n) ==
  SetRun(p, [run[p] EXCEPT !.pc = "read", !.key = run[p].cid, !.asked = {n}, !.done = {}])

\* A bug: the first task of the batch decides.
Collect_First(p) ==
  /\ At(p, "wait") /\ run[p].done # {}
  /\ \E d \in run[p].done : IF d.ok THEN Success(p, d.node) ELSE SetRun(p, Again(run[p]))
  /\ mail' = Late(p)
  /\ UNCHANGED <<calls, file, nodes, history>>

\* A bug: whoever has finished is taken to have stored the data.
Collect_Finished(p) ==
  /\ At(p, "wait") /\ run[p].done # {}
  /\ \E d \in run[p].done : Success(p, d.node)
  /\ mail' = Late(p)
  /\ UNCHANGED <<calls, file, nodes, history>>

\* query_api: the tasks that are done; a success among them ends the call and cancels
\* the tasks that are pending.
Collect(p) ==
  /\ At(p, "wait") /\ run[p].done # {}
  /\ \/ /\ \E d \in run[p].done : d.ok /\ Success(p, d.node)
        /\ mail' = Late(p)
     \/ /\ \A d \in run[p].done : ~ d.ok
        /\ SetRun(p, IF run[p].asked = {} THEN Again(run[p]) ELSE [run[p] EXCEPT !.done = {}])
        /\ UNCHANGED mail
  /\ UNCHANGED <<calls, file, nodes, history>>

-----------------------------------------------------------------------------
(* save_hash_mapping, by store under the CID and by put under the name     *)

Saving(p) == run[p].pc \in {"open", "write"}

ReadHashes(p) ==
  /\ At(p, "read")
  /\ SetRun(p, [run[p] EXCEPT !.pc = "open", !.copy = ListAllHashes])
  /\ disturbed' = (disturbed \/ \E q \in Process : Saving(q))
  /\ UNCHANGED <<mail, calls, file, nodes, saved>>

\* open(hash_file, "w") empties the file.
OpenHashes(p) ==
  /\ At(p, "open")
  /\ torn' = TRUE
  /\ SetRun(p, [run[p] EXCEPT !.pc = "write", !.late = FALSE])
  /\ UNCHANGED <<mail, calls, hashes, nodes, history>>

\* What a process writes over what another wrote since it opened the file may be no JSON.
WriteHashes(p) ==
  LET named == run[p].key = FileName
  IN  /\ At(p, "write")
      /\ torn' \in {FALSE, run[p].late}
      /\ \E n \in run[p].asked :
           hashes' = [run[p].copy EXCEPT ![run[p].key] = [cid |-> run[p].cid, node |-> n]]
      /\ saved' = IF named THEN saved \cup {run[p].cid} ELSE saved
      /\ run' = [q \in Process |->
           IF q # p     THEN [run[q] EXCEPT !.late = @ \/ At(q, "write")]
           ELSE IF named THEN End("stored")
           ELSE [NoRun EXCEPT !.pc = "read", !.cid = run[p].cid, !.asked = run[p].asked]]
      /\ UNCHANGED <<mail, calls, nodes, disturbed>>

\* A bug: a save that fails is passed over.
FailSave_PassedOver(p) ==
  LET named == run[p].key = FileName
  IN  /\ run[p].pc \in {"read", "open", "write"}
      /\ torn' \in {torn, torn \/ At(p, "write")}
      /\ disturbed' = (disturbed \/ At(p, "write"))
      /\ saved' = IF named THEN saved \cup {run[p].cid} ELSE saved
      /\ SetRun(p, IF named THEN End("stored")
                   ELSE [NoRun EXCEPT !.pc = "read", !.cid = run[p].cid, !.asked = run[p].asked])
      /\ UNCHANGED <<mail, calls, hashes, nodes>>

\* The directory or the disk refuses.  The save under the CID is part of the attempt,
\* which has failed then and is repeated; the save under the name ends put.  The file may
\* be left empty or with a part of what was to be written.
FailSave(p) ==
  /\ run[p].pc \in {"read", "open", "write"}
  /\ torn' \in {torn, torn \/ At(p, "write")}
  /\ disturbed' = (disturbed \/ At(p, "write"))
  /\ SetRun(p, IF run[p].key = FileName THEN End("raised")
               ELSE Again([run[p] EXCEPT !.key = FileName, !.copy = NoHashes,
                                    !.late = FALSE, !.unsaved = TRUE]))
  /\ UNCHANGED <<mail, calls, hashes, nodes, saved>>

-----------------------------------------------------------------------------
(* retrieve and delete                                                     *)

\* What the file says of a CID; of several keys the one that is last in the file.
Lookup(c) == {k \in Key : ListAllHashes[k] # NoEntry /\ ListAllHashes[k].cid = c}

\* The nodes to ask without --uids: the one in the file; when the CID is not in it, those
\* that answer a ping (retrieve) or nobody (get, which passes an empty list then and
\* when there is no open coldkeypub file).
Asked(c, command) ==
  (IF command THEN {{}} ELSE {}) \cup
  CASE Lookup(c) # {}            -> {{ListAllHashes[k].node} : k \in Lookup(c)}
    [] Lookup(c) = {} /\ command -> {}
    [] OTHER                     -> ApiNodes

\* hotkeys.index raises when the node has left the metagraph.
AskNodes(p, c, pc, command) ==
  /\ MayBegin(p)
  /\ calls' = calls + 1
  /\ \/ \E asked \in Asked(c, command) :
          SetRun(p, [NoRun EXCEPT !.pc = pc, !.cid = c, !.asked = asked])
     \/ Lookup(c) # {} /\ SetRun(p, End("raised"))
  /\ UNCHANGED <<mail, file, nodes, history>>

Get(p, c) == \E command \in BOOLEAN : AskNodes(p, c, "get", command)
Delete(p, c) == AskNodes(p, c, "delete", FALSE)

\* An attempt of retrieve; get writes a file when any attempt returned, with data or
\* without.  When each of them raised, data is unbound and so does retrieve.
Retrieve(p) ==
  /\ At(p, "get")
  /\ \/ \E n \in run[p].asked : run[p].cid \in holds[n] /\ SetRun(p, End("data"))
     \/ /\ run[p].tries + 1 = MaxTries
        /\ \E e \in {"empty", "raised"} : SetRun(p, End(e))
     \/ /\ run[p].tries + 1 < MaxTries
        /\ SetRun(p, [run[p] EXCEPT !.tries = @ + 1])
  /\ UNCHANGED <<mail, calls, file, nodes, history>>

\* delete returns whatever the first attempt says: True and False are both no b"".
DeleteOnce(p) ==
  /\ At(p, "delete")
  /\ \E served \in SUBSET run[p].asked :
       holds' = [n \in Node |-> IF n \in served THEN holds[n] \ {run[p].cid} ELSE holds[n]]
  /\ SetRun(p, End("deleted"))
  /\ UNCHANGED <<mail, calls, file, held, history>>

-----------------------------------------------------------------------------
(* Environment                                                             *)

\* A process is killed, between open and write perhaps.
KillProcess(p) ==
  /\ run[p].pc \notin Over
  /\ SetRun(p, End("killed"))
  /\ mail' = Late(p)
  /\ torn' \in {torn, torn \/ At(p, "write")}
  /\ disturbed' = (disturbed \/ At(p, "write"))
  /\ UNCHANGED <<calls, hashes, nodes, saved>>

-----------------------------------------------------------------------------
(* Specification                                                           *)

ClientInit ==
  /\ run = [p \in Process |-> NoRun]
  /\ mail = {} /\ calls = 0
  /\ hashes = NoHashes /\ torn = FALSE
  /\ holds = [n \in Node |-> {}] /\ held = [n \in Node |-> {}]
  /\ saved = {} /\ disturbed = FALSE

ClientNext ==
  \/ \E p \in Process :
       \/ \E c \in Cid : Put(p, c) \/ Get(p, c) \/ Delete(p, c)
       \/ Try(p) \/ Collect(p) \/ ReadHashes(p) \/ OpenHashes(p) \/ WriteHashes(p)
       \/ FailSave(p) \/ Retrieve(p) \/ DeleteOnce(p) \/ KillProcess(p)
  \/ \E m \in mail : Serve(m) \/ Fail(m)

ClientSpec == ClientInit /\ [][ClientNext]_client

-----------------------------------------------------------------------------
(* Properties                                                              *)

ClientTypeOK ==
  /\ run \in [Process -> Run]
  /\ mail \subseteq Request
  /\ calls \in Nat
  /\ hashes \in Hashes /\ torn \in BOOLEAN
  /\ holds \in [Node -> SUBSET Cid] /\ held \in [Node -> SUBSET Cid]
  /\ saved \subseteq Cid /\ disturbed \in BOOLEAN

\* A request that somebody waits for is one of the attempt that is going on: a late
\* answer is never taken for one of the next attempt.
MailMine ==
  \A m \in mail : m.from \in Process =>
    At(m.from, "wait") /\ run[m.from].cid = m.cid /\ m.to \in run[m.from].asked

\* What the file says is true, whatever processes wrote it: the node of an entry has
\* stored the CID of the entry.
LookupRight ==
  \A k \in Key : hashes[k] # NoEntry => hashes[k].cid \in held[hashes[k].node]

\* As long as no two saves meet and none is cut short, the file has an entry for every
\* CID that put reported, under its name or under the CID itself.
KeepsWhenAlone ==
  (~ disturbed /\ \A p \in Process : ~ Saving(p)) => \A c \in saved : Lookup(c) # {}

\* A store gives up after all its attempts, and never over a success: one that reached
\* it, among however many failures and in whatever order they came, was collected, and it
\* was the save of its entry that failed.
GivesUpLate ==
  \A p \in Process : At(p, "gave up") =>
    run[p].tries = MaxTries /\ (run[p].heard => run[p].unsaved)
=============================================================================
