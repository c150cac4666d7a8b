---------------------------- MODULE Client_proofs ----------------------------
(* Proofs about Client, for any processes, nodes, CIDs and numbers of tries. *)
EXTENDS Client, TLAPS

\* A file, or a copy of it, that is true.
TrueHashes(h, had) == \A k \in Key : h[k] # NoEntry => h[k].cid \in had[h[k].node]

\* What a process relies on: its copy of the file is true; who reported a success has the
\* data, and so has the node of an entry to be written; a success that was heard is among
\* the answers until it is collected, and then its save failed before there is another
\* attempt; the attempts are counted.
RunOK(r, had) ==
  /\ TrueHashes(r.copy, had)
  /\ \A d \in r.done : d.ok => r.cid \in had[d.node]
  /\ r.pc \in {"read", "open", "write"} => \A n \in r.asked : r.cid \in had[n]
  /\ r.pc \in {"try", "wait", "read", "open", "write"} => r.cid \in Cid
  /\ r.pc = "wait" /\ r.heard /\ ~ r.unsaved => \E d \in r.done : d.ok
  /\ r.pc \in {"try", "gave up"} /\ r.heard => r.unsaved
  /\ r.pc \in {"try", "wait", "get", "read", "open", "write"} => r.tries < MaxTries
  /\ r.pc = "gave up" => r.tries = MaxTries

ClientInv ==
  /\ ClientTypeOK
  /\ TrueHashes(hashes, held)
  /\ \A p \in Process : RunOK(run[p], held)
  /\ MailMine

-----------------------------------------------------------------------------
(* Runs at rest                                                            *)

LEMMA NoRunTyped == NoRun \in Run
  <1>1. NoHashes \in Hashes
    BY DEF NoHashes, Hashes
  <1>2. 0 \in 0..MaxTries
    BY ClientAssumption
  <1> QED BY <1>1, <1>2 DEF NoRun, Run, Pc, Over, Key

LEMMA NoHashesTrue == ASSUME NEW had PROVE TrueHashes(NoHashes, had)
  BY DEF TrueHashes, NoHashes

LEMMA EndTyped ==
  ASSUME NEW e \in Over \ {"gave up"}
  PROVE  End(e) \in Run /\ End(e).pc = e /\ \A had : RunOK(End(e), had)
  <1>1. /\ End(e).pc = e /\ End(e).done = {}
        /\ End(e).copy = NoHashes /\ End(e).heard = FALSE
    BY DEF End, NoRun
  <1>2. End(e) \in Run
    BY NoRunTyped DEF Run, Pc, End
  <1>3. \A had : RunOK(End(e), had)
    BY <1>1, NoHashesTrue DEF RunOK, Over
  <1> QED BY <1>1, <1>2, <1>3

\* What ListAllHashes returns is a file, and a true one.
LEMMA ListTrue ==
  ASSUME ClientInv
  PROVE  ListAllHashes \in Hashes /\ TrueHashes(ListAllHashes, held)
  <1>1. NoHashes \in Hashes
    BY DEF NoHashes, Hashes
  <1> QED BY <1>1, NoHashesTrue DEF ClientInv, ClientTypeOK, ListAllHashes

-----------------------------------------------------------------------------
(* One process moves                                                       *)

\* The runs of the others stay as they are, and nodes keep what they ever stored.
LEMMA ProcessMoves ==
  ASSUME ClientInv, NEW p \in Process, NEW r \in Run, SetRun(p, r), RunOK(r, held),
         held' = held, hashes' = hashes,
         mail' \subseteq Request, calls' \in Nat, torn' \in BOOLEAN,
         holds' \in [Node -> SUBSET Cid], saved' = saved, disturbed' \in BOOLEAN,
         MailMine'
  PROVE  ClientInv'
  <1>1. run' \in [Process -> Run] /\ \A q \in Process : run'[q] = IF q = p THEN r ELSE run[q]
    BY DEF ClientInv, ClientTypeOK, SetRun
  <1>2. ClientTypeOK'
    BY <1>1 DEF ClientInv, ClientTypeOK
  <1>3. \A q \in Process : RunOK(run'[q], held')
    BY <1>1 DEF ClientInv
  <1> QED BY <1>2, <1>3 DEF ClientInv

\* No request of a process is on its way unless it waits.
LEMMA MailKept ==
  ASSUME ClientInv, NEW p \in Process, NEW r \in Run, SetRun(p, r), mail' = mail,
         At(p, "wait") => r.pc = "wait" /\ r.cid = run[p].cid /\ r.asked = run[p].asked
  PROVE  MailMine'
  <1>1. \A q \in Process : run'[q] = IF q = p THEN r ELSE run[q]
    BY DEF ClientInv, ClientTypeOK, SetRun
  <1> QED BY <1>1 DEF ClientInv, MailMine, At

\* Nobody waits for the requests that are cancelled.
LEMMA MailCancelled ==
  ASSUME ClientInv, NEW p \in Process, NEW r \in Run, SetRun(p, r), mail' = Late(p)
  PROVE  mail' \subseteq Request /\ MailMine'
  <1>1. \A q \in Process : run'[q] = IF q = p THEN r ELSE run[q]
    BY DEF ClientInv, ClientTypeOK, SetRun
  <1>2. ASSUME NEW m \in mail'
        PROVE  m \in Request /\ (m.from \in Process => m \in mail /\ m.from # p)
    <2>1. PICK o \in mail : m = IF o.from = p THEN [o EXCEPT !.from = NoProcess] ELSE o
      BY <1>2 DEF Late
    <2>2. o \in Request
      BY <2>1 DEF ClientInv, ClientTypeOK
    <2>3. CASE o.from = p
      <3>1. m \in Request /\ m.from = NoProcess
        BY <2>1, <2>2, <2>3 DEF Request
      <3> QED BY <3>1, ClientAssumption
    <2>4. CASE o.from # p
      BY <2>1, <2>2, <2>4
    <2> QED BY <2>3, <2>4
  <1> QED BY <1>1, <1>2 DEF ClientInv, MailMine, At

-----------------------------------------------------------------------------
(* The actions                                                             *)

LEMMA InitInv == ClientInit => ClientInv
  <1> SUFFICES ASSUME ClientInit PROVE ClientInv
    OBVIOUS
  <1>1. RunOK(NoRun, held)
    BY NoHashesTrue DEF RunOK, NoRun
  <1>2. NoHashes \in Hashes
    BY DEF NoHashes, Hashes
  <1>3. ClientTypeOK
    BY <1>2, NoRunTyped DEF ClientInit, ClientTypeOK
  <1>4. TrueHashes(hashes, held)
    BY NoHashesTrue DEF ClientInit
  <1>5. MailMine
    BY DEF ClientInit, MailMine
  <1> QED BY <1>1, <1>3, <1>4, <1>5 DEF ClientInv, ClientInit

LEMMA PutInv ==
  ASSUME ClientInv, NEW p \in Process, NEW c \in Cid, Put(p, c)
  PROVE  ClientInv'
  <1> DEFINE r == [NoRun EXCEPT !.pc = "try", !.cid = c]
  <1>1. r \in Run
    BY NoRunTyped DEF Run, Pc
  <1>2. RunOK(r, held)
    <2>1. /\ r.pc = "try" /\ r.cid = c /\ r.done = {} /\ r.copy = NoHashes
          /\ r.heard = FALSE /\ r.tries = 0
      BY DEF NoRun
    <2> HIDE DEF r
    <2> QED BY <2>1, NoHashesTrue, ClientAssumption DEF RunOK
  <1>3. SetRun(p, r)
    BY DEF Put
  <1> HIDE DEF r
  <1>4. MailMine'
    BY <1>1, <1>3, MailKept DEF Put, MayBegin, At, Over
  <1> QED BY <1>1, <1>2, <1>3, <1>4, ProcessMoves
          DEF Put, ClientInv, ClientTypeOK, file, nodes, history

\* An attempt that brought nothing, or nothing that could be saved: the next one, or the end.
LEMMA AgainOK ==
  ASSUME NEW o \in Run, o.tries < MaxTries, o.cid \in Cid, TrueHashes(o.copy, held),
         o.heard => o.unsaved
  PROVE  Again(o) \in Run /\ RunOK(Again(o), held) /\ Again(o).pc \in {"try", "gave up"}
  <1> DEFINE r == Again(o)
  <1>2. o.tries \in 0..MaxTries
    BY DEF Run
  <1>3. o.tries + 1 \in 0..MaxTries
    BY <1>2, ClientAssumption
  <1>4. r \in Run
    BY <1>3 DEF Again, Run, Pc, Over
  <1>5. /\ r.pc = IF o.tries + 1 < MaxTries THEN "try" ELSE "gave up"
        /\ r.tries = o.tries + 1 /\ r.done = {} /\ r.copy = o.copy
        /\ r.cid = o.cid /\ r.heard = o.heard /\ r.unsaved = o.unsaved
    BY DEF Again, Run
  <1> HIDE DEF r
  <1>6. r.pc = "try" => r.tries < MaxTries
    BY <1>5
  <1>7. r.pc = "gave up" => r.tries = MaxTries
    <2>1. ~ (o.tries + 1 < MaxTries) => o.tries + 1 = MaxTries
      BY <1>2, ClientAssumption
    <2> QED BY <1>5, <2>1
  <1>8. r.pc \in {"try", "gave up"}
    BY <1>5
  <1>10. RunOK(r, held)
    BY <1>5, <1>6, <1>7, <1>8 DEF RunOK
  <1> QED BY <1>4, <1>8, <1>10 DEF r

LEMMA TryInv ==
  ASSUME ClientInv, NEW p \in Process, Try(p)
  PROVE  ClientInv'
  <1>1. PICK asked \in ApiNodes :
          /\ mail' = mail \cup {[from |-> p, to |-> n, cid |-> run[p].cid] : n \in asked}
          /\ SetRun(p, IF asked = {} THEN Again(run[p])
                       ELSE [run[p] EXCEPT !.pc = "wait", !.asked = asked])
    BY DEF Try
  <1>2. run[p] \in Run /\ RunOK(run[p], held) /\ run[p].pc = "try" /\ asked \subseteq Node
    BY DEF ClientInv, ClientTypeOK, Try, At, ApiNodes
  <1>3. /\ run[p].cid \in Cid /\ (run[p].heard => run[p].unsaved) /\ run[p].tries < MaxTries
        /\ TrueHashes(run[p].copy, held)
    BY <1>2 DEF RunOK
  <1>4. mail' \subseteq Request
    BY <1>1, <1>2, <1>3 DEF ClientInv, ClientTypeOK, Request
  <1>5. CASE asked = {}
    <2>1. Again(run[p]) \in Run /\ RunOK(Again(run[p]), held)
      BY <1>2, <1>3, AgainOK
    <2>2. SetRun(p, Again(run[p])) /\ mail' = mail
      BY <1>1, <1>5
    <2>3. MailMine'
      BY <1>2, <2>1, <2>2, MailKept DEF At
    <2> QED BY <1>4, <2>1, <2>2, <2>3, ProcessMoves
            DEF Try, ClientInv, ClientTypeOK, file, nodes, history
  <1>6. CASE asked # {}
    <2> DEFINE r == [run[p] EXCEPT !.pc = "wait", !.asked = asked]
    <2>1. r \in Run
      BY <1>2 DEF Run, Pc
    <2>2. SetRun(p, r)
      BY <1>1, <1>6
    <2>3. /\ r.pc = "wait" /\ r.cid = run[p].cid /\ r.done = run[p].done
          /\ r.copy = run[p].copy /\ r.heard = run[p].heard /\ r.tries = run[p].tries
          /\ r.asked = asked /\ r.unsaved = run[p].unsaved
      BY <1>2 DEF Run
    <2> HIDE DEF r
    <2>4. RunOK(r, held)
      BY <1>2, <1>3, <2>3 DEF RunOK
    <2>5. MailMine'
      <3>1. \A q \in Process : run'[q] = IF q = p THEN r ELSE run[q]
        BY <2>2 DEF ClientInv, ClientTypeOK, SetRun
      <3>2. \A m \in mail : m.from # p
        BY <1>2 DEF ClientInv, MailMine, At
      <3>3. ASSUME NEW m \in mail', m.from \in Process
            PROVE  run'[m.from].pc = "wait" /\ run'[m.from].cid = m.cid /\ m.to \in run'[m.from].asked
        <4>1. CASE m \in mail
          BY <3>1, <3>2, <3>3, <4>1 DEF ClientInv, MailMine, At
        <4>2. CASE m \in {[from |-> p, to |-> n, cid |-> run[p].cid] : n \in asked}
          BY <2>3, <3>1, <4>2
        <4> QED BY <1>1, <4>1, <4>2
      <3> QED BY <3>3 DEF MailMine, At
    <2> QED BY <1>4, <2>1, <2>2, <2>4, <2>5, ProcessMoves
            DEF Try, ClientInv, ClientTypeOK, file, nodes, history
  <1> QED BY <1>5, <1>6

\* A node has stored the data when the process hears so.
LEMMA LearnOK ==
  ASSUME ClientInv, NEW m \in mail, NEW ok \in BOOLEAN, Learn(m, ok),
         held' \in [Node -> SUBSET Cid], \A n \in Node : held[n] \subseteq held'[n],
         ok => m.cid \in held'[m.to]
  PROVE  /\ run' \in [Process -> Run]
         /\ \A p \in Process : RunOK(run'[p], held')
         /\ \A p \in Process : p # m.from => run'[p] = run[p]
         /\ \A p \in Process : p = m.from =>
              /\ run'[p].pc = run[p].pc /\ run'[p].cid = run[p].cid
              /\ run'[p].asked = run[p].asked \ {m.to}
  <1>1. m \in Request /\ m.to \in Node
    BY DEF ClientInv, ClientTypeOK, Request
  <1>2. \A p \in Process : p # m.from => run'[p] = run[p]
    BY DEF Learn
  <1>3. ASSUME NEW h \in Hashes, TrueHashes(h, held) PROVE TrueHashes(h, held')
    BY <1>3 DEF TrueHashes, Hashes, Entry
  <1>4. ASSUME NEW p \in Process, p # m.from PROVE RunOK(run'[p], held')
    <2>1. run'[p] = run[p] /\ run[p] \in Run /\ RunOK(run[p], held)
      BY <1>2, <1>4 DEF ClientInv, ClientTypeOK
    <2>2. run[p].copy \in Hashes /\ run[p].done \subseteq [node : Node, ok : BOOLEAN]
          /\ run[p].asked \subseteq Node
      BY <2>1 DEF Run
    <2>3. TrueHashes(run[p].copy, held')
      BY <1>3, <2>1, <2>2 DEF RunOK
    <2>4. \A d \in run[p].done : d.ok => run[p].cid \in held'[d.node]
      BY <2>1, <2>2 DEF RunOK
    <2>5. run[p].pc \in {"read", "open", "write"} => \A n \in run[p].asked : run[p].cid \in held'[n]
      BY <2>1, <2>2 DEF RunOK
    <2>6. RunOK(run[p], held')
      BY <2>1, <2>3, <2>4, <2>5 DEF RunOK
    <2> QED BY <2>1, <2>6
  <1>5. ASSUME NEW p \in Process, p = m.from
        PROVE  /\ run'[p] \in Run /\ RunOK(run'[p], held')
               /\ run'[p].pc = run[p].pc /\ run'[p].cid = run[p].cid
               /\ run'[p].asked = run[p].asked \ {m.to}
    <2> DEFINE r == run'[p]
    <2>1. run[p] \in Run /\ RunOK(run[p], held)
      BY DEF ClientInv, ClientTypeOK
    <2>2. r = [run[p] EXCEPT !.asked = @ \ {m.to}, !.heard = @ \/ ok, !.unsaved = @ /\ ~ ok,
                             !.done = @ \cup {[node |-> m.to, ok |-> ok]}]
      BY <1>5 DEF Learn
    <2>3. r \in Run
      <3>1. (run[p].heard \/ ok) \in BOOLEAN /\ (run[p].unsaved /\ ~ ok) \in BOOLEAN
        OBVIOUS
      <3>2. /\ run[p].asked \ {m.to} \in SUBSET Node
            /\ run[p].done \cup {[node |-> m.to, ok |-> ok]} \in SUBSET [node : Node, ok : BOOLEAN]
        BY <1>1, <2>1 DEF Run
      <3> QED BY <2>1, <2>2, <3>1, <3>2 DEF Run
    <2>4. /\ r.pc = run[p].pc /\ r.cid = run[p].cid /\ r.tries = run[p].tries
          /\ r.copy = run[p].copy /\ r.asked = run[p].asked \ {m.to}
          /\ r.done = run[p].done \cup {[node |-> m.to, ok |-> ok]}
      BY <2>1, <2>2 DEF Run
    <2>5. r.heard = (run[p].heard \/ ok) /\ r.unsaved = (run[p].unsaved /\ ~ ok)
      BY <2>1, <2>2 DEF Run
    <2>6. run[p].pc = "wait" /\ run[p].cid = m.cid
      BY <1>5 DEF ClientInv, MailMine, At
    <2>7. run[p].copy \in Hashes /\ run[p].done \subseteq [node : Node, ok : BOOLEAN]
      BY <2>1 DEF Run
    <2> HIDE DEF r
    <2>8. TrueHashes(r.copy, held')
      BY <1>3, <2>1, <2>4, <2>7 DEF RunOK
    <2>9. \A d \in r.done : d.ok => r.cid \in held'[d.node]
      BY <2>1, <2>4, <2>6, <2>7 DEF RunOK
    <2>10. r.heard /\ ~ r.unsaved => \E d \in r.done : d.ok
      <3>1. CASE ok
        <4>1. [node |-> m.to, ok |-> ok] \in r.done /\ [node |-> m.to, ok |-> ok].ok
          BY <2>4, <3>1
        <4> QED BY <4>1
      <3>2. CASE ~ ok
        <4>1. (r.heard => run[p].heard) /\ (run[p].unsaved => r.unsaved)
          BY <2>5, <3>2
        <4> QED BY <2>1, <2>4, <2>6, <4>1 DEF RunOK
      <3> QED BY <3>1, <3>2
    <2>11. r.cid \in Cid /\ r.tries < MaxTries
      BY <2>1, <2>4, <2>6 DEF RunOK
    <2>12. RunOK(r, held')
      BY <2>4, <2>6, <2>8, <2>9, <2>10, <2>11 DEF RunOK
    <2> QED BY <2>3, <2>4, <2>12 DEF r
  <1>6. run' \in [Process -> Run]
    BY <1>2, <1>5 DEF Learn, ClientInv, ClientTypeOK
  <1> QED BY <1>2, <1>4, <1>5, <1>6

\* A request that is answered, or given up, is the only one from its process to that node.
LEMMA LearnMail ==
  ASSUME ClientInv, NEW m \in mail,
         \A p \in Process : p # m.from => run'[p] = run[p],
         \A p \in Process : p = m.from =>
              /\ run'[p].pc = run[p].pc /\ run'[p].cid = run[p].cid
              /\ run'[p].asked = run[p].asked \ {m.to},
         \A o \in mail' : o.from \in Process => o \in mail /\ o # m
  PROVE  MailMine'
  <1>1. ASSUME NEW o \in mail', o.from \in Process
        PROVE  run'[o.from].pc = "wait" /\ run'[o.from].cid = o.cid /\ o.to \in run'[o.from].asked
    <2>1. o \in mail /\ o # m /\ o \in Request /\ m \in Request
      BY <1>1 DEF ClientInv, ClientTypeOK
    <2>2. run[o.from].pc = "wait" /\ run[o.from].cid = o.cid /\ o.to \in run[o.from].asked
      BY <1>1, <2>1 DEF ClientInv, MailMine, At
    <2>3. CASE o.from # m.from
      BY <1>1, <2>2, <2>3
    <2>4. CASE o.from = m.from
      <3>1. o.cid = m.cid
        BY <1>1, <2>2, <2>4 DEF ClientInv, MailMine, At
      <3>2. o.to # m.to
        BY <2>1, <2>4, <3>1 DEF Request
      <3> QED BY <1>1, <2>2, <2>4, <3>2
    <2> QED BY <2>3, <2>4
  <1> QED BY <1>1 DEF MailMine, At

LEMMA ServeInv ==
  ASSUME ClientInv, NEW m \in mail, Serve(m)
  PROVE  ClientInv'
  <1>1. PICK ok \in BOOLEAN : Learn(m, ok)
    BY DEF Serve
  <1>2. m \in Request /\ m.to \in Node /\ m.cid \in Cid
    BY DEF ClientInv, ClientTypeOK, Request
  <1>3. /\ held' \in [Node -> SUBSET Cid] /\ holds' \in [Node -> SUBSET Cid]
        /\ \A n \in Node : held[n] \subseteq held'[n]
        /\ m.cid \in held'[m.to]
    BY <1>2 DEF Serve, ClientInv, ClientTypeOK
  <1>4. /\ run' \in [Process -> Run]
        /\ \A p \in Process : RunOK(run'[p], held')
        /\ \A p \in Process : p # m.from => run'[p] = run[p]
        /\ \A p \in Process : p = m.from =>
              /\ run'[p].pc = run[p].pc /\ run'[p].cid = run[p].cid
              /\ run'[p].asked = run[p].asked \ {m.to}
    BY <1>1, <1>3, LearnOK
  <1>5. mail' = mail \ {m} /\ UNCHANGED <<calls, hashes, torn, saved, disturbed>>
    BY DEF Serve, file, history
  <1>6. MailMine'
    BY <1>4, <1>5, LearnMail
  <1>7. TrueHashes(hashes', held')
    BY <1>3, <1>5 DEF ClientInv, ClientTypeOK, TrueHashes, Hashes, Entry
  <1>8. ClientTypeOK'
    BY <1>3, <1>4, <1>5 DEF ClientInv, ClientTypeOK
  <1> QED BY <1>4, <1>6, <1>7, <1>8 DEF ClientInv

LEMMA FailInv ==
  ASSUME ClientInv, NEW m \in mail, Fail(m)
  PROVE  ClientInv'
  <1>1. /\ Learn(m, FALSE) /\ UNCHANGED <<calls, hashes, torn, holds, held, saved, disturbed>>
        /\ mail' = mail \ {m} \/ mail' = (mail \ {m}) \cup {[m EXCEPT !.from = NoProcess]}
    BY DEF Fail, file, nodes, history
  <1>2. held' \in [Node -> SUBSET Cid] /\ \A n \in Node : held[n] \subseteq held'[n]
    BY <1>1 DEF ClientInv, ClientTypeOK
  <1>3. /\ run' \in [Process -> Run]
        /\ \A p \in Process : RunOK(run'[p], held')
        /\ \A p \in Process : p # m.from => run'[p] = run[p]
        /\ \A p \in Process : p = m.from =>
              /\ run'[p].pc = run[p].pc /\ run'[p].cid = run[p].cid
              /\ run'[p].asked = run[p].asked \ {m.to}
    BY <1>1, <1>2, LearnOK
  <1>4. /\ [m EXCEPT !.from = NoProcess] \in Request
        /\ [m EXCEPT !.from = NoProcess].from = NoProcess
    BY DEF ClientInv, ClientTypeOK, Request
  <1>5. mail' \subseteq Request /\ \A o \in mail' : o.from \in Process => o \in mail /\ o # m
    BY <1>1, <1>4, ClientAssumption DEF ClientInv, ClientTypeOK
  <1>6. MailMine'
    BY <1>3, <1>5, LearnMail
  <1>7. ClientTypeOK' /\ TrueHashes(hashes', held')
    BY <1>1, <1>3, <1>5 DEF ClientInv, ClientTypeOK
  <1> QED BY <1>3, <1>6, <1>7 DEF ClientInv

LEMMA CollectInv ==
  ASSUME ClientInv, NEW p \in Process, Collect(p)
  PROVE  ClientInv'
  <1>1. run[p] \in Run /\ RunOK(run[p], held) /\ run[p].pc = "wait"
    BY DEF ClientInv, ClientTypeOK, Collect, At
  <1>2. run[p].cid \in Cid /\ run[p].tries < MaxTries /\ TrueHashes(run[p].copy, held)
    BY <1>1 DEF RunOK
  <1>3. UNCHANGED <<calls, hashes, torn, holds, held, saved, disturbed>>
    BY DEF Collect, file, nodes, history
  <1>4. ASSUME NEW d \in run[p].done, d.ok, Success(p, d.node), mail' = Late(p)
        PROVE  ClientInv'
    <2> DEFINE r == [run[p] EXCEPT !.pc = "read", !.key = run[p].cid, !.asked = {d.node},
                                   !.done = {}]
    <2>1. d.node \in Node /\ run[p].cid \in held[d.node]
      BY <1>1, <1>4 DEF Run, RunOK
    <2>2. r \in Run
      <3>1. run[p].cid \in Key /\ "read" \in Pc /\ {d.node} \in SUBSET Node
        BY <1>2, <2>1, ClientAssumption DEF Pc, Key
      <3> QED BY <1>1, <3>1 DEF Run
    <2>3. /\ r.pc = "read" /\ r.cid = run[p].cid /\ r.asked = {d.node} /\ r.done = {}
          /\ r.copy = run[p].copy /\ r.tries = run[p].tries
      BY <1>1 DEF Run
    <2>4. SetRun(p, r)
      BY <1>4 DEF Success
    <2> HIDE DEF r
    <2>5. RunOK(r, held)
      BY <1>2, <2>1, <2>3 DEF RunOK
    <2>6. mail' \subseteq Request /\ MailMine'
      BY <1>4, <2>2, <2>4, MailCancelled
    <2> QED BY <1>3, <2>2, <2>4, <2>5, <2>6, ProcessMoves DEF ClientInv, ClientTypeOK
  <1>5. ASSUME \A d \in run[p].done : ~ d.ok, mail' = mail,
               SetRun(p, IF run[p].asked = {} THEN Again(run[p]) ELSE [run[p] EXCEPT !.done = {}])
        PROVE  ClientInv'
    <2>1. run[p].heard => run[p].unsaved
      BY <1>1, <1>5 DEF RunOK
    <2>2. CASE run[p].asked = {}
      <3>1. Again(run[p]) \in Run /\ RunOK(Again(run[p]), held) /\ SetRun(p, Again(run[p]))
        BY <1>1, <1>2, <1>5, <2>1, <2>2, AgainOK
      <3>2. \A m \in mail : m.from # p
        BY <2>2 DEF ClientInv, MailMine
      <3>3. \A q \in Process \ {p} : run'[q] = run[q]
        BY <3>1 DEF SetRun, ClientInv, ClientTypeOK
      <3>4. MailMine'
        BY <1>5, <3>2, <3>3 DEF ClientInv, MailMine, At
      <3> QED BY <1>3, <1>5, <3>1, <3>4, ProcessMoves DEF ClientInv, ClientTypeOK
    <2>3. CASE run[p].asked # {}
      <3> DEFINE r == [run[p] EXCEPT !.done = {}]
      <3>1. r \in Run /\ SetRun(p, r)
        BY <1>1, <1>5, <2>3 DEF Run
      <3>2. /\ r.pc = "wait" /\ r.cid = run[p].cid /\ r.asked = run[p].asked /\ r.done = {}
            /\ r.copy = run[p].copy /\ r.tries = run[p].tries /\ r.heard = run[p].heard
            /\ r.unsaved = run[p].unsaved
        BY <1>1 DEF Run
      <3> HIDE DEF r
      <3>3. RunOK(r, held)
        BY <1>2, <2>1, <3>2 DEF RunOK
      <3>4. MailMine'
        BY <1>5, <3>1, <3>2, MailKept
      <3> QED BY <1>3, <1>5, <3>1, <3>3, <3>4, ProcessMoves DEF ClientInv, ClientTypeOK
    <2> QED BY <2>2, <2>3
  <1> QED BY <1>4, <1>5 DEF Collect

LEMMA ReadHashesInv ==
  ASSUME ClientInv, NEW p \in Process, ReadHashes(p)
  PROVE  ClientInv'
  <1> DEFINE r == [run[p] EXCEPT !.pc = "open", !.copy = ListAllHashes]
  <1>1. run[p] \in Run /\ RunOK(run[p], held) /\ run[p].pc = "read"
    BY DEF ClientInv, ClientTypeOK, ReadHashes, At
  <1>2. r \in Run
    BY <1>1, ListTrue DEF Run, Pc
  <1>3. /\ r.pc = "open" /\ r.cid = run[p].cid /\ r.asked = run[p].asked
        /\ r.done = run[p].done /\ r.copy = ListAllHashes /\ r.tries = run[p].tries
    BY <1>1 DEF Run
  <1>4. SetRun(p, r)
    BY DEF ReadHashes
  <1> HIDE DEF r
  <1>5. RunOK(r, held)
    BY <1>1, <1>3, ListTrue DEF RunOK
  <1>6. MailMine'
    BY <1>1, <1>2, <1>4, MailKept DEF At, ReadHashes
  <1>7. disturbed' \in BOOLEAN
    BY DEF ReadHashes
  <1> QED BY <1>2, <1>4, <1>5, <1>6, <1>7, ProcessMoves
          DEF ReadHashes, ClientInv, ClientTypeOK, file, nodes

LEMMA OpenHashesInv ==
  ASSUME ClientInv, NEW p \in Process, OpenHashes(p)
  PROVE  ClientInv'
  <1> DEFINE r == [run[p] EXCEPT !.pc = "write", !.late = FALSE]
  <1>1. run[p] \in Run /\ RunOK(run[p], held) /\ run[p].pc = "open"
    BY DEF ClientInv, ClientTypeOK, OpenHashes, At
  <1>2. r \in Run
    BY <1>1 DEF Run, Pc
  <1>3. /\ r.pc = "write" /\ r.cid = run[p].cid /\ r.asked = run[p].asked
        /\ r.done = run[p].done /\ r.copy = run[p].copy /\ r.tries = run[p].tries
    BY <1>1 DEF Run
  <1>4. SetRun(p, r)
    BY DEF OpenHashes
  <1> HIDE DEF r
  <1>5. RunOK(r, held)
    BY <1>1, <1>3 DEF RunOK
  <1>6. MailMine'
    BY <1>1, <1>2, <1>4, MailKept DEF At, OpenHashes
  <1> QED BY <1>2, <1>4, <1>5, <1>6, ProcessMoves
          DEF OpenHashes, ClientInv, ClientTypeOK, nodes, history

LEMMA WriteHashesInv ==
  ASSUME ClientInv, NEW p \in Process, WriteHashes(p)
  PROVE  ClientInv'
  <1> DEFINE named == run[p].key = FileName
             next  == IF named THEN End("stored")
                      ELSE [NoRun EXCEPT !.pc = "read", !.cid = run[p].cid, !.asked = run[p].asked]
  <1>1. run[p] \in Run /\ RunOK(run[p], held) /\ run[p].pc = "write"
    BY DEF ClientInv, ClientTypeOK, WriteHashes, At
  <1>2. PICK n \in run[p].asked :
          hashes' = [run[p].copy EXCEPT ![run[p].key] = [cid |-> run[p].cid, node |-> n]]
    BY DEF WriteHashes
  <1>3. /\ run[p].copy \in Hashes /\ TrueHashes(run[p].copy, held) /\ run[p].key \in Key
        /\ run[p].cid \in Cid /\ n \in Node /\ run[p].cid \in held[n]
    BY <1>1 DEF Run, RunOK
  <1>4. /\ UNCHANGED <<mail, calls, holds, held, disturbed>>
        /\ torn' \in BOOLEAN /\ saved' \subseteq Cid
    BY <1>1, <1>3 DEF WriteHashes, nodes, ClientInv, ClientTypeOK, Run
  <1>5. hashes' \in Hashes /\ TrueHashes(hashes', held')
    <2> DEFINE e == [cid |-> run[p].cid, node |-> n]
    <2>1. e \in Entry /\ e.cid \in held[e.node]
      BY <1>3 DEF Entry
    <2>2. hashes' = [run[p].copy EXCEPT ![run[p].key] = e]
      BY <1>2
    <2> HIDE DEF e
    <2> QED BY <1>3, <1>4, <2>1, <2>2 DEF Hashes, TrueHashes
  <1>6. next \in Run /\ RunOK(next, held)
    <2>1. CASE named
      BY <2>1, EndTyped DEF Over
    <2>2. CASE ~ named
      <3> DEFINE r == [NoRun EXCEPT !.pc = "read", !.cid = run[p].cid, !.asked = run[p].asked]
      <3>1. run[p].asked \subseteq Node
        BY <1>1 DEF Run
      <3>2. r \in Run
        BY <1>3, <3>1, NoRunTyped DEF Run, Pc
      <3>3. /\ r.pc = "read" /\ r.cid = run[p].cid /\ r.asked = run[p].asked
            /\ r.done = {} /\ r.copy = NoHashes /\ r.tries = 0
        BY DEF NoRun
      <3>4. next = r
        BY <2>2
      <3> HIDE DEF r
      <3>5. RunOK(r, held)
        BY <1>1, <3>3, NoHashesTrue, ClientAssumption DEF RunOK
      <3> QED BY <3>2, <3>4, <3>5
    <2> QED BY <2>1, <2>2
  <1>7. run' = [q \in Process |-> IF q # p THEN [run[q] EXCEPT !.late = @ \/ At(q, "write")]
                                  ELSE next]
    BY DEF WriteHashes
  <1> HIDE DEF next
  <1>8. ASSUME NEW q \in Process
        PROVE  /\ run'[q] \in Run /\ RunOK(run'[q], held')
               /\ q # p => /\ run'[q].pc = run[q].pc /\ run'[q].cid = run[q].cid
                           /\ run'[q].asked = run[q].asked
    <2>1. CASE q = p
      BY <1>4, <1>6, <1>7, <2>1
    <2>2. CASE q # p
      <3> DEFINE r == run'[q]
      <3>1. run[q] \in Run /\ RunOK(run[q], held)
        BY DEF ClientInv, ClientTypeOK
      <3>2. r = [run[q] EXCEPT !.late = @ \/ At(q, "write")]
        BY <1>7, <2>2
      <3>3. (run[q].late \/ At(q, "write")) \in BOOLEAN
        OBVIOUS
      <3>4. r \in Run
        BY <3>1, <3>2, <3>3 DEF Run
      <3>5. /\ r.pc = run[q].pc /\ r.cid = run[q].cid /\ r.asked = run[q].asked
            /\ r.done = run[q].done /\ r.copy = run[q].copy /\ r.tries = run[q].tries
            /\ r.heard = run[q].heard /\ r.unsaved = run[q].unsaved
        BY <3>1, <3>2 DEF Run
      <3> HIDE DEF r
      <3>6. RunOK(r, held)
        BY <3>1, <3>5 DEF RunOK
      <3> QED BY <1>4, <3>4, <3>5, <3>6 DEF r
    <2> QED BY <2>1, <2>2
  <1>9. run' \in [Process -> Run]
    BY <1>7, <1>8
  <1>10. MailMine'
    BY <1>1, <1>4, <1>8 DEF ClientInv, MailMine, At
  <1>11. ClientTypeOK'
    BY <1>4, <1>5, <1>9 DEF ClientInv, ClientTypeOK
  <1> QED BY <1>5, <1>8, <1>10, <1>11 DEF ClientInv

\* A process that ends.
LEMMA EndInv ==
  ASSUME ClientInv, NEW p \in Process, NEW e \in Over \ {"gave up"}, SetRun(p, End(e)),
         UNCHANGED <<hashes, held, saved>>,
         calls' \in Nat, torn' \in BOOLEAN, holds' \in [Node -> SUBSET Cid], disturbed' \in BOOLEAN,
         (mail' = mail /\ ~ At(p, "wait")) \/ mail' = Late(p)
  PROVE  ClientInv'
  <1>1. End(e) \in Run /\ RunOK(End(e), held)
    BY EndTyped
  <1>2. mail' \subseteq Request /\ MailMine'
    <2>1. CASE mail' = mail /\ ~ At(p, "wait")
      BY <1>1, <2>1, MailKept DEF ClientInv, ClientTypeOK
    <2>2. CASE mail' = Late(p)
      BY <1>1, <2>2, MailCancelled
    <2> QED BY <2>1, <2>2
  <1> QED BY <1>1, <1>2, ProcessMoves

LEMMA AskNodesInv ==
  ASSUME ClientInv, NEW p \in Process, NEW c \in Cid, NEW what \in {"get", "delete"},
         NEW command \in BOOLEAN, AskNodes(p, c, what, command)
  PROVE  ClientInv'
  <1>1. /\ UNCHANGED <<mail, hashes, torn, holds, held, saved, disturbed>>
        /\ calls' \in Nat /\ ~ At(p, "wait")
    <2>1. UNCHANGED <<mail, hashes, torn, holds, held, saved, disturbed>>
      BY DEF AskNodes, file, nodes, history
    <2>2. calls' \in Nat
      <3>1. calls' = calls + 1
        BY DEF AskNodes
      <3>2. calls \in Nat
        BY DEF ClientInv, ClientTypeOK
      <3> QED BY <3>1, <3>2
    <2>3. ~ At(p, "wait")
      BY DEF AskNodes, MayBegin, At, Over
    <2> QED BY <2>1, <2>2, <2>3
  <1>2. ASSUME NEW asked \in Asked(c, command),
               SetRun(p, [NoRun EXCEPT !.pc = what, !.cid = c, !.asked = asked])
        PROVE  ClientInv'
    <2> DEFINE r == [NoRun EXCEPT !.pc = what, !.cid = c, !.asked = asked]
    <2>1. asked \subseteq Node
      <3>1. \A k \in Lookup(c) : ListAllHashes[k].node \in Node
        BY ListTrue DEF Lookup, Hashes, Entry
      <3>2. CASE Lookup(c) # {}
        BY <3>1, <3>2 DEF Asked
      <3>3. CASE Lookup(c) = {}
        BY <3>3 DEF Asked, ApiNodes
      <3> QED BY <3>2, <3>3
    <2>2. r \in Run
      BY <2>1, NoRunTyped DEF Run, Pc
    <2>3. r.pc = what /\ r.done = {} /\ r.copy = NoHashes /\ r.heard = FALSE /\ r.tries = 0
      BY DEF NoRun
    <2>4. SetRun(p, r)
      BY <1>2
    <2> HIDE DEF r
    <2>5. RunOK(r, held)
      <3>1. 0 < MaxTries
        BY ClientAssumption
      <3>2. r.pc \notin {"try", "wait", "read", "open", "write", "gave up"}
        BY <2>3
      <3>3. TrueHashes(r.copy, held)
        BY <2>3, NoHashesTrue
      <3> QED BY <2>3, <3>1, <3>2, <3>3 DEF RunOK
    <2>6. MailMine'
      BY <1>1, <2>2, <2>4, MailKept
    <2> QED BY <1>1, <2>2, <2>4, <2>5, <2>6, ProcessMoves DEF ClientInv, ClientTypeOK
  <1>3. ASSUME SetRun(p, End("raised"))
        PROVE  ClientInv'
    BY <1>1, <1>3, EndInv DEF Over, ClientInv, ClientTypeOK
  <1> QED BY <1>2, <1>3 DEF AskNodes

LEMMA RetrieveInv ==
  ASSUME ClientInv, NEW p \in Process, Retrieve(p)
  PROVE  ClientInv'
  <1>1. run[p] \in Run /\ RunOK(run[p], held) /\ run[p].pc = "get" /\ ~ At(p, "wait")
    BY DEF ClientInv, ClientTypeOK, Retrieve, At
  <1>2. UNCHANGED <<mail, calls, hashes, torn, holds, held, saved, disturbed>>
    BY DEF Retrieve, file, nodes, history
  <1>3. run[p].tries \in 0..MaxTries /\ run[p].tries < MaxTries
    BY <1>1 DEF Run, RunOK
  <1>4. \/ \E e \in {"data", "empty", "raised"} : SetRun(p, End(e))
        \/ run[p].tries + 1 < MaxTries /\ SetRun(p, [run[p] EXCEPT !.tries = @ + 1])
    BY DEF Retrieve
  <1>5. ASSUME NEW e \in {"data", "empty", "raised"}, SetRun(p, End(e)) PROVE ClientInv'
    BY <1>1, <1>2, <1>5, EndInv DEF Over, ClientInv, ClientTypeOK
  <1>6. ASSUME run[p].tries + 1 < MaxTries, SetRun(p, [run[p] EXCEPT !.tries = @ + 1])
        PROVE  ClientInv'
    <2> DEFINE r == [run[p] EXCEPT !.tries = @ + 1]
    <2>1. run[p].tries + 1 \in 0..MaxTries /\ run[p].tries + 1 < MaxTries
      BY <1>3, <1>6, ClientAssumption
    <2>2. r \in Run
      BY <1>1, <2>1 DEF Run
    <2>3. /\ r.pc = "get" /\ r.tries = run[p].tries + 1 /\ r.cid = run[p].cid
          /\ r.done = run[p].done /\ r.copy = run[p].copy
      BY <1>1 DEF Run
    <2>4. SetRun(p, r)
      BY <1>6
    <2> HIDE DEF r
    <2>5. RunOK(r, held)
      BY <1>1, <2>1, <2>3 DEF RunOK
    <2>6. MailMine'
      BY <1>1, <1>2, <2>2, <2>4, MailKept
    <2> QED BY <1>2, <2>2, <2>4, <2>5, <2>6, ProcessMoves DEF ClientInv, ClientTypeOK
  <1> QED BY <1>4, <1>5, <1>6

LEMMA DeleteOnceInv ==
  ASSUME ClientInv, NEW p \in Process, DeleteOnce(p)
  PROVE  ClientInv'
  <1>1. /\ UNCHANGED <<mail, calls, hashes, torn, held, saved, disturbed>>
        /\ SetRun(p, End("deleted")) /\ ~ At(p, "wait")
    BY DEF DeleteOnce, At, file, history
  <1>2. holds' \in [Node -> SUBSET Cid]
    BY DEF DeleteOnce, ClientInv, ClientTypeOK
  <1> QED BY <1>1, <1>2, EndInv DEF Over, ClientInv, ClientTypeOK

LEMMA KillProcessInv ==
  ASSUME ClientInv, NEW p \in Process, KillProcess(p)
  PROVE  ClientInv'
  <1>1. /\ UNCHANGED <<calls, hashes, holds, held, saved>>
        /\ SetRun(p, End("killed")) /\ mail' = Late(p) /\ disturbed' \in BOOLEAN
        /\ torn' \in BOOLEAN
    BY DEF KillProcess, nodes, ClientInv, ClientTypeOK
  <1> QED BY <1>1, EndInv DEF Over, ClientInv, ClientTypeOK

LEMMA FailSaveInv ==
  ASSUME ClientInv, NEW p \in Process, FailSave(p)
  PROVE  ClientInv'
  <1>1. run[p] \in Run /\ RunOK(run[p], held) /\ run[p].pc \in {"read", "open", "write"}
    BY DEF ClientInv, ClientTypeOK, FailSave
  <1>2. /\ UNCHANGED <<mail, calls, hashes, holds, held, saved>> /\ ~ At(p, "wait")
        /\ torn' \in BOOLEAN /\ disturbed' \in BOOLEAN
    BY <1>1 DEF FailSave, nodes, At, ClientInv, ClientTypeOK
  <1>3. CASE run[p].key = FileName
    BY <1>2, <1>3, EndInv DEF FailSave, Over, ClientInv, ClientTypeOK
  <1>4. CASE run[p].key # FileName
    <2> DEFINE o == [run[p] EXCEPT !.key = FileName, !.copy = NoHashes,
                                   !.late = FALSE, !.unsaved = TRUE]
    <2>1. NoHashes \in Hashes /\ FileName \in Key
      BY DEF NoHashes, Hashes, Key
    <2>2. o \in Run
      BY <1>1, <2>1 DEF Run
    <2>3. /\ o.copy = NoHashes /\ o.unsaved = TRUE
          /\ o.cid = run[p].cid /\ o.tries = run[p].tries
      BY <1>1 DEF Run
    <2>4. SetRun(p, Again(o))
      BY <1>4 DEF FailSave
    <2> HIDE DEF o
    <2>5. o.cid \in Cid /\ o.tries < MaxTries /\ TrueHashes(o.copy, held)
      BY <1>1, <2>3, NoHashesTrue DEF RunOK
    <2>6. Again(o) \in Run /\ RunOK(Again(o), held)
      BY <2>2, <2>3, <2>5, AgainOK
    <2>7. MailMine'
      BY <1>2, <2>4, <2>6, MailKept
    <2> QED BY <1>2, <2>4, <2>6, <2>7, ProcessMoves DEF ClientInv, ClientTypeOK
  <1> QED BY <1>3, <1>4

LEMMA StepInv == ClientInv /\ [ClientNext]_client => ClientInv'
  <1> SUFFICES ASSUME ClientInv, [ClientNext]_client
               PROVE  ClientInv'
    OBVIOUS
  <1>1. CASE UNCHANGED client
    <2>1. UNCHANGED <<run, mail, calls, hashes, torn, holds, held, saved, disturbed>>
      BY <1>1 DEF client, file, nodes, history
    <2>2. ClientTypeOK' /\ MailMine'
      BY <2>1 DEF ClientInv, ClientTypeOK, MailMine, At
    <2> QED BY <2>1, <2>2 DEF ClientInv
  <1>2. ASSUME NEW p \in Process, NEW c \in Cid, Put(p, c) \/ Get(p, c) \/ Delete(p, c)
        PROVE  ClientInv'
    BY <1>2, PutInv, AskNodesInv DEF Get, Delete
  <1>3. ASSUME NEW p \in Process,
               \/ Try(p) \/ Collect(p) \/ ReadHashes(p) \/ OpenHashes(p) \/ WriteHashes(p)
               \/ FailSave(p) \/ Retrieve(p) \/ DeleteOnce(p) \/ KillProcess(p)
        PROVE  ClientInv'
    BY <1>3, TryInv, CollectInv, ReadHashesInv, OpenHashesInv, WriteHashesInv, FailSaveInv,
       RetrieveInv, DeleteOnceInv, KillProcessInv
  <1>4. ASSUME NEW m \in mail, Serve(m) \/ Fail(m) PROVE ClientInv'
    BY <1>4, ServeInv, FailInv
  <1> QED BY <1>1, <1>2, <1>3, <1>4 DEF ClientNext

LEMMA ClientInvHolds == ClientSpec => []ClientInv
  BY InitInv, StepInv, PTL DEF ClientSpec

-----------------------------------------------------------------------------
(* Theorems                                                                *)

\* Every variable keeps its type; in particular no call counts more attempts than
\* max_retries allows.
THEOREM ClientTypes == ClientSpec => []ClientTypeOK
  <1>1. ClientInv => ClientTypeOK
    BY DEF ClientInv
  <1> QED BY <1>1, ClientInvHolds, PTL

\* query_api: a request on its way is one of the attempt its process is at, or belongs to
\* nobody: no answer reaches an attempt that did not ask.
THEOREM MailIsMine == ClientSpec => []MailMine
  <1>1. ClientInv => MailMine
    BY DEF ClientInv
  <1> QED BY <1>1, ClientInvHolds, PTL

\* save_hash_mapping: whatever processes write the file over each other, or are killed
\* while they do, an entry names a node that has stored its CID.
THEOREM EntriesTrue == ClientSpec => []LookupRight
  <1>1. ClientInv => LookupRight
    BY DEF ClientInv, TrueHashes, LookupRight
  <1> QED BY <1>1, ClientInvHolds, PTL

\* store: it gives up after max_retries attempts, and has then heard of no success, or its
\* save of the last one failed.
THEOREM GivesUpAtEnd == ClientSpec => []GivesUpLate
  <1>1. ClientInv => GivesUpLate
    BY DEF ClientInv, RunOK, GivesUpLate, At
  <1> QED BY <1>1, ClientInvHolds, PTL

-----------------------------------------------------------------------------
(* Saves that do not meet                                                  *)

\* put has stored the data and is about to save it under the name too.
Named(p) == run[p].pc \in {"read", "open", "write"} /\ run[p].key = FileName

\* CIDs that are, or will be, reported as stored.
Owed == saved \cup {run[p].cid : p \in {q \in Process : Named(q)}}

\* An entry under a CID is the one of that CID.
KeysRight(h) == \A c \in Cid : h[c] # NoEntry => h[c].cid = c

\* One process saves at a time, and starts from a file with all that is owed.
SavesOK ==
  /\ \A p, q \in Process : Saving(p) /\ Saving(q) => p = q
  /\ torn => \E p \in Process : At(p, "write")
  /\ \A p \in Process : At(p, "write") => ~ run[p].late
  /\ \A c \in Owed : hashes[c] # NoEntry
  /\ \A p \in Process : Saving(p) => \A c \in Owed : run[p].copy[c] # NoEntry

\* The invariant behind KeepsWhenAlone.
SaveInv ==
  /\ KeysRight(hashes)
  /\ \A p \in Process :
       /\ KeysRight(run[p].copy)
       /\ run[p].pc \in {"read", "open", "write"} => run[p].key \in {run[p].cid, FileName}
  /\ ~ disturbed => SavesOK

\* A process that neither saves afterwards nor is about to save under the name.
LEMMA QuietMove ==
  ASSUME ClientInv, SaveInv, NEW p \in Process, NEW r \in Run, SetRun(p, r),
         UNCHANGED <<hashes, saved>>, KeysRight(r.copy),
         r.pc \notin {"open", "write"},
         r.pc = "read" => r.key = r.cid /\ r.key # FileName,
         ~ disturbed' => ~ disturbed /\ ~ At(p, "write") /\ torn' = torn
  PROVE  SaveInv'
  <1>1. run'[p] = r /\ \A q \in Process \ {p} : run'[q] = run[q]
    BY DEF ClientInv, ClientTypeOK, SetRun
  <1>2. KeysRight(hashes)' /\ \A q \in Process : KeysRight(run'[q].copy)
    BY <1>1 DEF SaveInv, KeysRight
  <1>3. \A q \in Process : run'[q].pc \in {"read", "open", "write"}
                             => run'[q].key \in {run'[q].cid, FileName}
    BY <1>1 DEF SaveInv
  <1>4. ASSUME ~ disturbed' PROVE SavesOK'
    <2>1. SavesOK /\ ~ At(p, "write") /\ torn' = torn
      BY <1>4 DEF SaveInv
    <2>2. \A q \in Process : Named(q)' => Named(q) /\ run'[q] = run[q]
      BY <1>1 DEF Named
    <2>3. Owed' \subseteq Owed
      BY <2>2 DEF Owed
    <2>4. \A q \in Process : Saving(q)' => Saving(q) /\ run'[q] = run[q]
      BY <1>1 DEF Saving
    <2>5. torn' => \E q \in Process : At(q, "write")'
      BY <1>1, <2>1 DEF SavesOK, At
    <2>6. \A q \in Process : At(q, "write")' => ~ run'[q].late
      BY <1>1, <2>1 DEF SavesOK, At
    <2> QED BY <2>1, <2>3, <2>4, <2>5, <2>6 DEF SavesOK
  <1> QED BY <1>2, <1>3, <1>4 DEF SaveInv, KeysRight

\* An answer that a process learns is nothing to its save.
LEMMA LearnSave ==
  ASSUME ClientInv, SaveInv, NEW m \in mail, NEW ok \in BOOLEAN, Learn(m, ok),
         UNCHANGED <<hashes, torn, saved, disturbed>>
  PROVE  SaveInv'
  <1>1. \A q \in Process :
          /\ run'[q].pc = run[q].pc /\ run'[q].cid = run[q].cid /\ run'[q].key = run[q].key
          /\ run'[q].copy = run[q].copy /\ run'[q].late = run[q].late
    <2>1. ASSUME NEW q \in Process
          PROVE  {"pc", "cid", "key", "copy", "late"} \subseteq DOMAIN run[q]
      BY DEF ClientInv, ClientTypeOK, Run
    <2> QED BY <2>1 DEF Learn
  <1>2. KeysRight(hashes)' /\ \A q \in Process : KeysRight(run'[q].copy)
    BY <1>1 DEF SaveInv, KeysRight
  <1>3. \A q \in Process : Named(q)' <=> Named(q)
    BY <1>1 DEF Named
  <1>4. Owed' = Owed
    BY <1>1, <1>3 DEF Owed
  <1>5. SavesOK => SavesOK'
    BY <1>1, <1>4 DEF SavesOK, Saving, At
  <1> QED BY <1>1, <1>2, <1>5 DEF SaveInv, KeysRight

\* A file that was not open is left as it was.
LEMMA TornKept ==
  ASSUME ClientInv, NEW p \in Process, torn' \in {torn, torn \/ At(p, "write")}
  PROVE  ~ At(p, "write") => torn' = torn
  BY DEF ClientInv, ClientTypeOK

\* The calls, their attempts and what comes of them; saves that fail.
LEMMA CallsSave ==
  ASSUME ClientInv, SaveInv, NEW p \in Process,
         \/ \E c \in Cid : Put(p, c) \/ Get(p, c) \/ Delete(p, c)
         \/ Try(p) \/ FailSave(p) \/ Retrieve(p) \/ DeleteOnce(p) \/ KillProcess(p)
  PROVE  SaveInv'
  <1>f. run[p] \in Run /\ KeysRight(run[p].copy)
    BY DEF ClientInv, ClientTypeOK, SaveInv
  <1>n. KeysRight(NoHashes)
    BY DEF KeysRight, NoHashes, Key
  <1>u. /\ UNCHANGED <<hashes, saved>> /\ (disturbed => disturbed')
        /\ ~ At(p, "write") => torn' = torn
    <2>1. CASE \E c \in Cid : Put(p, c) \/ Get(p, c) \/ Delete(p, c)
      <3>1. PICK c \in Cid : Put(p, c) \/ Get(p, c) \/ Delete(p, c)
        BY <2>1
      <3>2. CASE Put(p, c)
        BY <3>2 DEF Put, file, history
      <3>3. CASE Get(p, c) \/ Delete(p, c)
        <4>1. PICK pc \in {"get", "delete"}, command \in BOOLEAN : AskNodes(p, c, pc, command)
          BY <3>3 DEF Get, Delete
        <4> QED BY <4>1 DEF AskNodes, file, history
      <3> QED BY <3>1, <3>2, <3>3
    <2>2. CASE Try(p)
      BY <2>2 DEF Try, file, history
    <2>3. CASE Retrieve(p)
      BY <2>3 DEF Retrieve, file, history
    <2>4. CASE DeleteOnce(p)
      BY <2>4 DEF DeleteOnce, file, history
    <2>5. CASE KillProcess(p)
      <3>1. disturbed \in BOOLEAN
        BY DEF ClientInv, ClientTypeOK
      <3>2. /\ UNCHANGED <<hashes, saved>> /\ disturbed' = (disturbed \/ At(p, "write"))
            /\ torn' \in {torn, torn \/ At(p, "write")}
        BY <2>5 DEF KillProcess
      <3> QED BY <3>1, <3>2, TornKept
    <2>6. CASE FailSave(p)
      <3>1. disturbed \in BOOLEAN
        BY DEF ClientInv, ClientTypeOK
      <3>2. /\ UNCHANGED <<hashes, saved>> /\ disturbed' = (disturbed \/ At(p, "write"))
            /\ torn' \in {torn, torn \/ At(p, "write")}
        BY <2>6 DEF FailSave
      <3> QED BY <3>1, <3>2, TornKept
    <2> QED BY <2>1, <2>2, <2>3, <2>4, <2>5, <2>6
  \* The record that p gets.
  <1>r. ASSUME NEW r, SetRun(p, r), KeysRight(r.copy),
               r.pc \notin {"read", "open", "write"}, ~ disturbed' => ~ At(p, "write"),
               ClientInv'
        PROVE  SaveInv'
    <2>1. r \in Run
      BY <1>r DEF SetRun, ClientInv, ClientTypeOK
    <2> QED BY <1>r, <1>u, <2>1, QuietMove
  <1>i. ClientInv'
    BY PutInv, AskNodesInv, TryInv, FailSaveInv, RetrieveInv, DeleteOnceInv, KillProcessInv
    DEF Get, Delete
  <1>e. ASSUME NEW e \in Over, SetRun(p, End(e)), ~ disturbed' => ~ At(p, "write")
        PROVE  SaveInv'
    <2>1. End(e).pc = e /\ End(e).copy = NoHashes
      BY DEF End, NoRun
    <2> QED BY <1>e, <1>i, <1>n, <1>r, <2>1 DEF Over
  <1>1. ASSUME NEW c \in Cid, Put(p, c) PROVE SaveInv'
    <2> DEFINE r == [NoRun EXCEPT !.pc = "try", !.cid = c]
    <2>1. r.pc = "try" /\ r.copy = NoHashes
      BY DEF NoRun
    <2>2. SetRun(p, r) /\ ~ At(p, "write")
      BY <1>1 DEF Put, MayBegin, Over, At
    <2> HIDE DEF r
    <2> QED BY <1>i, <1>n, <1>r, <2>1, <2>2
  <1>2. ASSUME NEW c \in Cid, Get(p, c) \/ Delete(p, c) PROVE SaveInv'
    <2>1. PICK pc \in {"get", "delete"}, command \in BOOLEAN : AskNodes(p, c, pc, command)
      BY <1>2 DEF Get, Delete
    <2>2. ~ At(p, "write")
      BY <2>1 DEF AskNodes, MayBegin, Over, At
    <2>3. ASSUME NEW asked, SetRun(p, [NoRun EXCEPT !.pc = pc, !.cid = c, !.asked = asked])
          PROVE  SaveInv'
      <3> DEFINE r == [NoRun EXCEPT !.pc = pc, !.cid = c, !.asked = asked]
      <3>1. r.pc = pc /\ r.copy = NoHashes
        BY DEF NoRun
      <3>2. SetRun(p, r)
        BY <2>3
      <3> HIDE DEF r
      <3> QED BY <1>i, <1>n, <1>r, <2>2, <3>1, <3>2
    <2> QED BY <1>e, <2>1, <2>2, <2>3 DEF AskNodes, Over
  <1>3. CASE Try(p)
    <2>1. PICK asked \in ApiNodes :
            SetRun(p, IF asked = {} THEN Again(run[p])
                      ELSE [run[p] EXCEPT !.pc = "wait", !.asked = asked])
      BY <1>3 DEF Try
    <2> DEFINE r == IF asked = {} THEN Again(run[p])
                    ELSE [run[p] EXCEPT !.pc = "wait", !.asked = asked]
    <2>2. r.pc \in {"try", "gave up", "wait"} /\ r.copy = run[p].copy
      BY <1>f DEF Again, Run
    <2>3. SetRun(p, r) /\ ~ At(p, "write")
      BY <1>3, <2>1 DEF Try, At
    <2> HIDE DEF r
    <2> QED BY <1>f, <1>i, <1>r, <2>2, <2>3
  <1>4. CASE Retrieve(p)
    <2>1. ~ At(p, "write") /\ At(p, "get")
      BY <1>4 DEF Retrieve, At
    <2>2. CASE \E e \in {"data", "empty", "raised"} : SetRun(p, End(e))
      BY <1>e, <2>1, <2>2 DEF Over
    <2>3. CASE SetRun(p, [run[p] EXCEPT !.tries = @ + 1])
      <3>1. PICK r : r = [run[p] EXCEPT !.tries = @ + 1]
        OBVIOUS
      <3>2. r.pc = "get" /\ r.copy = run[p].copy
        BY <1>f, <2>1, <3>1 DEF Run, At
      <3> QED BY <1>f, <1>i, <1>r, <2>1, <2>3, <3>1, <3>2
    <2> QED BY <1>4, <2>2, <2>3 DEF Retrieve
  <1>5. CASE DeleteOnce(p)
    BY <1>5, <1>e DEF DeleteOnce, At, Over
  <1>6. CASE KillProcess(p)
    BY <1>6, <1>e DEF KillProcess, Over
  <1>7. CASE FailSave(p)
    <2>1. ~ disturbed' => ~ At(p, "write")
      BY <1>7 DEF FailSave
    <2>2. CASE SetRun(p, End("raised"))
      BY <1>e, <2>1, <2>2 DEF Over
    <2>3. CASE SetRun(p, Again([run[p] EXCEPT !.key = FileName, !.copy = NoHashes,
                                             !.late = FALSE, !.unsaved = TRUE]))
      <3>1. PICK r : r = Again([run[p] EXCEPT !.key = FileName, !.copy = NoHashes,
                                              !.late = FALSE, !.unsaved = TRUE])
        OBVIOUS
      <3>2. r.pc \in {"try", "gave up"} /\ r.copy = NoHashes
        BY <1>f, <3>1 DEF Again, Run
      <3> QED BY <1>i, <1>n, <1>r, <2>1, <2>3, <3>1, <3>2
    <2> QED BY <1>7, <2>2, <2>3 DEF FailSave
  <1> QED BY <1>1, <1>2, <1>3, <1>4, <1>5, <1>6, <1>7

\* A success begins a save under the CID.
LEMMA CollectSave ==
  ASSUME ClientInv, SaveInv, NEW p \in Process, Collect(p)
  PROVE  SaveInv'
  <1>f. run[p] \in Run /\ KeysRight(run[p].copy) /\ run[p].cid \in Cid /\ ~ At(p, "write")
    BY DEF ClientInv, ClientTypeOK, SaveInv, RunOK, Collect, At
  <1>u. UNCHANGED <<hashes, torn, saved, disturbed>> /\ ClientInv'
    BY CollectInv DEF Collect, file, history
  <1>1. ASSUME NEW n, Success(p, n) PROVE SaveInv'
    <2>1. PICK r : r = [run[p] EXCEPT !.pc = "read", !.key = run[p].cid, !.asked = {n},
                                      !.done = {}]
      OBVIOUS
    <2>2. /\ r.pc = "read" /\ r.key = run[p].cid /\ r.cid = run[p].cid
          /\ r.copy = run[p].copy
      BY <1>f, <2>1 DEF Run
    <2>3. SetRun(p, r)
      BY <1>1, <2>1 DEF Success
    <2>4. r \in Run
      BY <1>u, <2>3 DEF SetRun, ClientInv, ClientTypeOK
    <2> QED BY <1>f, <1>u, <2>2, <2>3, <2>4, ClientAssumption, QuietMove
  <1>2. ASSUME SetRun(p, IF run[p].asked = {} THEN Again(run[p])
                         ELSE [run[p] EXCEPT !.done = {}])
        PROVE  SaveInv'
    <2>1. PICK r : r = IF run[p].asked = {} THEN Again(run[p])
                       ELSE [run[p] EXCEPT !.done = {}]
      OBVIOUS
    <2>2. r.pc \in {"try", "gave up", "wait"} /\ r.copy = run[p].copy
      BY <1>f, <2>1 DEF Again, Run, Collect, At
    <2>3. r \in Run /\ SetRun(p, r)
      BY <1>u, <1>2, <2>1 DEF SetRun, ClientInv, ClientTypeOK
    <2> QED BY <1>f, <1>u, <2>2, <2>3, QuietMove
  <1> QED BY <1>1, <1>2 DEF Collect

LEMMA ReadSave ==
  ASSUME ClientInv, SaveInv, NEW p \in Process, ReadHashes(p)
  PROVE  SaveInv'
  <1>f. run[p] \in Run /\ run[p].pc = "read" /\ ~ Saving(p)
    BY DEF ClientInv, ClientTypeOK, ReadHashes, At, Saving
  <1>u. /\ UNCHANGED <<hashes, torn, saved>>
        /\ disturbed' = (disturbed \/ \E q \in Process : Saving(q))
        /\ SetRun(p, [run[p] EXCEPT !.pc = "open", !.copy = ListAllHashes])
    BY DEF ReadHashes, file
  <1>1. PICK r : r = [run[p] EXCEPT !.pc = "open", !.copy = ListAllHashes]
    OBVIOUS
  <1>2. r.pc = "open" /\ r.copy = ListAllHashes /\ r.cid = run[p].cid /\ r.key = run[p].key
    BY <1>f, <1>1 DEF Run
  <1>3. run'[p] = r /\ \A q \in Process \ {p} : run'[q] = run[q]
    BY <1>u, <1>1 DEF ClientInv, ClientTypeOK, SetRun
  <1>4. KeysRight(ListAllHashes)
    BY DEF SaveInv, KeysRight, ListAllHashes, NoHashes, Key
  <1>5. KeysRight(hashes)' /\ \A q \in Process : KeysRight(run'[q].copy)
    BY <1>u, <1>2, <1>3, <1>4 DEF SaveInv, KeysRight
  <1>6. \A q \in Process : run'[q].pc \in {"read", "open", "write"}
                             => run'[q].key \in {run'[q].cid, FileName}
    BY <1>f, <1>2, <1>3 DEF SaveInv
  <1>7. ASSUME ~ disturbed' PROVE SavesOK'
    <2>1. SavesOK /\ \A q \in Process : ~ Saving(q)
      BY <1>u, <1>7 DEF SaveInv
    <2>2. ~ torn /\ \A q \in Process : ~ At(q, "write")
      BY <2>1 DEF SavesOK, At, Saving
    <2>3. r.copy = hashes
      BY <1>2, <2>2 DEF ListAllHashes
    <2>4. \A q \in Process : Named(q)' <=> Named(q)
      BY <1>f, <1>2, <1>3 DEF Named
    <2>5. \A q \in Process : run'[q].cid = run[q].cid
      BY <1>2, <1>3
    <2>6. Owed' = Owed
      BY <1>u, <2>4, <2>5 DEF Owed
    <2>7. \A q \in Process : ~ At(q, "write")' /\ (Saving(q)' => q = p)
      BY <1>2, <1>3, <2>1, <2>2 DEF At, Saving
    <2>8. \A c \in Owed' : hashes'[c] # NoEntry /\ run'[p].copy[c] # NoEntry
      BY <1>3, <1>u, <2>1, <2>3, <2>6 DEF SavesOK
    <2> QED BY <1>u, <2>2, <2>7, <2>8 DEF SavesOK
  <1> QED BY <1>5, <1>6, <1>7 DEF SaveInv, KeysRight

LEMMA OpenSave ==
  ASSUME ClientInv, SaveInv, NEW p \in Process, OpenHashes(p)
  PROVE  SaveInv'
  <1>f. run[p] \in Run /\ run[p].pc = "open" /\ Saving(p)
    BY DEF ClientInv, ClientTypeOK, OpenHashes, At, Saving
  <1>u. /\ UNCHANGED <<hashes, saved, disturbed>>
        /\ SetRun(p, [run[p] EXCEPT !.pc = "write", !.late = FALSE])
    BY DEF OpenHashes, history
  <1>1. PICK r : r = [run[p] EXCEPT !.pc = "write", !.late = FALSE]
    OBVIOUS
  <1>2. /\ r.pc = "write" /\ r.late = FALSE /\ r.copy = run[p].copy
        /\ r.cid = run[p].cid /\ r.key = run[p].key
    BY <1>f, <1>1 DEF Run
  <1>3. run'[p] = r /\ \A q \in Process \ {p} : run'[q] = run[q]
    BY <1>u, <1>1 DEF ClientInv, ClientTypeOK, SetRun
  <1>4. \A q \in Process : /\ run'[q].copy = run[q].copy /\ run'[q].cid = run[q].cid
                           /\ run'[q].key = run[q].key
    BY <1>2, <1>3
  <1>5. KeysRight(hashes)' /\ \A q \in Process : KeysRight(run'[q].copy)
    BY <1>u, <1>4 DEF SaveInv, KeysRight
  <1>6. \A q \in Process : run'[q].pc \in {"read", "open", "write"}
                             => run'[q].key \in {run'[q].cid, FileName}
    BY <1>f, <1>2, <1>3 DEF SaveInv
  <1>7. ASSUME ~ disturbed' PROVE SavesOK'
    <2>1. SavesOK
      BY <1>u, <1>7 DEF SaveInv
    <2>2. \A q \in Process : (Named(q)' <=> Named(q)) /\ (Saving(q)' <=> Saving(q))
      BY <1>f, <1>2, <1>3 DEF Named, Saving
    <2>3. Owed' = Owed
      BY <1>u, <1>4, <2>2 DEF Owed
    <2>4. At(p, "write")'
      BY <1>2, <1>3 DEF At
    <2>5. \A q \in Process : At(q, "write")' => ~ run'[q].late
      BY <1>2, <1>3, <2>1 DEF SavesOK, At
    <2> QED BY <1>u, <1>4, <2>1, <2>2, <2>3, <2>4, <2>5 DEF SavesOK
  <1> QED BY <1>5, <1>6, <1>7 DEF SaveInv, KeysRight

\* The write that nobody disturbs leaves a file with all that is owed.
LEMMA WriteSave ==
  ASSUME ClientInv, SaveInv, NEW p \in Process, WriteHashes(p)
  PROVE  SaveInv'
  <1>f. /\ run[p] \in Run /\ run[p].pc = "write" /\ Saving(p)
        /\ run[p].cid \in Cid /\ run[p].key \in Key /\ run[p].copy \in Hashes
        /\ run[p].key \in {run[p].cid, FileName} /\ KeysRight(run[p].copy)
    BY DEF ClientInv, ClientTypeOK, WriteHashes, At, Saving, Run, RunOK, SaveInv
  <1> DEFINE named == run[p].key = FileName
  <1>u. /\ torn' \in {FALSE, run[p].late} /\ disturbed' = disturbed
        /\ saved' = IF named THEN saved \cup {run[p].cid} ELSE saved
    BY DEF WriteHashes
  <1>1. PICK n \in run[p].asked :
          hashes' = [run[p].copy EXCEPT ![run[p].key] = [cid |-> run[p].cid, node |-> n]]
    BY DEF WriteHashes
  <1>2. n \in Node /\ [cid |-> run[p].cid, node |-> n] # NoEntry
    BY <1>f, <1>1, ClientAssumption DEF Run
  <1>3. \A c \in Cid : hashes'[c] = IF c = run[p].key THEN [cid |-> run[p].cid, node |-> n]
                                    ELSE run[p].copy[c]
    BY <1>f, <1>1 DEF Hashes, Key
  <1>4. run' = [q \in Process |->
           IF q # p     THEN [run[q] EXCEPT !.late = @ \/ At(q, "write")]
           ELSE IF named THEN End("stored")
           ELSE [NoRun EXCEPT !.pc = "read", !.cid = run[p].cid, !.asked = run[p].asked]]
    BY DEF WriteHashes
  <1> HIDE DEF named
  <1>5. ASSUME NEW q \in Process \ {p}
        PROVE  /\ run'[q].pc = run[q].pc /\ run'[q].cid = run[q].cid
               /\ run'[q].key = run[q].key /\ run'[q].copy = run[q].copy
    <2>1. run[q] \in Run
      BY DEF ClientInv, ClientTypeOK
    <2> QED BY <1>4, <2>1 DEF Run
  <1>6. /\ run'[p].copy = NoHashes /\ run'[p].pc \notin {"open", "write"}
        /\ ~ named => run'[p].cid = run[p].cid /\ run'[p].key = FileName
        /\ named => run'[p].pc = "stored"
    <2>1. CASE named
      BY <1>4, <2>1 DEF End, NoRun
    <2>2. CASE ~ named
      <3>1. run'[p] = [NoRun EXCEPT !.pc = "read", !.cid = run[p].cid, !.asked = run[p].asked]
        BY <1>4, <2>2
      <3> QED BY <2>2, <3>1 DEF NoRun
    <2> QED BY <2>1, <2>2
  <1>n. KeysRight(NoHashes)
    BY DEF KeysRight, NoHashes, Key
  <1>7. KeysRight(hashes')
    BY <1>f, <1>3, ClientAssumption DEF KeysRight
  <1>8. \A q \in Process : KeysRight(run'[q].copy)
    BY <1>5, <1>6, <1>n DEF SaveInv
  <1>9. \A q \in Process : run'[q].pc \in {"read", "open", "write"}
                             => run'[q].key \in {run'[q].cid, FileName}
    BY <1>5, <1>6 DEF SaveInv
  <1>10. ASSUME ~ disturbed' PROVE SavesOK'
    <2>1. SavesOK
      BY <1>u, <1>10 DEF SaveInv
    <2>2. \A q \in Process : ~ Saving(q)'
      BY <1>f, <1>5, <1>6, <2>1 DEF SavesOK, Saving
    <2>3. ~ torn' /\ \A q \in Process : ~ At(q, "write")'
      BY <1>f, <1>u, <2>1, <2>2 DEF SavesOK, At, Saving
    <2>4. \A q \in Process \ {p} : Named(q)' => Named(q)
      BY <1>5 DEF Named
    <2>5. Owed' \subseteq Owed \cup {run[p].cid}
      <3>1. \A q \in Process : Named(q)' => run'[q].cid \in Owed \cup {run[p].cid}
        <4>1. ASSUME NEW q \in Process \ {p}, Named(q)' PROVE run'[q].cid \in Owed
          BY <1>5, <2>4, <4>1 DEF Owed
        <4>2. ASSUME Named(p)' PROVE run'[p].cid = run[p].cid
          BY <1>6, <4>2 DEF Named
        <4> QED BY <4>1, <4>2
      <3>2. saved' \subseteq Owed \cup {run[p].cid}
        BY <1>u DEF Owed
      <3> QED BY <3>1, <3>2 DEF Owed
    <2>6. \A c \in Owed : run[p].copy[c] # NoEntry
      BY <1>f, <2>1 DEF SavesOK
    <2>7. named => run[p].cid \in Owed
      BY <1>f DEF Owed, Named, named
    <2>8. Owed' \subseteq Cid
      <3>1. saved \subseteq Cid
        BY DEF ClientInv, ClientTypeOK
      <3>2. \A q \in Process : Named(q) => run[q].cid \in Cid
        BY DEF ClientInv, RunOK, Named
      <3> QED BY <1>f, <2>5, <3>1, <3>2 DEF Owed
    <2>9. ASSUME NEW c \in Owed' PROVE hashes'[c] # NoEntry
      <3>1. c \in Cid /\ c \in Owed \cup {run[p].cid}
        BY <2>5, <2>8
      <3>2. CASE c = run[p].key
        BY <1>2, <1>3, <3>1, <3>2
      <3>3. CASE c # run[p].key
        <4>1. c \in Owed
          BY <1>f, <2>7, <3>1, <3>3 DEF named
        <4> QED BY <1>3, <2>6, <3>1, <3>3, <4>1
      <3> QED BY <3>2, <3>3
    <2> QED BY <2>2, <2>3, <2>9 DEF SavesOK
  <1> QED BY <1>7, <1>8, <1>9, <1>10 DEF SaveInv, KeysRight

LEMMA SaveInit == ClientInit => SaveInv
  <1> SUFFICES ASSUME ClientInit PROVE SaveInv
    OBVIOUS
  <1>1. KeysRight(NoHashes)
    BY DEF KeysRight, NoHashes, Key
  <1>2. \A p \in Process : run[p].pc = "idle" /\ run[p].copy = NoHashes
    BY DEF ClientInit, NoRun
  <1>3. \A p \in Process : ~ Saving(p) /\ ~ At(p, "write") /\ ~ Named(p)
    BY <1>2 DEF Saving, At, Named
  <1>4. Owed = {}
    BY <1>3 DEF Owed, ClientInit
  <1>5. SavesOK
    BY <1>3, <1>4 DEF SavesOK, ClientInit
  <1> QED BY <1>1, <1>2, <1>5 DEF SaveInv, ClientInit

LEMMA SaveNext == ClientInv /\ SaveInv /\ [ClientNext]_client => SaveInv'
  <1> SUFFICES ASSUME ClientInv, SaveInv, [ClientNext]_client
               PROVE  SaveInv'
    OBVIOUS
  <1>1. CASE UNCHANGED client
    <2>1. UNCHANGED <<run, hashes, torn, saved, disturbed>>
      BY <1>1 DEF client, file, history
    <2> QED BY <2>1 DEF SaveInv, SavesOK, KeysRight, Owed, Named, Saving, At
  <1>2. ASSUME NEW p \in Process,
               \/ \E c \in Cid : Put(p, c) \/ Get(p, c) \/ Delete(p, c)
               \/ Try(p) \/ FailSave(p) \/ Retrieve(p) \/ DeleteOnce(p) \/ KillProcess(p)
        PROVE  SaveInv'
    BY <1>2, CallsSave
  <1>3. ASSUME NEW p \in Process,
               Collect(p) \/ ReadHashes(p) \/ OpenHashes(p) \/ WriteHashes(p)
        PROVE  SaveInv'
    BY <1>3, CollectSave, ReadSave, OpenSave, WriteSave
  <1>4. ASSUME NEW m \in mail, Serve(m) \/ Fail(m) PROVE SaveInv'
    <2>1. UNCHANGED <<hashes, torn, saved, disturbed>>
      BY <1>4 DEF Serve, Fail, file, history
    <2>2. PICK ok \in BOOLEAN : Learn(m, ok)
      BY <1>4 DEF Serve, Fail
    <2> QED BY <2>1, <2>2, LearnSave
  <1> QED BY <1>1, <1>2, <1>3, <1>4 DEF ClientNext

\* save_hash_mapping: as long as no save meets another and none is cut short, the file
\* has an entry for every CID that put reported, however many processes share it.
THEOREM SavesAreKept == ClientSpec => []KeepsWhenAlone
  <1>1. ASSUME ClientInv, SaveInv, ~ disturbed, \A p \in Process : ~ Saving(p), NEW c \in saved
        PROVE  Lookup(c) # {}
    <2>1. SavesOK /\ c \in Cid
      BY <1>1 DEF SaveInv, ClientInv, ClientTypeOK
    <2>2. ~ torn /\ hashes[c] # NoEntry
      BY <1>1, <2>1 DEF SavesOK, Saving, At, Owed
    <2>3. hashes[c].cid = c
      BY <1>1, <2>1, <2>2 DEF SaveInv, KeysRight
    <2>4. c \in Lookup(c)
      BY <2>1, <2>2, <2>3 DEF Lookup, ListAllHashes, Key
    <2> QED BY <2>4
  <1>2. ClientInv /\ SaveInv => KeepsWhenAlone
    BY <1>1 DEF KeepsWhenAlone
  <1> QED BY <1>2, InitInv, StepInv, SaveInit, SaveNext, PTL DEF ClientSpec
=============================================================================
