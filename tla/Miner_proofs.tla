---------------------------- MODULE Miner_proofs ----------------------------
(***************************************************************************)
(* Proofs about Miner, for every set of callers, hashes and request slots. *)
(***************************************************************************)
EXTENDS Miner, TLAPS

-----------------------------------------------------------------------------
(* Facts about the data                                                    *)

\* The dictionary without keys is metadata.
LEMMA EmptyMdType == EmptyMd \in Md
  BY DEF EmptyMd, Md, Path

\* Taken over by any caller, a row from before 1.5.3 is metadata of its hash.
LEMMA LegacyRowType ==
  ASSUME NEW h \in Hash, LegacyOwner[h] # None
  PROVE  /\ LegacyRow(h) \in OldMd
         /\ LegacyRow(h).hotkey \in Hotkey
         /\ NewMd(LegacyRow(h)) \in Md
         /\ \A hk \in Hotkey : OwnMd(NewMd(LegacyRow(h)), h, hk)
  BY LegacyAssumption
     DEF LegacyRow, OldMd, NewMd, Md, OwnMd, Provenance, Path, File, Seed

\* A free slot is in order.
LEMMA IdleOK == IdleRequest \in Request /\ RequestOK(IdleRequest)
  <1>1. (CHOOSE h \in Hash : TRUE) \in Hash
    BY HashAssumption
  <1>2. IdleRequest \in Request
    BY <1>1, EmptyMdType
       DEF IdleRequest, Request, Pc, Op, Status
  <1>3. ControlOK(IdleRequest)
    BY DEF IdleRequest, ControlOK, StorePc, LookupPc, ConvertPc
  <1>4. CarriesOK(IdleRequest)
    BY DEF IdleRequest, CarriesOK, Provenance
  <1>5. ~MayIndex(IdleRequest)
    BY DEF IdleRequest, MayIndex, Reads
  <1> QED BY <1>2, <1>3, <1>4, <1>5 DEF RequestOK

\* A step that moves the coroutine of r to q and loses no file keeps every
\* request in order.
LEMMA RequestStep ==
  ASSUME IndexInv, NEW r \in Req, NEW q \in Request, Become(r, q),
         files \subseteq files', RequestOK(q)'
  PROVE  (req \in [Req -> Request] /\ \A s \in Req : RequestOK(req[s]))'
  <1>1. req' \in [Req -> Request]
    BY DEF IndexInv, TypeOK, Become
  <1>2. ASSUME NEW s \in Req PROVE RequestOK(req[s])'
    <2>1. CASE s = r
      BY <2>1 DEF Become, IndexInv, TypeOK
    <2>2. CASE s # r
      <3>1. req'[s] = req[s]
        BY <2>2 DEF Become, IndexInv, TypeOK
      <3>2. RequestOK(req[s])
        BY DEF IndexInv
      <3> QED BY <3>1, <3>2
           DEF RequestOK, OnDisk, ControlOK, CarriesOK, MayIndex
    <2> QED BY <2>1, <2>2
  <1> QED BY <1>1, <1>2

\* A step that only moves the coroutine of r to q.
LEMMA PureStep ==
  ASSUME IndexInv, NEW r \in Req, NEW q \in Request, Become(r, q),
         UNCHANGED <<redis, files, acked>>, RequestOK(q)
  PROVE  IndexInv'
  <1>1. RequestOK(q)'
    BY DEF RequestOK, OnDisk, ControlOK, CarriesOK, MayIndex
  <1>2. (req \in [Req -> Request] /\ \A s \in Req : RequestOK(req[s]))'
    BY <1>1, RequestStep
  <1>3. (LegacyOK /\ EntryOK /\ AckedOK)'
    BY DEF IndexInv, LegacyOK, EntryOK, AckedOK, OnDisk, redis
  <1> QED BY <1>2, <1>3 DEF IndexInv, TypeOK, redis

\* A step that writes md into the field (h, hk) of the index.
LEMMA WriteStep ==
  ASSUME IndexInv, NEW r \in Req, NEW q \in Request, Become(r, q),
         NEW h \in Hash, NEW hk \in Hotkey, NEW md \in Md,
         entry' = [entry EXCEPT ![h][hk] = md],
         UNCHANGED <<legacy, files, acked>>,
         OwnMd(md, h, hk), OnDisk(h, hk), RequestOK(q)
  PROVE  IndexInv'
  <1>1. RequestOK(q)'
    BY DEF RequestOK, OnDisk, ControlOK, CarriesOK, MayIndex
  <1>2. (req \in [Req -> Request] /\ \A s \in Req : RequestOK(req[s]))'
    BY <1>1, RequestStep
  <1>3. (LegacyOK /\ AckedOK)'
    BY DEF IndexInv, LegacyOK, AckedOK, OnDisk
  <1>4. entry' \in [Hash -> [Hotkey -> Md \cup {NoMd}]]
    BY DEF IndexInv, TypeOK
  <1>5. EntryOK'
    <2> SUFFICES ASSUME NEW g \in Hash, NEW k \in Hotkey, entry'[g][k] # NoMd
                 PROVE  OwnMd(entry'[g][k], g, k) /\ OnDisk(g, k)'
      BY DEF EntryOK, OwnMd
    <2>1. CASE g = h /\ k = hk
      BY <2>1 DEF IndexInv, TypeOK, OnDisk
    <2>2. CASE ~(g = h /\ k = hk)
      <3>1. entry'[g][k] = entry[g][k]
        BY <2>2 DEF IndexInv, TypeOK
      <3> QED BY <3>1 DEF IndexInv, EntryOK, OnDisk
    <2> QED BY <2>1, <2>2
  <1> QED BY <1>2, <1>3, <1>4, <1>5 DEF IndexInv, TypeOK

-----------------------------------------------------------------------------
(* One lemma per group of actions                                          *)

\* What the invariant says about one request, with its type.
LEMMA RequestFacts ==
  ASSUME IndexInv, NEW r \in Req
  PROVE  /\ req[r] \in Request /\ RequestOK(req[r])
         /\ entry \in [Hash -> [Hotkey -> Md \cup {NoMd}]]
         /\ legacy \in [Hash -> OldMd \cup {NoMd}]
  BY DEF IndexInv, TypeOK

\* Arrivals put a request into its first state.
LEMMA ArrivalStep ==
  ASSUME IndexInv, NEW r \in Req, Receive(r) \/ Migrate(r)
  PROVE  IndexInv'
  <1>1. CASE Receive(r)
    <2>1. PICK op \in Op \ {"migrate"}, h \in Hash :
            \E hk \in IF op = "store" THEN Storers[h] ELSE Readers[h] :
              Become(r, [IdleRequest EXCEPT
                         !.pc = IF op = "store" THEN "st_hexists"
                                                ELSE "gm_hgetall",
                         !.op = op, !.hk = hk, !.h = h])
      BY <1>1 DEF Receive
    <2>2. PICK hk \in Hotkey :
              Become(r, [IdleRequest EXCEPT
                         !.pc = IF op = "store" THEN "st_hexists"
                                                ELSE "gm_hgetall",
                         !.op = op, !.hk = hk, !.h = h])
      BY <2>1, StorersAssumption, ReadersAssumption
    <2> DEFINE q == [IdleRequest EXCEPT
                         !.pc = IF op = "store" THEN "st_hexists"
                                                ELSE "gm_hgetall",
                         !.op = op, !.hk = hk, !.h = h]
    <2>3. q \in Request
      <3>1. /\ (IF op = "store" THEN "st_hexists" ELSE "gm_hgetall") \in Pc
            /\ op \in Op
        BY DEF Pc, StorePc, LookupPc
      <3> QED BY <3>1, IdleOK DEF Request
    <2>4. ControlOK(q)
      BY DEF ControlOK, IdleRequest, StorePc, LookupPc, ConvertPc, Op, Reads
    <2>5. CarriesOK(q)
      BY DEF CarriesOK, IdleRequest, Provenance
    <2>6. ~MayIndex(q)
      BY DEF MayIndex, IdleRequest, UpdatePc, ConvertPc
    <2>7. RequestOK(q)
      BY <2>4, <2>5, <2>6 DEF RequestOK
    <2> HIDE DEF q
    <2> QED BY <1>1, <2>2, <2>3, <2>7, PureStep DEF Receive, q
  <1>2. CASE Migrate(r)
    <2>1. PICK h \in Hash :
            Become(r, [IdleRequest EXCEPT !.pc = "mg_hgetall",
                                          !.op = "migrate", !.h = h])
      BY <1>2 DEF Migrate
    <2> DEFINE q == [IdleRequest EXCEPT !.pc = "mg_hgetall",
                                        !.op = "migrate", !.h = h]
    <2>2. q \in Request
      BY IdleOK DEF Request, Pc, Op
    <2>3. ControlOK(q) /\ CarriesOK(q) /\ ~MayIndex(q)
      BY DEF ControlOK, CarriesOK, MayIndex, IdleRequest, StorePc, LookupPc,
             ConvertPc, Reads, Provenance
    <2>4. RequestOK(q)
      BY <2>3 DEF RequestOK
    <2> HIDE DEF q
    <2> QED BY <1>2, <2>1, <2>2, <2>4, PureStep DEF Migrate, q
  <1> QED BY <1>1, <1>2

\* The store handler, up to its write of a new field.
LEMMA StoreStep ==
  ASSUME IndexInv, NEW r \in Req, Store(r)
  PROVE  IndexInv'
  <1>f. /\ req[r] \in Request /\ RequestOK(req[r])
        /\ entry \in [Hash -> [Hotkey -> Md \cup {NoMd}]]
    BY RequestFacts
  <1>1. CASE StHexists(r)
    <2>1. PICK pc \in {"st_save", "st_getpath"} :
            /\ Become(r, [req[r] EXCEPT !.pc = pc])
            /\ pc = "st_getpath" => Field(r) # NoMd
      BY <1>1 DEF StHexists, Goto
    <2> DEFINE q == [req[r] EXCEPT !.pc = pc]
    <2>2. q \in Request
      BY <1>f DEF Request, Pc, StorePc
    <2>3. ControlOK(q) /\ CarriesOK(q)
      BY <1>1, <1>f DEF StHexists, At, RequestOK, ControlOK, CarriesOK, Request,
             StorePc, LookupPc, ConvertPc
    <2>4. MayIndex(q) => OnDisk(q.h, q.hk)
      BY <1>1, <1>f, <2>1
         DEF StHexists, At, Field, MayIndex, Request, RequestOK, ControlOK,
             StorePc, IndexInv, EntryOK, Reads, UpdatePc, ConvertPc
    <2>5. RequestOK(q)
      BY <2>3, <2>4 DEF RequestOK
    <2> HIDE DEF q
    <2> QED BY <1>1, <2>1, <2>2, <2>5, PureStep DEF StHexists, q
  <1>2. CASE StSave(r)
    <2> DEFINE path == Dir(req[r].hk, req[r].h)
    <2>0. PICK q : q = [req[r] EXCEPT !.pc = "st_exists", !.data.path = path]
      OBVIOUS
    <2>1. req[r].hk \in Hotkey /\ req[r].h \in Hash
      BY <1>2, <1>f DEF StSave, At, RequestOK, ControlOK, StorePc, Request
    <2>2. q \in Request
      <3>1. [req[r].data EXCEPT !.path = path] \in Md
        BY <1>f, <2>1 DEF Request, Md, Path, File
      <3>2. "st_exists" \in Pc
        BY DEF Pc, StorePc
      <3> QED BY <1>f, <2>0, <3>1, <3>2 DEF Request
    <2>3. ControlOK(q)
      BY <1>2, <1>f, <2>0 DEF StSave, At, RequestOK, ControlOK, Request, StorePc,
             LookupPc, ConvertPc
    <2>4. CarriesOK(q)
      <3>1. OwnMd(q.data, q.h, q.hk) /\ q.data.path # NoPath
        BY <1>f, <2>0 DEF Request, RequestOK, CarriesOK, OwnMd, Md, EmptyMd,
               Provenance, Dir, NoPath
      <3>2. q.proof = req[r].proof /\ q.old = req[r].old /\ q.h = req[r].h
              /\ q.hk = req[r].hk
        BY <1>f, <2>0 DEF Request
      <3> QED BY <1>f, <3>1, <3>2 DEF RequestOK, CarriesOK
    <2>5. OnDisk(q.h, q.hk)'
      BY <1>2, <1>f, <2>0 DEF StSave, OnDisk, Request
    <2>6. RequestOK(q)'
      BY <2>3, <2>4, <2>5 DEF RequestOK, ControlOK, CarriesOK, MayIndex
    <2>7. files \subseteq files' /\ files' \subseteq File
      BY <1>2, <2>1 DEF StSave, File, IndexInv, TypeOK
    <2>8. Become(r, q) /\ UNCHANGED <<redis, acked>>
      BY <1>2, <2>0 DEF StSave
    <2>9. (req \in [Req -> Request] /\ \A s \in Req : RequestOK(req[s]))'
      BY <2>2, <2>6, <2>7, <2>8, RequestStep
    <2>10. (LegacyOK /\ EntryOK /\ AckedOK)'
      BY <2>7, <2>8 DEF IndexInv, LegacyOK, EntryOK, AckedOK, OnDisk, redis
    <2> QED BY <2>7, <2>8, <2>9, <2>10 DEF IndexInv, TypeOK, redis
  <1>3. CASE StGetFilepath(r)
    <2> DEFINE md == Field(r)
               path == IF md = NoMd THEN EmptyPath ELSE md.path
               q == [req[r] EXCEPT !.pc = "st_exists", !.data.path = path]
    <2>1. req[r].hk \in Hotkey /\ req[r].h \in Hash
      BY <1>3, <1>f DEF StGetFilepath, At, RequestOK, ControlOK, StorePc,
             Request
    <2>2. path \in {Dir(req[r].hk, req[r].h), Flat(req[r].h), EmptyPath}
      BY <2>1 DEF IndexInv, EntryOK, OwnMd, Field
    <2>3. q \in Request
      <3>1. path \in Path
        BY <1>f, <2>1, <2>2 DEF Path, File
      <3>2. [req[r].data EXCEPT !.path = path] \in Md
        BY <1>f, <3>1 DEF Request, Md
      <3>3. "st_exists" \in Pc
        BY DEF Pc, StorePc
      <3> QED BY <1>f, <3>2, <3>3 DEF Request
    <2>4. ControlOK(q)
      BY <1>3, <1>f DEF StGetFilepath, At, RequestOK, ControlOK, Request,
             StorePc, LookupPc, ConvertPc
    <2>5. CarriesOK(q)
      <3>1. q.data.path = path /\ q.data.seed = req[r].data.seed
        BY <1>f DEF Request, Md
      <3>2. q.proof = req[r].proof /\ q.old = req[r].old /\ q.h = req[r].h
              /\ q.hk = req[r].hk
        BY <1>f DEF Request
      <3>3. Provenance(req[r].data.seed, req[r].h, req[r].hk)
        BY <1>f DEF RequestOK, CarriesOK, OwnMd, EmptyMd, Provenance
      <3> QED BY <1>f, <2>2, <3>1, <3>2, <3>3
           DEF RequestOK, CarriesOK, OwnMd, Dir, Flat, EmptyPath, NoPath
    <2>6. OnDisk(q.h, q.hk)
      BY <1>3, <1>f DEF StGetFilepath, At, RequestOK, ControlOK, MayIndex,
             Request, StorePc
    <2>7. RequestOK(q)
      BY <2>4, <2>5, <2>6 DEF RequestOK
    <2>8. Become(r, q) /\ UNCHANGED <<redis, files, acked>>
      BY <1>3 DEF StGetFilepath
    <2> HIDE DEF q
    <2> QED BY <2>3, <2>7, <2>8, PureStep
  <1>4. CASE StExists(r)
    <2>1. PICK pc \in {"st_new", "st_hget"} :
            Become(r, [req[r] EXCEPT !.pc = pc])
      BY <1>4 DEF StExists, Goto
    <2> DEFINE q == [req[r] EXCEPT !.pc = pc]
    <2>2. q \in Request
      BY <1>f DEF Request, Pc, StorePc
    <2>3. ControlOK(q) /\ CarriesOK(q)
      BY <1>4, <1>f DEF StExists, At, RequestOK, ControlOK, CarriesOK, Request,
             StorePc, LookupPc, ConvertPc
    <2>4. OnDisk(q.h, q.hk)
      BY <1>4, <1>f DEF StExists, At, RequestOK, ControlOK, MayIndex, Request,
             StorePc
    <2>5. RequestOK(q)
      BY <2>3, <2>4 DEF RequestOK
    <2> HIDE DEF q
    <2> QED BY <1>4, <2>1, <2>2, <2>5, PureStep DEF StExists, q
  <1>5. CASE StHget(r)
    <2>1. req[r].op = "store" /\ req[r].hk \in Hotkey /\ req[r].pc = "st_hget"
      BY <1>5, <1>f DEF StHget, At, RequestOK, ControlOK, StorePc, Request
    <2>2. OnDisk(req[r].h, req[r].hk)
      BY <1>f, <2>1 DEF RequestOK, MayIndex
    <2>3. ASSUME NEW to \in Hotkey \cup {None}, NEW ret, NEW pc,
                 \/ pc = "cv_hgetall" /\ ret = "old_hgetall"
                 \/ pc = "old_hgetall" /\ to = req[r].hk /\ ret = req[r].ret,
                 Become(r, [req[r] EXCEPT !.pc = pc, !.to = to, !.ret = ret,
                                          !.data = EmptyMd])
          PROVE  IndexInv'
      <3> DEFINE q == [req[r] EXCEPT !.pc = pc, !.to = to, !.ret = ret,
                                     !.data = EmptyMd]
      <3>0. pc \in Pc
        BY <2>3 DEF Pc, ConvertPc, UpdatePc
      <3>1. q \in Request
        BY <1>f, <2>3, <3>0, EmptyMdType DEF Request
      <3>2. ControlOK(q) /\ CarriesOK(q)
        BY <1>f, <2>1, <2>3 DEF RequestOK, ControlOK, CarriesOK, Request,
               StorePc, LookupPc, ConvertPc, UpdatePc
      <3>3. RequestOK(q)
        BY <1>f, <2>2, <3>1, <3>2 DEF RequestOK, Request
      <3> HIDE DEF q
      <3> QED BY <1>5, <2>3, <3>1, <3>3, PureStep DEF q, StHget
    <2>4. CASE Field(r) = NoMd
      BY <1>5, <2>3, <2>4 DEF StHget, CallConvert
    <2>5. CASE Field(r) # NoMd
      <3>1. CallUpdate(req[r]) =
              [req[r] EXCEPT !.pc = "old_hgetall", !.to = req[r].hk,
                             !.ret = req[r].ret, !.data = EmptyMd]
        BY <1>f DEF CallUpdate, Request
      <3>2. Become(r, [req[r] EXCEPT !.pc = "old_hgetall", !.to = req[r].hk,
                             !.ret = req[r].ret, !.data = EmptyMd])
        BY <1>5, <2>5, <3>1 DEF StHget
      <3> QED BY <2>1, <2>3, <3>2
    <2> QED BY <2>4, <2>5
  <1>6. CASE StNew(r)
    <2> DEFINE q == [req[r] EXCEPT !.pc = "done", !.status = "ok",
                                   !.data = EmptyMd]
               md == [path |-> req[r].data.path, seed |-> CallerSeed(r)]
    <2>1. req[r].hk \in Hotkey /\ req[r].h \in Hash /\ req[r].op = "store"
            /\ req[r].pc = "st_new"
      BY <1>6, <1>f DEF StNew, At, RequestOK, ControlOK, StorePc, Request
    <2>2. OnDisk(req[r].h, req[r].hk)
      BY <1>f, <2>1 DEF RequestOK, MayIndex
    <2>3. OwnMd(md, req[r].h, req[r].hk) /\ md \in Md
      BY <1>f, <2>1 DEF RequestOK, CarriesOK, OwnMd, EmptyMd, Provenance,
             CallerSeed, Md, Path, File, Seed, Request
    <2>4. q \in Request
      BY <1>f, EmptyMdType DEF Request, Pc, Status
    <2>5. ControlOK(q) /\ CarriesOK(q)
      BY <1>f, <2>1 DEF RequestOK, ControlOK, CarriesOK, Request, StorePc,
             LookupPc, ConvertPc
    <2>6. RequestOK(q)
      BY <1>f, <2>2, <2>5 DEF RequestOK, Request
    <2>7. /\ Become(r, q) /\ UNCHANGED <<legacy, files, acked>>
          /\ entry' = [entry EXCEPT ![req[r].h][req[r].hk] = md]
      BY <1>6 DEF StNew, Finish
    <2> HIDE DEF q, md
    <2> QED BY <2>1, <2>2, <2>3, <2>4, <2>6, <2>7, WriteStep
  <1> QED BY <1>1, <1>2, <1>3, <1>4, <1>5, <1>6 DEF Store

\* is_old_version and update_seed_info, for the handlers and the migration.
LEMMA UpdateStep ==
  ASSUME IndexInv, NEW r \in Req, UpdateSeedInfo(r)
  PROVE  IndexInv'
  <1>f. /\ req[r] \in Request /\ RequestOK(req[r])
        /\ entry \in [Hash -> [Hotkey -> Md \cup {NoMd}]]
        /\ legacy \in [Hash -> OldMd \cup {NoMd}]
    BY RequestFacts
  <1>d. req[r].op # "migrate" /\ req[r].pc \in UpdatePc
          => req[r].hk \in Hotkey /\ OnDisk(req[r].h, req[r].hk)
    BY <1>f DEF RequestOK, ControlOK, MayIndex, UpdatePc, Request, Op, Reads
  <1>1. CASE MgHgetall(r) /\ legacy[req[r].h] = NoMd
    <2> DEFINE q == [req[r] EXCEPT !.pc = "done", !.status = "ok",
                                   !.data = EmptyMd]
    <2>1. q \in Request
      BY <1>f, EmptyMdType DEF Request, Pc, Status
    <2>2. ControlOK(q) /\ CarriesOK(q) /\ ~MayIndex(q)
      BY <1>1, <1>f DEF MgHgetall, At, RequestOK, ControlOK, CarriesOK,
             MayIndex, Request, StorePc, LookupPc, ConvertPc, Reads
    <2>3. RequestOK(q)
      BY <2>2 DEF RequestOK
    <2>4. Become(r, q) /\ UNCHANGED <<redis, files, acked>>
      BY <1>1 DEF MgHgetall, Finish
    <2> HIDE DEF q
    <2> QED BY <2>1, <2>3, <2>4, PureStep
  <1>2. CASE MgHgetall(r) /\ legacy[req[r].h] # NoMd
    <2> DEFINE to == legacy[req[r].h].hotkey
               q == [req[r] EXCEPT !.pc = "old_hgetall", !.to = to]
    <2>1. to \in Hotkey
      BY <1>2, <1>f DEF OldMd, Request
    <2>2. q \in Request
      BY <1>f, <2>1 DEF Request, Pc, UpdatePc
    <2>3. ControlOK(q) /\ CarriesOK(q) /\ ~MayIndex(q)
      BY <1>2, <1>f, <2>1 DEF MgHgetall, At, RequestOK, ControlOK, CarriesOK,
             MayIndex, Request, StorePc, LookupPc, ConvertPc, UpdatePc, Reads
    <2>4. RequestOK(q)
      BY <2>3 DEF RequestOK
    <2>5. Become(r, q) /\ UNCHANGED <<redis, files, acked>>
      BY <1>2 DEF MgHgetall
    <2> HIDE DEF q
    <2> QED BY <2>2, <2>4, <2>5, PureStep
  <1>3. CASE OldHgetall(r) \/ (OldHget(r) /\ entry[req[r].h][req[r].to] # NoMd)
    <2>1. PICK pc \in {NotOldPc(r), "old_hget"} :
            /\ Become(r, [req[r] EXCEPT !.pc = pc])
            /\ UNCHANGED <<redis, files, acked>>
      BY <1>3 DEF OldHgetall, OldHget, Goto
    <2> DEFINE q == [req[r] EXCEPT !.pc = pc]
    <2>2. req[r].pc \in {"old_hgetall", "old_hget"} /\ req[r].to \in Hotkey
      BY <1>3, <1>f DEF OldHgetall, OldHget, At, RequestOK, ControlOK
    <2>3. q \in Request
      BY <1>f DEF Request, Pc, UpdatePc, NotOldPc
    <2>4. ControlOK(q) /\ CarriesOK(q)
      BY <1>f, <2>2 DEF RequestOK, ControlOK, CarriesOK, Request, StorePc,
             LookupPc, ConvertPc, NotOldPc
    <2>5. MayIndex(q) => OnDisk(q.h, q.hk)
      BY <1>f, <1>d, <2>2 DEF MayIndex, Request, UpdatePc, Reads
    <2>6. RequestOK(q)
      BY <2>4, <2>5 DEF RequestOK
    <2> HIDE DEF q
    <2> QED BY <2>1, <2>3, <2>6, PureStep DEF q
  <1>4. CASE OldHget(r) /\ entry[req[r].h][req[r].to] = NoMd
    <2> DEFINE q == [req[r] EXCEPT !.pc = "cv_hgetall", !.to = req[r].hk,
                                   !.ret = NotOldPc(r), !.data = EmptyMd]
    <2>1. req[r].pc = "old_hget"
      BY <1>4 DEF OldHget, At
    <2>2. q \in Request
      <3>1. /\ NotOldPc(r) \in {"old_hgetall", "up_hget", "gm_read", "done"}
            /\ "cv_hgetall" \in Pc
        BY DEF NotOldPc, Pc, ConvertPc
      <3> QED BY <1>f, <3>1, EmptyMdType DEF Request
    <2>3. ControlOK(q) /\ CarriesOK(q)
      <3>1. /\ q.pc = "cv_hgetall" /\ q.op = req[r].op /\ q.hk = req[r].hk
            /\ q.ret = NotOldPc(r) /\ q.data = EmptyMd
            /\ q.h = req[r].h /\ q.old = req[r].old /\ q.proof = req[r].proof
        BY <1>f DEF Request
      <3>2. ControlOK(q)
        BY <1>f, <1>d, <2>1, <3>1
           DEF ControlOK, StorePc, LookupPc, ConvertPc, UpdatePc, NotOldPc,
               Request, Op, Reads
      <3>3. CarriesOK(q)
        BY <1>f, <3>1 DEF RequestOK, CarriesOK
      <3> QED BY <3>2, <3>3
    <2>4. MayIndex(q) => OnDisk(q.h, q.hk)
      BY <1>f, <1>d, <2>1 DEF MayIndex, Request, UpdatePc, Reads
    <2>5. RequestOK(q)
      BY <2>3, <2>4 DEF RequestOK
    <2>6. Become(r, q) /\ UNCHANGED <<redis, files, acked>>
      BY <1>4 DEF OldHget, CallConvert
    <2> HIDE DEF q
    <2> QED BY <2>2, <2>5, <2>6, PureStep
  <1>5. CASE UpHget(r)
    <2> DEFINE md == UpdatedMd(Field(r), CallerSeed(r))
               q == [req[r] EXCEPT !.pc = "up_hset", !.data = md]
    <2>1. /\ req[r].pc = "up_hget" /\ req[r].op # "migrate"
          /\ req[r].hk \in Hotkey /\ req[r].h \in Hash
      BY <1>5, <1>f DEF UpHget, At, RequestOK, ControlOK, Request
    <2>2. md \in Md /\ OwnMd(md, req[r].h, req[r].hk) /\ md.path # NoPath
      <3>1. CASE Field(r) = NoMd
        BY <2>1, <3>1 DEF UpdatedMd, CallerSeed, Md, OwnMd, Provenance, Seed,
               Path, EmptyPath, NoPath
      <3>2. CASE Field(r) # NoMd
        <4>1. Field(r) \in Md /\ OwnMd(Field(r), req[r].h, req[r].hk)
          BY <1>f, <2>1, <3>2 DEF Field, IndexInv, EntryOK
        <4>2. md = [Field(r) EXCEPT !.seed = CallerSeed(r)]
          BY <3>2 DEF UpdatedMd
        <4>3. CallerSeed(r) \in Seed
          BY <2>1 DEF CallerSeed, Seed
        <4>4. md \in Md /\ md.path = Field(r).path /\ md.seed = CallerSeed(r)
          BY <4>1, <4>2, <4>3 DEF Md
        <4> QED BY <4>1, <4>4 DEF OwnMd, Provenance, CallerSeed, Dir, Flat,
                 EmptyPath, NoPath
      <3> QED BY <3>1, <3>2
    <2>3. q \in Request
      BY <1>f, <2>2 DEF Request, Pc, UpdatePc
    <2>4. ControlOK(q)
      BY <1>f, <2>1 DEF RequestOK, ControlOK, Request, StorePc, LookupPc,
             ConvertPc
    <2>5. CarriesOK(q)
      BY <1>f, <2>2 DEF RequestOK, CarriesOK, Request
    <2>6. MayIndex(q) => OnDisk(q.h, q.hk)
      BY <1>f, <1>d, <2>1 DEF MayIndex, Request, UpdatePc
    <2>7. RequestOK(q)
      BY <2>4, <2>5, <2>6 DEF RequestOK
    <2>8. Become(r, q) /\ UNCHANGED <<redis, files, acked>>
      BY <1>5 DEF UpHget
    <2> HIDE DEF q
    <2> QED BY <2>3, <2>7, <2>8, PureStep
  <1>6. CASE UpHset(r)
    <2> DEFINE q == [req[r] EXCEPT !.pc = "done", !.status = "ok",
                                   !.data = EmptyMd]
    <2>1. /\ req[r].pc = "up_hset" /\ req[r].op # "migrate"
          /\ req[r].hk \in Hotkey /\ req[r].h \in Hash /\ req[r].data \in Md
      BY <1>6, <1>f DEF UpHset, At, RequestOK, ControlOK, Request
    <2>2. OnDisk(req[r].h, req[r].hk)
      BY <1>d, <2>1 DEF UpdatePc
    <2>3. OwnMd(req[r].data, req[r].h, req[r].hk)
      BY <1>f, <2>1 DEF RequestOK, CarriesOK, EmptyMd
    <2>4. q \in Request
      BY <1>f, EmptyMdType DEF Request, Pc, Status
    <2>5. ControlOK(q) /\ CarriesOK(q)
      BY <1>f, <2>1 DEF RequestOK, ControlOK, CarriesOK, Request, StorePc,
             LookupPc, ConvertPc
    <2>6. RequestOK(q)
      BY <1>f, <2>2, <2>5 DEF RequestOK, Request
    <2>7. /\ Become(r, q) /\ UNCHANGED <<legacy, files, acked>>
          /\ entry' = [entry EXCEPT ![req[r].h][req[r].hk] = req[r].data]
      BY <1>6 DEF UpHset, Finish
    <2> HIDE DEF q
    <2> QED BY <2>1, <2>2, <2>3, <2>4, <2>6, <2>7, WriteStep
  <1> QED BY <1>1, <1>2, <1>3, <1>4, <1>5, <1>6 DEF UpdateSeedInfo

\* convert_to_new_format.
LEMMA ConvertStep ==
  ASSUME IndexInv, NEW r \in Req, ConvertToNewFormat(r)
  PROVE  IndexInv'
  <1>f. /\ req[r] \in Request /\ RequestOK(req[r])
        /\ entry \in [Hash -> [Hotkey -> Md \cup {NoMd}]]
        /\ legacy \in [Hash -> OldMd \cup {NoMd}]
    BY RequestFacts
  <1>c. req[r].pc \in ConvertPc
    BY DEF ConvertToNewFormat, CvHgetall, CvBoth, CvDelete, CvSet, At, ConvertPc
  \* The record a conversion returns with is in order.
  <1>r. ASSUME NEW q, q = [req[r] EXCEPT !.pc = req[r].ret, !.ret = "done",
                                  !.to = req[r].hk, !.old = NoMd]
        PROVE  q \in Request /\ RequestOK(q)
    <2>1. /\ q.pc = req[r].ret /\ q.op = req[r].op /\ q.hk = req[r].hk
          /\ q.h = req[r].h /\ q.data = req[r].data /\ q.proof = req[r].proof
          /\ q.to = req[r].hk /\ q.old = NoMd
      BY <1>f, <1>r DEF Request
    <2>2. /\ req[r].ret \in {"old_hgetall", "up_hget", "gm_read", "done"}
          /\ req[r].ret \in Pc
      BY <1>f DEF Request, Pc, UpdatePc, LookupPc
    <2>3. q \in Request
      BY <1>f, <1>r, <2>2 DEF Request
    <2>4. req[r].op # "migrate" => req[r].hk \in Hotkey
      BY <1>f, <1>c DEF RequestOK, ControlOK, ConvertPc
    <2>5. \/ req[r].op = "store" /\ req[r].ret \in {"old_hgetall", "up_hget"}
          \/ req[r].op \in Reads /\ req[r].ret \in {"gm_read", "up_hget"}
          \/ req[r].op = "migrate" /\ req[r].ret = "done"
      BY <1>f, <1>c DEF RequestOK, ControlOK
    <2>6. ControlOK(q)
      BY <2>1, <2>4, <2>5
         DEF ControlOK, StorePc, LookupPc, ConvertPc, Reads
    <2>7. CarriesOK(q)
      BY <1>f, <2>1, <2>2 DEF RequestOK, CarriesOK
    <2>8. MayIndex(q) => OnDisk(q.h, q.hk)
      BY <1>f, <1>c, <2>1, <2>5
         DEF RequestOK, MayIndex, Reads, UpdatePc, ConvertPc
    <2> QED BY <2>3, <2>6, <2>7, <2>8 DEF RequestOK
  \* Moving on inside the conversion keeps the request in order.
  <1>m. ASSUME NEW q, NEW pc \in ConvertPc \ {"cv_hgetall"},
               NEW to \in Hotkey, NEW old \in OldMd,
               LegacyOwner[req[r].h] # None, old = LegacyRow(req[r].h),
               q = [req[r] EXCEPT !.pc = pc, !.old = old, !.to = to]
        PROVE  q \in Request /\ RequestOK(q)
    <2>1. /\ q.pc = pc /\ q.op = req[r].op /\ q.hk = req[r].hk
          /\ q.h = req[r].h /\ q.data = req[r].data /\ q.proof = req[r].proof
          /\ q.to = to /\ q.old = old /\ q.ret = req[r].ret
      BY <1>f, <1>m DEF Request
    <2>2. q \in Request
      BY <1>f, <1>m DEF Request, Pc
    <2>3. ControlOK(q)
      BY <1>f, <1>c, <1>m, <2>1, NoMdAssumption
         DEF RequestOK, ControlOK, StorePc, LookupPc, ConvertPc
    <2>4. CarriesOK(q)
      BY <1>f, <1>m, <2>1 DEF RequestOK, CarriesOK, ConvertPc
    <2>5. MayIndex(q) => OnDisk(q.h, q.hk)
      BY <1>f, <1>c, <2>1 DEF RequestOK, MayIndex, ConvertPc, UpdatePc
    <2> QED BY <2>2, <2>3, <2>4, <2>5 DEF RequestOK
  \* Past its first command a conversion holds the row of its hash.
  <1>o. ASSUME req[r].pc # "cv_hgetall"
        PROVE  /\ req[r].old = LegacyRow(req[r].h) /\ req[r].old \in OldMd
               /\ LegacyOwner[req[r].h] # None /\ req[r].h \in Hash
               /\ req[r].to \in Hotkey /\ Flat(req[r].h) \in files
    BY <1>f, <1>c, <1>o, LegacyRowType
       DEF RequestOK, ControlOK, CarriesOK, Request, IndexInv, LegacyOK
  <1>1. CASE CvHgetall(r) /\ legacy[req[r].h] = NoMd
    BY <1>1, <1>r, PureStep DEF CvHgetall, ReturnFromConvert
  <1>2. CASE CvHgetall(r) /\ legacy[req[r].h] # NoMd
    <2> DEFINE old == legacy[req[r].h]
               to == IF req[r].to = None THEN old.hotkey ELSE req[r].to
               pc == IF req[r].to = None THEN "cv_delete" ELSE "cv_both"
    <2>1. /\ old = LegacyRow(req[r].h) /\ old \in OldMd
          /\ LegacyOwner[req[r].h] # None
      BY <1>2, <1>f DEF Request, IndexInv, LegacyOK
    <2>2. to \in Hotkey
      BY <1>f, <2>1 DEF Request, OldMd
    <2>3. pc \in ConvertPc \ {"cv_hgetall"}
      BY DEF ConvertPc
    <2>4. PICK q : q = [req[r] EXCEPT !.pc = pc, !.old = old, !.to = to]
      OBVIOUS
    <2>5. Become(r, q) /\ UNCHANGED <<redis, files, acked>>
      BY <1>2, <2>4 DEF CvHgetall
    <2> HIDE DEF old, to, pc
    <2>6. q \in Request /\ RequestOK(q)
      BY <1>m, <2>1, <2>2, <2>3, <2>4
    <2> QED BY <2>5, <2>6, PureStep
  <1>3. CASE CvBoth(r)
    <2>1. PICK q : q = [req[r] EXCEPT !.pc = "cv_delete"]
      OBVIOUS
    <2>2. req[r].pc = "cv_both"
      BY <1>3 DEF CvBoth, At
    <2>3. q = [req[r] EXCEPT !.pc = "cv_delete", !.old = req[r].old,
                             !.to = req[r].to]
      BY <1>f, <2>1 DEF Request
    <2>4. q \in Request /\ RequestOK(q)
      <3>1. "cv_delete" \in ConvertPc \ {"cv_hgetall"}
        BY DEF ConvertPc
      <3> QED BY <1>o, <1>m, <2>2, <2>3, <3>1
    <2>5. /\ Become(r, q) /\ UNCHANGED <<legacy, files, acked>>
          /\ entry' = [entry EXCEPT ![req[r].h][req[r].old.hotkey]
                                      = NewMd(req[r].old)]
      BY <1>3, <2>1 DEF CvBoth, Goto
    <2>6. /\ req[r].h \in Hash /\ req[r].old.hotkey \in Hotkey
          /\ NewMd(req[r].old) \in Md
          /\ OwnMd(NewMd(req[r].old), req[r].h, req[r].old.hotkey)
      BY <1>o, <2>2, LegacyRowType
    <2>7. OnDisk(req[r].h, req[r].old.hotkey)
      BY <1>o, <2>2 DEF OnDisk
    <2> QED BY <2>4, <2>5, <2>6, <2>7, WriteStep
  <1>4. CASE CvDelete(r)
    <2>1. PICK q : q = [req[r] EXCEPT !.pc = "cv_set"]
      OBVIOUS
    <2>2. req[r].pc = "cv_delete"
      BY <1>4 DEF CvDelete, At
    <2>3. q = [req[r] EXCEPT !.pc = "cv_set", !.old = req[r].old,
                             !.to = req[r].to]
      BY <1>f, <2>1 DEF Request
    <2>4. q \in Request /\ RequestOK(q)
      <3>1. "cv_set" \in ConvertPc \ {"cv_hgetall"}
        BY DEF ConvertPc
      <3> QED BY <1>o, <1>m, <2>2, <2>3, <3>1
    <2>5. /\ Become(r, q) /\ UNCHANGED <<files, acked>> /\ DeleteRow(req[r].h)
      BY <1>4, <2>1 DEF CvDelete, Goto
    <2>6. RequestOK(q)'
      BY <2>4, <2>5 DEF RequestOK, OnDisk, ControlOK, CarriesOK, MayIndex
    <2>7. (req \in [Req -> Request] /\ \A s \in Req : RequestOK(req[s]))'
      BY <2>4, <2>5, <2>6, RequestStep
    <2>8. /\ entry' \in [Hash -> [Hotkey -> Md \cup {NoMd}]]
          /\ legacy' \in [Hash -> OldMd \cup {NoMd}]
      BY <1>f, <2>5 DEF DeleteRow
    <2>9. EntryOK'
      <3> SUFFICES ASSUME NEW g \in Hash, NEW k \in Hotkey,
                          entry'[g][k] # NoMd
                   PROVE  OwnMd(entry'[g][k], g, k) /\ OnDisk(g, k)'
        BY DEF EntryOK, OwnMd
      <3>1. entry'[g][k] = entry[g][k]
        BY <1>f, <2>5 DEF DeleteRow
      <3> QED BY <2>5, <3>1 DEF IndexInv, EntryOK, OnDisk
    <2>10. (LegacyOK /\ AckedOK)'
      BY <1>f, <2>5 DEF DeleteRow, IndexInv, LegacyOK, AckedOK, OnDisk
    <2> QED BY <2>5, <2>7, <2>8, <2>9, <2>10 DEF IndexInv, TypeOK
  <1>5. CASE CvSet(r)
    <2>1. PICK q : q = [req[r] EXCEPT !.pc = req[r].ret, !.ret = "done",
                                      !.to = req[r].hk, !.old = NoMd]
      OBVIOUS
    <2>2. q \in Request /\ RequestOK(q)
      BY <1>r, <2>1
    <2>3. req[r].pc = "cv_set"
      BY <1>5 DEF CvSet, At
    <2>4. /\ Become(r, q) /\ UNCHANGED <<legacy, files, acked>>
          /\ entry' = [entry EXCEPT ![req[r].h][req[r].to]
                                      = NewMd(req[r].old)]
      BY <1>5, <2>1 DEF CvSet, ReturnFromConvert
    <2>5. /\ req[r].h \in Hash /\ req[r].to \in Hotkey
          /\ NewMd(req[r].old) \in Md
          /\ OwnMd(NewMd(req[r].old), req[r].h, req[r].to)
          /\ OnDisk(req[r].h, req[r].to)
      BY <1>o, <2>3, LegacyRowType DEF OnDisk
    <2> QED BY <2>2, <2>4, <2>5, WriteStep
  <1> QED BY <1>1, <1>2, <1>3, <1>4, <1>5 DEF ConvertToNewFormat

\* get_chunk_metadata and the load that follows it, for both handlers.
LEMMA LookupStep ==
  ASSUME IndexInv, NEW r \in Req, GetChunkMetadata(r)
  PROVE  IndexInv'
  <1>f. /\ req[r] \in Request /\ RequestOK(req[r])
        /\ entry \in [Hash -> [Hotkey -> Md \cup {NoMd}]]
        /\ legacy \in [Hash -> OldMd \cup {NoMd}]
    BY RequestFacts
  <1>c. /\ req[r].pc \in LookupPc /\ req[r].op \in Reads
        /\ req[r].hk \in Hotkey /\ req[r].h \in Hash
    <2>1. req[r].pc \in LookupPc
      BY DEF GetChunkMetadata, GmHgetall, GmHget, GmRead, GmRaw, Load, At,
             LookupPc
    <2> QED BY <1>f, <2>1 DEF RequestOK, ControlOK, LookupPc, Reads, Request
  <1>u. UNCHANGED <<redis, files, acked>>
    BY DEF GetChunkMetadata, GmHgetall, GmHget, GmRead, GmRaw, Load
  \* The handler moves on, or finishes, with metadata of its own.
  <1>m. ASSUME NEW q, NEW pc \in LookupPc \cup {"done"},
               NEW md \in Md, OwnMd(md, req[r].h, req[r].hk) \/ md = EmptyMd,
               NEW status \in Status,
               q = [req[r] EXCEPT !.pc = pc, !.data = md, !.status = status],
               Become(r, q)
        PROVE  IndexInv'
    <2>1. /\ q.pc = pc /\ q.op = req[r].op /\ q.hk = req[r].hk
          /\ q.h = req[r].h /\ q.data = md /\ q.proof = req[r].proof
          /\ q.old = req[r].old
      BY <1>f, <1>m DEF Request
    <2>2. q \in Request
      BY <1>f, <1>m DEF Request, Pc
    <2>3. ControlOK(q)
      BY <1>c, <1>m, <2>1
         DEF ControlOK, StorePc, LookupPc, ConvertPc
    <2>4. CarriesOK(q)
      BY <1>f, <1>m, <2>1 DEF RequestOK, CarriesOK, LookupPc
    <2>5. ~MayIndex(q)
      BY <1>c, <1>m, <2>1 DEF MayIndex, LookupPc, UpdatePc, ConvertPc, Reads
    <2> QED BY <1>u, <1>m, <2>2, <2>3, <2>4, <2>5, PureStep DEF RequestOK
  <1>d. /\ req[r].data \in Md /\ req[r].status \in Status
        /\ OwnMd(req[r].data, req[r].h, req[r].hk) \/ req[r].data = EmptyMd
    BY <1>f DEF Request, RequestOK, CarriesOK
  \* A move that leaves the data alone.
  <1>g. ASSUME NEW pc \in LookupPc, Goto(r, pc)
        PROVE  IndexInv'
    <2>1. PICK q : q = [req[r] EXCEPT !.pc = pc]
      OBVIOUS
    <2>2. q = [req[r] EXCEPT !.pc = pc, !.data = req[r].data,
                             !.status = req[r].status]
      BY <1>f, <2>1 DEF Request
    <2>3. Become(r, q)
      BY <1>g, <2>1 DEF Goto
    <2> QED BY <1>d, <1>m, <2>2, <2>3
  <1>1. CASE GmHgetall(r) \/ (GmHget(r) /\ Field(r) # NoMd)
               \/ (GmRead(r) /\ Field(r) = NoMd)
    <2>1. PICK pc \in {"gm_hget", "gm_read", "gm_raw"} : Goto(r, pc)
      BY <1>1 DEF GmHgetall, GmHget, GmRead
    <2> QED BY <1>g, <2>1 DEF LookupPc
  <1>2. CASE GmHget(r) /\ Field(r) = NoMd
    <2> DEFINE q == [req[r] EXCEPT !.pc = "cv_hgetall", !.to = req[r].hk,
                                   !.ret = "gm_read", !.data = EmptyMd]
    <2>1. /\ q.pc = "cv_hgetall" /\ q.op = req[r].op /\ q.hk = req[r].hk
          /\ q.h = req[r].h /\ q.data = EmptyMd /\ q.proof = req[r].proof
          /\ q.old = req[r].old /\ q.ret = "gm_read"
      BY <1>f DEF Request
    <2>2. q \in Request
      BY <1>f, EmptyMdType DEF Request, Pc, ConvertPc
    <2>3. Become(r, q)
      BY <1>2 DEF GmHget, CallConvert
    <2> HIDE DEF q
    <2>4. ControlOK(q) /\ CarriesOK(q) /\ ~MayIndex(q)
      BY <1>f, <1>c, <2>1 DEF RequestOK, ControlOK, CarriesOK, MayIndex,
             StorePc, LookupPc, ConvertPc, UpdatePc, Reads
    <2> QED BY <1>u, <2>2, <2>3, <2>4, PureStep DEF RequestOK
  <1>3. CASE GmRead(r) /\ Field(r) # NoMd
    <2>1. Field(r) \in Md /\ OwnMd(Field(r), req[r].h, req[r].hk)
      BY <1>3, <1>f, <1>c DEF Field, IndexInv, EntryOK
    <2>2. PICK q : q = [req[r] EXCEPT !.pc = "load", !.data = Field(r)]
      OBVIOUS
    <2>3. q = [req[r] EXCEPT !.pc = "load", !.data = Field(r),
                             !.status = req[r].status]
      BY <1>f, <2>2 DEF Request
    <2>4. Become(r, q)
      BY <1>3, <2>2 DEF GmRead
    <2>5. "load" \in LookupPc
      BY DEF LookupPc
    <2> QED BY <1>d, <1>m, <2>1, <2>3, <2>4, <2>5
  <1>4. CASE GmRaw(r)
    <2> DEFINE md == IF legacy[req[r].h] = NoMd THEN EmptyMd
                                                ELSE NewMd(legacy[req[r].h])
    <2>1. md \in Md /\ (OwnMd(md, req[r].h, req[r].hk) \/ md = EmptyMd)
      BY <1>f, <1>c, EmptyMdType, LegacyRowType DEF IndexInv, LegacyOK
    <2>2. PICK q : q = [req[r] EXCEPT !.pc = "load", !.data = md]
      OBVIOUS
    <2>3. Become(r, q)
      BY <1>4, <2>2 DEF GmRaw
    <2> HIDE DEF md
    <2>4. q = [req[r] EXCEPT !.pc = "load", !.data = md,
                             !.status = req[r].status]
      BY <1>f, <2>2 DEF Request
    <2>5. "load" \in LookupPc
      BY DEF LookupPc
    <2> QED BY <1>d, <1>m, <2>1, <2>3, <2>4, <2>5
  <1>5. CASE Load(r) /\ Resolve(req[r]) \notin files
    <2>1. PICK q : q = [req[r] EXCEPT !.pc = "done", !.status = "not_found",
                                      !.data = EmptyMd]
      OBVIOUS
    <2>2. q = [req[r] EXCEPT !.pc = "done", !.data = EmptyMd,
                             !.status = "not_found"]
      BY <1>f, <2>1 DEF Request
    <2>3. Become(r, q)
      BY <1>5, <2>1 DEF Load, Finish
    <2>4. "not_found" \in Status
      BY DEF Status
    <2> QED BY <1>m, <2>2, <2>3, <2>4, EmptyMdType
  <1>6. CASE Load(r) /\ Resolve(req[r]) \in files
    <2> DEFINE p == [req[r] EXCEPT !.proof = req[r].data.seed]
    <2>1. PICK q : q = CallUpdate(p)
      OBVIOUS
    <2>2. /\ q.pc = "old_hgetall" /\ q.op = req[r].op /\ q.hk = req[r].hk
          /\ q.h = req[r].h /\ q.data = EmptyMd /\ q.proof = req[r].data.seed
          /\ q.old = req[r].old /\ q.to = req[r].hk
      BY <1>f, <2>1 DEF CallUpdate, Request
    <2>3. q \in Request
      <3>1. req[r].data.seed \in Seed \cup {NoSeed}
        BY <1>d DEF Md
      <3>2. p \in Request
        BY <1>f, <3>1 DEF Request
      <3>3. "old_hgetall" \in Pc
        BY DEF Pc, UpdatePc
      <3>4. p.hk \in Hotkey \cup {None}
        BY <3>2 DEF Request
      <3> HIDE DEF p
      <3> QED BY <2>1, <3>2, <3>3, <3>4, EmptyMdType DEF CallUpdate, Request
    <2>4. OnDisk(req[r].h, req[r].hk)
      <3>1. files \subseteq File
        BY DEF IndexInv, TypeOK
      <3>2. EmptyPath \notin File
        BY DEF EmptyPath, File, Dir, Flat
      <3>3. Resolve(req[r]) \in {Dir(req[r].hk, req[r].h), Flat(req[r].h),
                                 EmptyPath}
        BY <1>d DEF Resolve, OwnMd, EmptyMd
      <3> QED BY <1>6, <3>1, <3>2, <3>3 DEF OnDisk
    <2>5. Provenance(req[r].data.seed, req[r].h, req[r].hk)
      BY <1>d DEF OwnMd, EmptyMd, Provenance
    <2>6. ControlOK(q) /\ CarriesOK(q)
      BY <1>f, <1>c, <2>2, <2>5 DEF RequestOK, ControlOK, CarriesOK, StorePc,
             LookupPc, ConvertPc, Reads
    <2>7. RequestOK(q)
      BY <2>2, <2>4, <2>6 DEF RequestOK
    <2>8. Become(r, q)
      BY <1>6, <2>1 DEF Load
    <2> QED BY <1>u, <2>3, <2>7, <2>8, PureStep
  <1> QED BY <1>1, <1>2, <1>3, <1>4, <1>5, <1>6
       DEF GetChunkMetadata, GmRead, Load

\* Replies and crashes free slots.
LEMMA EndStep ==
  ASSUME IndexInv, Crash \/ \E r \in Req : Reply(r)
  PROVE  IndexInv'
  <1>1. CASE Crash
    <2>1. PICK dead \in SUBSET Req :
            req' = [r \in Req |-> IF r \in dead THEN IdleRequest ELSE req[r]]
      <3>1. PICK script \in BOOLEAN :
              req' = [r \in Req |->
                       IF r \in {d \in Req : (req[d].op = "migrate") = script}
                         THEN IdleRequest ELSE req[r]]
        BY <1>1 DEF Crash
      <3> QED BY <3>1
    <2>0. UNCHANGED <<redis, files, acked>>
      BY <1>1 DEF Crash
    <2>2. \A r \in Req : \/ req'[r] = IdleRequest
                         \/ req'[r] = req[r] /\ RequestOK(req[r])
      BY <2>1 DEF IndexInv
    <2>3. (\A r \in Req : RequestOK(req[r]))'
      BY <2>0, <2>2, IdleOK DEF RequestOK, OnDisk
    <2>4. (LegacyOK /\ EntryOK /\ AckedOK)'
      BY <2>0 DEF IndexInv, LegacyOK, EntryOK, AckedOK, OnDisk, redis
    <2> QED BY <2>0, <2>1, <2>3, <2>4, IdleOK DEF IndexInv, TypeOK, redis
  <1>2. ASSUME NEW r \in Req, Reply(r) PROVE IndexInv'
    <2>f. req[r] \in Request /\ RequestOK(req[r])
      BY RequestFacts
    <2>1. Become(r, IdleRequest) /\ UNCHANGED <<redis, files>>
      BY <1>2 DEF Reply
    <2>2. RequestOK(IdleRequest)'
      BY <2>1, IdleOK DEF RequestOK, OnDisk, ControlOK, CarriesOK, MayIndex,
             IdleRequest
    <2>3. (req \in [Req -> Request] /\ \A s \in Req : RequestOK(req[s]))'
      BY <2>1, <2>2, IdleOK, RequestStep
    <2>4. (LegacyOK /\ EntryOK)'
      BY <2>1 DEF IndexInv, LegacyOK, EntryOK, OnDisk, redis
    <2>5. CASE req[r].op = "store"
      <3>1. /\ req[r].hk \in Hotkey /\ req[r].h \in Hash
            /\ OnDisk(req[r].h, req[r].hk)
        BY <1>2, <2>f, <2>5
           DEF Reply, At, RequestOK, ControlOK, MayIndex, Request
      <3>2. acked' = acked \cup {<<req[r].h, req[r].hk>>}
        BY <1>2, <2>5 DEF Reply
      <3>3. AckedOK'
        BY <2>1, <3>1, <3>2 DEF IndexInv, AckedOK, OnDisk
      <3> QED BY <2>1, <2>3, <2>4, <3>1, <3>2, <3>3 DEF IndexInv, TypeOK, redis
    <2>6. CASE req[r].op # "store"
      <3>1. acked' = acked
        BY <1>2, <2>6 DEF Reply
      <3>2. AckedOK'
        BY <2>1, <3>1 DEF IndexInv, AckedOK, OnDisk
      <3> QED BY <2>1, <2>3, <2>4, <3>1, <3>2 DEF IndexInv, TypeOK, redis
    <2> QED BY <2>5, <2>6
  <1> QED BY <1>1, <1>2

-----------------------------------------------------------------------------
(* The invariant and its consequences                                      *)

\* The inductive invariant holds at the start: the index is empty except for
\* the rows from before 1.5.3, whose files are there.
LEMMA IndexInit == Init => IndexInv
  <1> SUFFICES ASSUME Init PROVE IndexInv
    OBVIOUS
  <1>1. TypeOK
    <2>1. /\ entry \in [Hash -> [Hotkey -> Md \cup {NoMd}]]
          /\ files \subseteq File /\ acked \subseteq Hash \X Hotkey
      BY DEF Init, File
    <2>2. legacy \in [Hash -> OldMd \cup {NoMd}]
      BY LegacyRowType DEF Init
    <2>3. req \in [Req -> Request]
      BY IdleOK DEF Init
    <2> QED BY <2>1, <2>2, <2>3 DEF TypeOK
  <1>2. LegacyOK /\ EntryOK /\ AckedOK
    BY DEF Init, LegacyOK, EntryOK, AckedOK
  <1>3. \A r \in Req : RequestOK(req[r])
    BY IdleOK DEF Init
  <1> QED BY <1>1, <1>2, <1>3 DEF IndexInv

\* Every step of the miner keeps the inductive invariant.
LEMMA IndexNext == IndexInv /\ [Next]_vars => IndexInv'
  <1> SUFFICES ASSUME IndexInv, [Next]_vars PROVE IndexInv'
    OBVIOUS
  <1>1. CASE UNCHANGED vars
    <2>1. TypeOK' /\ (LegacyOK /\ EntryOK /\ AckedOK)'
      BY <1>1 DEF vars, IndexInv, TypeOK, LegacyOK, EntryOK, AckedOK, OnDisk
    <2>2. (\A r \in Req : RequestOK(req[r]))'
      BY <1>1 DEF vars, IndexInv, RequestOK, OnDisk, ControlOK, CarriesOK,
             MayIndex
    <2> QED BY <2>1, <2>2 DEF IndexInv
  <1>2. CASE Next
    BY <1>2, ArrivalStep, StoreStep, UpdateStep, ConvertStep, LookupStep,
       EndStep DEF Next, Progress
  <1> QED BY <1>1, <1>2

\* The inductive invariant holds in every behaviour of the miner.
THEOREM IndexInvariant == Spec => []IndexInv
  BY IndexInit, IndexNext, PTL DEF Spec

\* Type correctness.
THEOREM TypeCorrect == Spec => []TypeOK
  <1>1. IndexInv => TypeOK
    BY DEF IndexInv
  <1> QED BY <1>1, IndexInvariant, PTL

\* For any number of callers, hashes and concurrent requests, through crashes
\* and conversions, a field of the index or an acknowledged store always has
\* its data on disk where the handlers look for it.
THEOREM IndexHasData == Spec => []EntryHasData
  <1>1. IndexInv => EntryHasData
    BY DEF IndexInv, EntryOK, AckedOK, EntryHasData
  <1> QED BY <1>1, IndexInvariant, PTL

\* For any number of callers, hashes and concurrent requests, no proof is
\* ever computed from, and no field ever holds, a seed of another caller,
\* other than the one inherited with a row from before 1.5.3.
THEOREM SeedsStayWithCaller == Spec => []SeedFromCaller
  <1>1. IndexInv => SeedFromCaller
    BY DEF IndexInv, EntryOK, OwnMd, RequestOK, CarriesOK, SeedFromCaller
  <1> QED BY <1>1, IndexInvariant, PTL

-----------------------------------------------------------------------------
(* What loses the file of a chunk                                          *)

\* A path in a field, or in the dictionary of a request, is unknown or names a
\* file that exists.
PathInv ==
  /\ \A h \in Hash, hk \in Hotkey :
       entry[h][hk] # NoMd => entry[h][hk].path \in {EmptyPath} \cup files
  /\ \A r \in Req : req[r].data.path \in {EmptyPath, NoPath} \cup files

\* A step of a coroutine leaves the index alone, writes one field of the row of
\* its request, with the path of a file unless it writes back an unknown one,
\* or deletes that row and is about to write a field of it; no other coroutine
\* moves, and no file goes.
LEMMA RowSteps ==
  ASSUME IndexInv, PathInv, NEW r \in Req, Receive(r) \/ Migrate(r) \/ Progress(r)
  PROVE  /\ \A s \in Req \ {r} : req'[s] = req[s]
         /\ files \subseteq files'
         /\ req'[r].data.path \in {EmptyPath, NoPath} \cup files'
         /\ \/ UNCHANGED redis /\ ~At(r, "cv_set")
            \/ /\ UNCHANGED legacy
               /\ \E hk \in Hotkey, md \in Md :
                    /\ entry' = [entry EXCEPT ![req[r].h][hk] = md]
                    /\ \/ md.path \in files
                       \/ md.path = EmptyPath /\ WritesUnknownPath(r, req[r].h)
            \/ CvDelete(r) /\ req'[r].h = req[r].h /\ At(r, "cv_set")'
                           /\ req'[r].old.path \in files'
  <1>f. /\ req[r] \in Request /\ RequestOK(req[r])
        /\ entry \in [Hash -> [Hotkey -> Md \cup {NoMd}]]
        /\ req \in [Req -> Request]
    BY RequestFacts DEF IndexInv, TypeOK
  <1>t. req[r].h \in Hash /\ req[r].data \in Md /\ req[r].hk \in Hotkey \cup {None}
    BY <1>f DEF Request
  <1>m. {"pc", "h", "data", "old", "to", "ret", "status"} \subseteq DOMAIN req[r]
    BY <1>f DEF Request
  <1>d. req[r].data.path \in {EmptyPath, NoPath} \cup files
    BY DEF PathInv
  <1>e. EmptyMd.path = NoPath /\ IdleRequest.data = EmptyMd
    BY DEF EmptyMd, IdleRequest
  <1>y. ASSUME Field(r) # NoMd, req[r].hk \in Hotkey
        PROVE  Field(r).path \in {EmptyPath} \cup files /\ Field(r) \in Md
    BY <1>y, <1>t, <1>f DEF PathInv, Field
  <1>q. ASSUME NEW q, Become(r, q), q.data \in {req[r].data, EmptyMd},
               UNCHANGED <<redis, files>>, req[r].pc # "cv_set"
        PROVE  /\ \A s \in Req \ {r} : req'[s] = req[s]
               /\ files \subseteq files'
               /\ req'[r].data.path \in {EmptyPath, NoPath} \cup files'
               /\ UNCHANGED redis /\ ~At(r, "cv_set")
    BY <1>q, <1>f, <1>d, <1>e DEF Become, At
  <1>c. \A to, ret : [req[r] EXCEPT !.pc = "cv_hgetall", !.to = to, !.ret = ret,
                                    !.data = EmptyMd].data = EmptyMd
    BY <1>m
  <1>g. \A pc : [req[r] EXCEPT !.pc = pc].data = req[r].data
    BY <1>m
  <1>0. ASSUME req[r].old # NoMd
        PROVE  /\ LegacyOwner[req[r].h] # None
               /\ req[r].old = LegacyRow(req[r].h)
               /\ req[r].old.path \in files
    BY <1>0, <1>f, <1>m, <1>t DEF RequestOK, CarriesOK, LegacyRow, IndexInv, LegacyOK
  <1>1. CASE Receive(r) \/ Migrate(r) \/ Reply(r)
    <2>1. PICK q : Become(r, q) /\ q.data = EmptyMd
      <3>1. CASE Receive(r)
        <4>1. PICK op \in Op \ {"migrate"}, h \in Hash :
                \E hk \in IF op = "store" THEN Storers[h] ELSE Readers[h] :
                  Become(r, [IdleRequest EXCEPT
                               !.pc = IF op = "store" THEN "st_hexists"
                                                      ELSE "gm_hgetall",
                               !.op = op, !.hk = hk, !.h = h])
          BY <3>1 DEF Receive
        <4>2. PICK hk \in Hotkey :
                  Become(r, [IdleRequest EXCEPT
                               !.pc = IF op = "store" THEN "st_hexists"
                                                      ELSE "gm_hgetall",
                               !.op = op, !.hk = hk, !.h = h])
          BY <4>1, StorersAssumption, ReadersAssumption
        <4> DEFINE q == [IdleRequest EXCEPT
                               !.pc = IF op = "store" THEN "st_hexists"
                                                      ELSE "gm_hgetall",
                               !.op = op, !.hk = hk, !.h = h]
        <4>3. q.data = EmptyMd
          BY DEF IdleRequest
        <4> HIDE DEF q
        <4> QED BY <4>2, <4>3 DEF q
      <3>2. CASE Migrate(r)
        <4>1. PICK h \in Hash :
                Become(r, [IdleRequest EXCEPT !.pc = "mg_hgetall", !.op = "migrate",
                                              !.h = h])
          BY <3>2 DEF Migrate
        <4> DEFINE q == [IdleRequest EXCEPT !.pc = "mg_hgetall", !.op = "migrate",
                                            !.h = h]
        <4>2. q.data = EmptyMd
          BY DEF IdleRequest
        <4> HIDE DEF q
        <4> QED BY <4>1, <4>2 DEF q
      <3>3. CASE Reply(r)
        BY <3>3, <1>e DEF Reply
      <3> QED BY <1>1, <3>1, <3>2, <3>3
    <2> QED BY <1>1, <2>1, <1>f, <1>m, <1>e DEF Receive, Migrate, Reply, Become, At, redis
  <1>2. CASE StHexists(r) \/ StSave(r) \/ StGetFilepath(r) \/ StExists(r) \/ StHget(r)
    <2>1. CASE StHexists(r) \/ StSave(r) \/ StExists(r) \/ StHget(r)
      <3>1. CASE StHexists(r) \/ StExists(r)
        BY <3>1, <1>f, <1>m, <1>d DEF StHexists, StExists, Goto, Become, At, redis
      <3>2. CASE StSave(r)
        BY <3>2, <1>f, <1>m, <1>t DEF StSave, Become, At, redis
      <3>3. CASE StHget(r)
        BY <3>3, <1>f, <1>m, <1>e DEF StHget, CallConvert, CallUpdate, Become, At, redis
      <3> QED BY <2>1, <3>1, <3>2, <3>3
    <2>2. CASE StGetFilepath(r)
      <3>1. req[r].hk \in Hotkey
        BY <2>2, <1>f, <1>m DEF StGetFilepath, At, RequestOK, ControlOK, StorePc
      <3>2. (IF Field(r) = NoMd THEN EmptyPath ELSE Field(r).path)
              \in {EmptyPath} \cup files
        BY <3>1, <1>y
      <3> QED BY <2>2, <3>2, <1>f, <1>m, <1>t DEF StGetFilepath, Become, At, redis
    <2> QED BY <1>2, <2>1, <2>2
  <1>3. CASE StNew(r)
    <2>1. req[r].hk \in Hotkey /\ req[r].data.path # NoPath
      BY <1>3, <1>f, <1>m DEF StNew, At, RequestOK, ControlOK, CarriesOK, StorePc
    <2> DEFINE md == [path |-> req[r].data.path, seed |-> CallerSeed(r)]
    <2>2. md \in Md
      BY <1>t, <2>1 DEF Md, Seed, CallerSeed
    <2>3. \/ md.path \in files
          \/ md.path = EmptyPath /\ WritesUnknownPath(r, req[r].h)
      BY <1>3, <1>d, <1>f, <1>m, <2>1 DEF StNew, Finish, Become, At, WritesUnknownPath
    <2>4. /\ entry' = [entry EXCEPT ![req[r].h][req[r].hk] = md]
          /\ UNCHANGED <<legacy, files>>
          /\ \A s \in Req \ {r} : req'[s] = req[s]
          /\ req'[r].data = EmptyMd
      BY <1>3, <1>f, <1>m DEF StNew, Finish, Become
    <2> QED BY <2>1, <2>2, <2>3, <2>4, <1>e
  <1>4. CASE MgHgetall(r) \/ OldHgetall(r) \/ OldHget(r) \/ UpHget(r)
    <2>1. CASE MgHgetall(r) \/ OldHgetall(r) \/ OldHget(r)
      <3>1. CASE MgHgetall(r)
        <4>1. PICK q : Become(r, q) /\ q.data \in {req[r].data, EmptyMd}
          <5>1. CASE legacy[req[r].h] = NoMd
            <6>1. [req[r] EXCEPT !.pc = "done", !.status = "ok", !.data = EmptyMd].data
                    = EmptyMd
              BY <1>m
            <6> QED BY <3>1, <5>1, <6>1 DEF MgHgetall, Finish
          <5>2. CASE legacy[req[r].h] # NoMd
            <6>1. [req[r] EXCEPT !.pc = "old_hgetall",
                                 !.to = legacy[req[r].h].hotkey].data = req[r].data
              BY <1>m
            <6> QED BY <3>1, <5>2, <6>1 DEF MgHgetall
          <5> QED BY <5>1, <5>2
        <4>2. UNCHANGED <<redis, files>> /\ req[r].pc # "cv_set"
          BY <3>1 DEF MgHgetall, At
        <4> QED BY <4>1, <4>2, <1>q
      <3>2. CASE OldHgetall(r)
        BY <3>2, <1>f, <1>m, <1>d DEF OldHgetall, Goto, Become, At, redis
      <3>3. CASE OldHget(r)
        <4>1. PICK q : Become(r, q) /\ q.data \in {req[r].data, EmptyMd}
          <5>1. \/ CallConvert(r, req[r].hk, NotOldPc(r))
                \/ Goto(r, NotOldPc(r))
            BY <3>3 DEF OldHget
          <5>2. CASE CallConvert(r, req[r].hk, NotOldPc(r))
            BY <5>2, <1>c DEF CallConvert
          <5>3. CASE Goto(r, NotOldPc(r))
            BY <5>3, <1>g DEF Goto
          <5> QED BY <5>1, <5>2, <5>3
        <4>2. UNCHANGED <<redis, files>> /\ req[r].pc # "cv_set"
          BY <3>3 DEF OldHget, At
        <4> QED BY <4>1, <4>2, <1>q
      <3> QED BY <2>1, <3>1, <3>2, <3>3
    <2>2. CASE UpHget(r)
      <3>1. req[r].hk \in Hotkey
        BY <2>2, <1>f, <1>m DEF UpHget, At, RequestOK, ControlOK
      <3>2. UpdatedMd(Field(r), CallerSeed(r)).path \in {EmptyPath} \cup files
        BY <3>1, <1>y DEF UpdatedMd, Md
      <3> QED BY <2>2, <3>2, <1>f, <1>m DEF UpHget, Become, At, redis
    <2> QED BY <1>4, <2>1, <2>2
  <1>5. CASE UpHset(r)
    <2>1. req[r].hk \in Hotkey /\ req[r].data.path # NoPath
      BY <1>5, <1>f, <1>m DEF UpHset, At, RequestOK, ControlOK, CarriesOK
    <2>3. \/ req[r].data.path \in files
          \/ req[r].data.path = EmptyPath /\ WritesUnknownPath(r, req[r].h)
      BY <1>5, <1>d, <1>f, <1>m, <2>1 DEF UpHset, Finish, Become, At, WritesUnknownPath
    <2>4. /\ entry' = [entry EXCEPT ![req[r].h][req[r].hk] = req[r].data]
          /\ UNCHANGED <<legacy, files>>
          /\ \A s \in Req \ {r} : req'[s] = req[s]
          /\ req'[r].data = EmptyMd
      BY <1>5, <1>f, <1>m DEF UpHset, Finish, Become
    <2> QED BY <2>1, <2>3, <2>4, <1>t, <1>e
  <1>6. CASE CvHgetall(r)
    <2>1. [req[r] EXCEPT !.pc = req[r].ret, !.ret = "done", !.to = req[r].hk,
                         !.old = NoMd].data = req[r].data
      BY <1>m
    <2>2. \A pc, old, to :
            [req[r] EXCEPT !.pc = pc, !.old = old, !.to = to].data = req[r].data
      BY <1>m
    <2>3. PICK q : Become(r, q) /\ q.data \in {req[r].data, EmptyMd}
      <3>1. CASE legacy[req[r].h] = NoMd
        <4>1. ReturnFromConvert(r)
          BY <1>6, <3>1 DEF CvHgetall
        <4> QED BY <4>1, <2>1 DEF ReturnFromConvert
      <3>2. CASE legacy[req[r].h] # NoMd
        <4> DEFINE q == [req[r] EXCEPT
              !.pc = IF req[r].to = None THEN "cv_delete" ELSE "cv_both",
              !.old = legacy[req[r].h],
              !.to = IF req[r].to = None THEN legacy[req[r].h].hotkey ELSE req[r].to]
        <4>1. Become(r, q)
          BY <1>6, <3>2 DEF CvHgetall
        <4>2. q.data = req[r].data
          BY <2>2
        <4> HIDE DEF q
        <4> QED BY <4>1, <4>2
      <3> QED BY <3>1, <3>2
    <2>4. UNCHANGED <<redis, files>> /\ req[r].pc # "cv_set"
      BY <1>6 DEF CvHgetall, At
    <2> QED BY <2>3, <2>4, <1>q
  <1>7. CASE CvBoth(r) \/ CvSet(r)
    <2>1. req[r].old # NoMd /\ req[r].to \in Hotkey
      BY <1>7, <1>f, <1>m DEF CvBoth, CvSet, At, RequestOK, ControlOK, ConvertPc
    <2>2. /\ NewMd(req[r].old) \in Md /\ req[r].old.hotkey \in Hotkey
          /\ NewMd(req[r].old).path \in files
      BY <2>1, <1>0, <1>t, LegacyRowType DEF NewMd
    <2>3. /\ \A s \in Req \ {r} : req'[s] = req[s]
          /\ UNCHANGED <<legacy, files>>
          /\ req'[r].data = req[r].data
      BY <1>7, <1>f, <1>m DEF CvBoth, CvSet, Goto, ReturnFromConvert, Become
    <2> QED BY <1>7, <1>d, <2>1, <2>2, <2>3 DEF CvBoth, CvSet
  <1>8. CASE CvDelete(r)
    <2>1. req[r].old.path \in files
      BY <1>8, <1>0, <1>f, <1>m DEF CvDelete, At, RequestOK, ControlOK, ConvertPc
    <2>2. /\ \A s \in Req \ {r} : req'[s] = req[s]
          /\ UNCHANGED files
          /\ req'[r] = [req[r] EXCEPT !.pc = "cv_set"]
      BY <1>8, <1>f, <1>m DEF CvDelete, Goto, Become
    <2> QED BY <1>8, <1>f, <1>m, <1>d, <2>1, <2>2 DEF At, Request
  <1>9. CASE GmHgetall(r) \/ GmHget(r) \/ GmRead(r) \/ GmRaw(r) \/ Load(r)
    <2>1. CASE GmHgetall(r) \/ GmHget(r) \/ Load(r)
      <3>1. CASE GmHgetall(r)
        BY <3>1, <1>f, <1>m, <1>d DEF GmHgetall, Goto, Become, At, redis
      <3>2. CASE GmHget(r)
        <4>1. PICK q : Become(r, q) /\ q.data \in {req[r].data, EmptyMd}
          <5>1. CallConvert(r, req[r].hk, "gm_read") \/ Goto(r, "gm_read")
            BY <3>2 DEF GmHget
          <5>2. CASE CallConvert(r, req[r].hk, "gm_read")
            BY <5>2, <1>c DEF CallConvert
          <5>3. CASE Goto(r, "gm_read")
            BY <5>3, <1>g DEF Goto
          <5> QED BY <5>1, <5>2, <5>3
        <4>2. UNCHANGED <<redis, files>> /\ req[r].pc # "cv_set"
          BY <3>2 DEF GmHget, At
        <4> QED BY <4>1, <4>2, <1>q
      <3>3. CASE Load(r)
        BY <3>3, <1>f, <1>m, <1>e DEF Load, CallUpdate, Finish, Become, At, redis
      <3> QED BY <2>1, <3>1, <3>2, <3>3
    <2>2. CASE GmRead(r)
      <3>1. req[r].hk \in Hotkey
        BY <2>2, <1>f, <1>m DEF GmRead, At, RequestOK, ControlOK, LookupPc, Reads
      <3> QED BY <2>2, <3>1, <1>y, <1>f, <1>m, <1>d DEF GmRead, Goto, Become, At, redis
    <2>3. CASE GmRaw(r)
      <3>1. legacy[req[r].h] # NoMd => legacy[req[r].h].path \in files
        <4>1. LegacyOK
          BY DEF IndexInv
        <4>2. LegacyRow(req[r].h).path = Flat(req[r].h)
          BY DEF LegacyRow
        <4> QED BY <4>1, <4>2, <1>t DEF LegacyOK
      <3>2. (IF legacy[req[r].h] = NoMd THEN EmptyMd ELSE NewMd(legacy[req[r].h])).path
              \in {NoPath} \cup files
        BY <3>1, <1>e DEF NewMd
      <3> QED BY <2>3, <3>2, <1>f, <1>m DEF GmRaw, Become, At, redis
    <2> QED BY <1>9, <2>1, <2>2, <2>3
  <1> QED BY <1>1, <1>2, <1>3, <1>4, <1>5, <1>6, <1>7, <1>8, <1>9
       DEF Progress, Store, UpdateSeedInfo, ConvertToNewFormat, GetChunkMetadata

\* Paths name files in every step, the kills included.
LEMMA PathStep ==
  ASSUME IndexInv, PathInv, [Next]_vars
  PROVE  PathInv'
  <1>f. /\ entry \in [Hash -> [Hotkey -> Md \cup {NoMd}]]
        /\ req \in [Req -> Request]
    BY DEF IndexInv, TypeOK
  <1>1. CASE UNCHANGED vars
    BY <1>1 DEF vars, PathInv
  <1>2. CASE Crash
    <2>1. IdleRequest.data.path = NoPath
      BY DEF IdleRequest, EmptyMd
    <2>2. \A s \in Req : req'[s] = req[s] \/ req'[s] = IdleRequest
      BY <1>2 DEF Crash
    <2> QED BY <1>2, <2>1, <2>2 DEF Crash, PathInv, redis
  <1>3. ASSUME NEW r \in Req, Receive(r) \/ Migrate(r) \/ Progress(r)
        PROVE  PathInv'
    <2>1. /\ files \subseteq files'
          /\ \A s \in Req \ {r} : req'[s] = req[s]
          /\ req'[r].data.path \in {EmptyPath, NoPath} \cup files'
      BY <1>3, RowSteps
    <2>2. \A s \in Req : req'[s].data.path \in {EmptyPath, NoPath} \cup files'
      BY <2>1 DEF PathInv
    <2>h. req[r].h \in Hash
      BY <1>f DEF Request
    <2>3. \A h \in Hash, hk \in Hotkey :
            entry'[h][hk] # NoMd =>
              \/ entry'[h][hk] = entry[h][hk]
              \/ entry'[h][hk].path \in {EmptyPath} \cup files
      <3>1. CASE UNCHANGED redis
        BY <3>1 DEF redis
      <3>2. CASE CvDelete(r)
        BY <3>2, <1>f, <2>h DEF CvDelete, DeleteRow
      <3>3. ASSUME NEW k \in Hotkey, NEW md \in Md, md.path \in {EmptyPath} \cup files,
                   entry' = [entry EXCEPT ![req[r].h][k] = md]
            PROVE  \A h \in Hash, hk \in Hotkey :
                     \/ entry'[h][hk] = entry[h][hk]
                     \/ entry'[h][hk].path \in {EmptyPath} \cup files
        BY <3>3, <1>f, <2>h
      <3> QED BY <1>3, <3>1, <3>2, <3>3, RowSteps
    <2> QED BY <2>1, <2>2, <2>3 DEF PathInv
  <1> QED BY <1>1, <1>2, <1>3 DEF Next

\* So they do in every behaviour.
LEMMA PathInvariant == Spec => []PathInv
  <1>1. Init => PathInv
    BY DEF Init, PathInv, IdleRequest, EmptyMd
  <1> QED BY <1>1, PathStep, IndexInvariant, PTL DEF Spec

\* A step that loses the file of h is one of the two kinds.
LEMMA LossStep ==
  ASSUME IndexInv, PathInv, [Next]_vars,
         NEW h \in Hash, Located(h), ~Located(h)'
  PROVE  \E r \in Req : WritesUnknownPath(r, h) \/ KilledInConversion(r, h)
  <1>f. /\ entry \in [Hash -> [Hotkey -> Md \cup {NoMd}]]
        /\ legacy \in [Hash -> OldMd \cup {NoMd}]
        /\ req \in [Req -> Request]
    BY DEF IndexInv, TypeOK
  <1>1. CASE UNCHANGED vars
    BY <1>1 DEF vars, Located, At
  <1>2. CASE Crash
    <2>1. UNCHANGED <<entry, legacy, files>>
      BY <1>2 DEF Crash, redis
    <2>2. PICK r \in Req :
            req[r].h = h /\ At(r, "cv_set") /\ req[r].old.path \in files
      BY <2>1 DEF Located
    <2>3. req'[r] # req[r]
      BY <2>1, <2>2 DEF Located, At
    <2>4. req'[r] = IdleRequest
      BY <1>2, <2>3 DEF Crash
    <2> QED BY <2>2, <2>4 DEF KilledInConversion, At, IdleRequest
  <1>3. ASSUME NEW r \in Req, Receive(r) \/ Migrate(r) \/ Progress(r)
        PROVE  \E s \in Req : WritesUnknownPath(s, h)
    <2>1. files \subseteq files' /\ \A s \in Req \ {r} : req'[s] = req[s]
      BY <1>3, RowSteps
    <2>h. req[r].h \in Hash
      BY <1>f DEF Request
    <2>2. ASSUME NEW s \in Req, s # r, req[s].h = h, At(s, "cv_set"),
                 req[s].old.path \in files
          PROVE  FALSE
      BY <2>2, <2>1 DEF Located, At
    <2>3. ASSUME legacy'[h] = legacy[h], entry'[h] = entry[h]
          PROVE  req[r].h = h /\ At(r, "cv_set")
      BY <2>3, <2>1, <2>2 DEF Located
    <2>4. CASE UNCHANGED redis /\ ~At(r, "cv_set")
      BY <2>4, <2>3 DEF redis
    <2>5. ASSUME CvDelete(r), req'[r].h = req[r].h, At(r, "cv_set")',
                 req'[r].old.path \in files'
          PROVE  FALSE
      <3>1. CASE req[r].h = h
        BY <2>5, <3>1 DEF Located, At
      <3>2. CASE req[r].h # h
        BY <2>5, <3>2, <2>3, <2>h, <1>f DEF CvDelete, DeleteRow
      <3> QED BY <3>1, <3>2
    <2>6. ASSUME NEW hk \in Hotkey, NEW md \in Md, UNCHANGED legacy,
                 entry' = [entry EXCEPT ![req[r].h][hk] = md],
                 \/ md.path \in files
                 \/ md.path = EmptyPath /\ WritesUnknownPath(r, req[r].h)
          PROVE  WritesUnknownPath(r, h)
      <3>1. req[r].h = h
        BY <2>6, <2>3, <2>h, <1>f
      <3>2. md.path \notin files
        <4>1. entry'[h][hk] = md /\ md # NoMd
          BY <2>6, <3>1, <1>f, NoMdAssumption
        <4> QED BY <4>1, <2>1 DEF Located
      <3> QED BY <2>6, <3>1, <3>2
    <2> QED BY <1>3, <2>4, <2>5, <2>6, RowSteps
  <1> QED BY <1>1, <1>2, <1>3 DEF Next

\* For any number of callers, hashes, conversions and concurrent requests, the
\* index loses the file of a chunk only when a process is killed between the
\* delete and the hset of convert_to_new_format, or when update_seed_info or
\* store_chunk_metadata writes back the unknown path of a field it looked for
\* while the row was deleted.
THEOREM FilesLostOnlyByWriteBack == Spec => LostOnlyByWriteBack
  <1>1. IndexInv /\ PathInv /\ [Next]_vars =>
          [\A h \in Hash : Located(h) /\ ~Located(h)' =>
             \E r \in Req : WritesUnknownPath(r, h) \/ KilledInConversion(r, h)]_vars
    BY LossStep
  <1> QED BY <1>1, IndexInvariant, PathInvariant, PTL DEF Spec, LostOnlyByWriteBack

-----------------------------------------------------------------------------
(* A caller of its own                                                     *)

\* What a request about a hash that only hk uses may be doing: the migration
\* finds no old fields; a request of hk that is past its first store finds the
\* field of hk, and never has to convert the row.
SoleRequest(q, h, hk) ==
  q.h = h /\ q.pc # "idle" =>
    IF q.op = "migrate" THEN q.pc \in {"mg_hgetall", "done"}
    ELSE /\ q.hk = hk
         /\ q.pc \notin ConvertPc \cup {"gm_raw"}
         /\ q.pc \notin {"st_hexists", "st_save", "st_exists", "st_new"} =>
              entry[h][hk] # NoMd
         /\ q.pc \in {"st_exists", "st_new", "load", "up_hset"} =>
              q.data.path = Dir(hk, h) /\ Dir(hk, h) \in files
         /\ q.pc \in {"old_hgetall", "old_hget"} => q.to = hk

\* The row of such a hash: no field but that of hk, which is there once a store
\* has returned and names the file of hk.
SoleRow(h, hk) ==
  /\ \A k \in Hotkey \ {hk} : entry[h][k] = NoMd
  /\ entry[h][hk] # NoMd =>
       entry[h][hk].path = Dir(hk, h) /\ Dir(hk, h) \in files
  /\ <<h, hk>> \in acked => entry[h][hk] # NoMd

SoleOK(h, hk) == SoleRow(h, hk) /\ \A r \in Req : SoleRequest(req[r], h, hk)

\* The invariant behind AckedServable.
SoleInv == \A h \in Hash, hk \in Patient : Sole(h, hk) => SoleOK(h, hk)

\* A step that moves r only and keeps the row, its field and the files.
LEMMA SoleFrame ==
  ASSUME NEW h \in Hash, NEW hk \in Hotkey, SoleOK(h, hk), NEW r \in Req,
         \A s \in Req \ {r} : req'[s] = req[s],
         files \subseteq files',
         entry[h][hk] # NoMd => entry'[h][hk] # NoMd,
         SoleRow(h, hk)', SoleRequest(req[r], h, hk)'
  PROVE  SoleOK(h, hk)'
  <1>1. ASSUME NEW s \in Req PROVE SoleRequest(req[s], h, hk)'
    <2>1. CASE s = r
      BY <2>1
    <2>2. CASE s # r
      BY <2>2 DEF SoleOK, SoleRequest
    <2> QED BY <2>1, <2>2
  <1> QED BY <1>1 DEF SoleOK

\* A step that moves r only.
LEMMA SolePure ==
  ASSUME NEW h \in Hash, NEW hk \in Hotkey, SoleOK(h, hk), NEW r \in Req,
         \A s \in Req \ {r} : req'[s] = req[s], UNCHANGED <<redis, files, acked>>,
         SoleRequest(req'[r], h, hk)
  PROVE  SoleOK(h, hk)'
  <1>1. SoleRow(h, hk)' /\ SoleRequest(req[r], h, hk)'
    BY DEF SoleOK, SoleRow, SoleRequest, redis
  <1> QED BY <1>1, SoleFrame DEF redis

\* A new request about the hash comes from its caller, and it is no challenge or
\* retrieval before a store has returned.
LEMMA SoleArrival ==
  ASSUME IndexInv, PathInv, NEW h \in Hash, NEW hk \in Hotkey, hk \in Patient, Sole(h, hk),
         SoleOK(h, hk), NEW r \in Req, Receive(r) \/ Migrate(r)
  PROVE  SoleOK(h, hk)'
  <1>f. req \in [Req -> Request] /\ IdleRequest \in Request
    BY IdleOK DEF IndexInv, TypeOK
  <1>1. CASE Receive(r)
    <2>1. PICK op \in Op \ {"migrate"}, g \in Hash :
            \E k \in IF op = "store" THEN Storers[g] ELSE Readers[g] :
              /\ (op # "store" /\ k \in Patient) => <<g, k>> \in acked
              /\ Become(r, [IdleRequest EXCEPT
                         !.pc = IF op = "store" THEN "st_hexists"
                                                ELSE "gm_hgetall",
                         !.op = op, !.hk = k, !.h = g])
      BY <1>1 DEF Receive
    <2>2. PICK k \in Hotkey :
              /\ g = h => k = hk
              /\ (op # "store" /\ k \in Patient) => <<g, k>> \in acked
              /\ Become(r, [IdleRequest EXCEPT
                         !.pc = IF op = "store" THEN "st_hexists"
                                                ELSE "gm_hgetall",
                         !.op = op, !.hk = k, !.h = g])
      BY <2>1, StorersAssumption, ReadersAssumption DEF Sole
    <2> DEFINE q == [IdleRequest EXCEPT
                         !.pc = IF op = "store" THEN "st_hexists"
                                                ELSE "gm_hgetall",
                         !.op = op, !.hk = k, !.h = g]
    <2>3. /\ q.h = g /\ q.hk = k /\ q.op = op
          /\ q.pc = IF op = "store" THEN "st_hexists" ELSE "gm_hgetall"
      BY <1>f DEF Request
    <2> HIDE DEF q
    <2>4. SoleRequest(q, h, hk)
      BY <2>2, <2>3 DEF SoleRequest, SoleOK, SoleRow, ConvertPc
    <2>5. req'[r] = q /\ \A s \in Req \ {r} : req'[s] = req[s]
      BY <1>f, <2>2 DEF Become, q
    <2>6. UNCHANGED <<redis, files, acked>>
      BY <1>1 DEF Receive
    <2> QED BY <2>4, <2>5, <2>6, SolePure
  <1>2. CASE Migrate(r)
    <2>1. PICK g \in Hash :
            Become(r, [IdleRequest EXCEPT !.pc = "mg_hgetall", !.op = "migrate", !.h = g])
      BY <1>2 DEF Migrate
    <2>2. /\ req'[r].op = "migrate" /\ req'[r].pc = "mg_hgetall"
          /\ \A s \in Req \ {r} : req'[s] = req[s]
      BY <1>f, <2>1 DEF Become, Request
    <2>3. SoleRequest(req'[r], h, hk)
      BY <2>2 DEF SoleRequest
    <2>4. UNCHANGED <<redis, files, acked>>
      BY <1>2 DEF Migrate
    <2> QED BY <2>2, <2>3, <2>4, SolePure
  <1> QED BY <1>1, <1>2

\* Requests about other hashes do not touch the row.
LEMMA SoleElsewhere ==
  ASSUME IndexInv, PathInv, NEW h \in Hash, NEW hk \in Hotkey, SoleOK(h, hk), NEW r \in Req,
         Progress(r), req[r].h # h
  PROVE  SoleOK(h, hk)'
  <1>f. /\ req[r] \in Request /\ req \in [Req -> Request] /\ req[r].h \in Hash
        /\ entry \in [Hash -> [Hotkey -> Md \cup {NoMd}]]
    BY RequestFacts DEF IndexInv, TypeOK, Request
  <1>g. PICK D : req[r] = [f \in D |-> req[r][f]] /\ "h" \in D
    BY <1>f DEF Request
  <1>1. \A s \in Req \ {r} : req'[s] = req[s]
    BY RowSteps
  <1>2. entry'[h] = entry[h]
    <2>1. CASE CvDelete(r)
      BY <2>1, <1>f DEF CvDelete, DeleteRow
    <2> QED BY <2>1, <1>f, RowSteps DEF redis
  <1>3. req'[r].h = req[r].h \/ req'[r] = IdleRequest
    <2>1. CASE Store(r)
      <3>1. CASE StHexists(r)
        BY <3>1, <1>f, <1>g DEF StHexists, Goto, Become
      <3>2. CASE StSave(r)
        BY <3>2, <1>f, <1>g DEF StSave, Become
      <3>3. CASE StGetFilepath(r)
        BY <3>3, <1>f, <1>g DEF StGetFilepath, Become
      <3>4. CASE StExists(r)
        BY <3>4, <1>f, <1>g DEF StExists, Goto, Become
      <3>5. CASE StHget(r)
        BY <3>5, <1>f, <1>g DEF StHget, CallConvert, CallUpdate, Become
      <3>6. CASE StNew(r)
        BY <3>6, <1>f, <1>g DEF StNew, Finish, Become
      <3> QED BY <2>1, <3>1, <3>2, <3>3, <3>4, <3>5, <3>6 DEF Store
    <2>2. CASE UpdateSeedInfo(r)
      <3>1. CASE MgHgetall(r)
        BY <3>1, <1>f, <1>g DEF MgHgetall, Finish, Become
      <3>2. CASE OldHgetall(r)
        BY <3>2, <1>f, <1>g DEF OldHgetall, Goto, Become
      <3>3. CASE OldHget(r)
        BY <3>3, <1>f, <1>g DEF OldHget, Goto, CallConvert, Become
      <3>4. CASE UpHget(r)
        BY <3>4, <1>f, <1>g DEF UpHget, Become
      <3>5. CASE UpHset(r)
        BY <3>5, <1>f, <1>g DEF UpHset, Finish, Become
      <3> QED BY <2>2, <3>1, <3>2, <3>3, <3>4, <3>5 DEF UpdateSeedInfo
    <2>3. CASE ConvertToNewFormat(r)
      <3>1. CASE CvHgetall(r)
        BY <3>1, <1>f, <1>g DEF CvHgetall, ReturnFromConvert, Become
      <3>2. CASE CvBoth(r)
        BY <3>2, <1>f, <1>g DEF CvBoth, Goto, Become
      <3>3. CASE CvDelete(r)
        BY <3>3, <1>f, <1>g DEF CvDelete, Goto, Become
      <3>4. CASE CvSet(r)
        BY <3>4, <1>f, <1>g DEF CvSet, ReturnFromConvert, Become
      <3> QED BY <2>3, <3>1, <3>2, <3>3, <3>4 DEF ConvertToNewFormat
    <2>4. CASE GetChunkMetadata(r)
      <3>1. CASE GmHgetall(r)
        BY <3>1, <1>f, <1>g DEF GmHgetall, Goto, Become
      <3>2. CASE GmHget(r)
        BY <3>2, <1>f, <1>g DEF GmHget, CallConvert, Goto, Become
      <3>3. CASE GmRead(r)
        BY <3>3, <1>f, <1>g DEF GmRead, Goto, Become
      <3>4. CASE GmRaw(r)
        BY <3>4, <1>f, <1>g DEF GmRaw, Become
      <3>5. CASE Load(r)
        BY <3>5, <1>f, <1>g DEF Load, CallUpdate, Finish, Become
      <3> QED BY <2>4, <3>1, <3>2, <3>3, <3>4, <3>5 DEF GetChunkMetadata
    <2>5. CASE Reply(r)
      BY <2>5, <1>f DEF Reply, Become
    <2> QED BY <2>1, <2>2, <2>3, <2>4, <2>5 DEF Progress
  <1>4. SoleRequest(req[r], h, hk)'
    BY <1>3 DEF SoleRequest, IdleRequest
  <1>5. files \subseteq files' /\ (<<h, hk>> \in acked' => <<h, hk>> \in acked)
    BY DEF Progress, Store, StHexists, StSave, StGetFilepath, StExists, StHget,
       StNew, UpdateSeedInfo, MgHgetall, OldHgetall, OldHget, UpHget, UpHset,
       ConvertToNewFormat, CvHgetall, CvBoth, CvDelete, CvSet, GetChunkMetadata,
       GmHgetall, GmHget, GmRead, GmRaw, Load, Reply
  <1>6. SoleRow(h, hk)'
    BY <1>2, <1>5 DEF SoleOK, SoleRow
  <1> QED BY <1>1, <1>2, <1>4, <1>5, <1>6, SoleFrame
\* What the invariants say about a request for the hash and about its row.
LEMMA SoleFacts ==
  ASSUME IndexInv, PathInv, NEW h \in Hash, NEW hk \in Hotkey, Sole(h, hk), SoleOK(h, hk),
         NEW r \in Req, req[r].h = h, ~At(r, "idle")
  PROVE  /\ req[r] \in Request /\ req \in [Req -> Request]
         /\ entry \in [Hash -> [Hotkey -> Md \cup {NoMd}]]
         /\ legacy[h] = NoMd
         /\ RowEmpty(h) <=> entry[h][hk] = NoMd
         /\ SoleRequest(req[r], h, hk) /\ SoleRow(h, hk)
         /\ \A s \in Req : s # r => s \in Req \ {r}
  <1>1. /\ req[r] \in Request /\ req \in [Req -> Request]
        /\ entry \in [Hash -> [Hotkey -> Md \cup {NoMd}]]
    BY RequestFacts DEF IndexInv, TypeOK
  <1>2. legacy[h] = NoMd
    BY DEF IndexInv, LegacyOK, Sole
  <1>3. RowEmpty(h) <=> entry[h][hk] = NoMd
    BY <1>2 DEF RowEmpty, SoleOK, SoleRow
  <1> QED BY <1>1, <1>2, <1>3 DEF SoleOK

\* The steps of a store about the hash.
LEMMA SoleStore ==
  ASSUME IndexInv, PathInv, NEW h \in Hash, NEW hk \in Hotkey, Sole(h, hk), SoleOK(h, hk),
         NEW r \in Req, req[r].h = h, Store(r)
  PROVE  SoleOK(h, hk)'
  <1>i. ~At(r, "idle")
    BY DEF Store, StHexists, StSave, StGetFilepath, StExists, StHget, StNew, At
  <1>f. /\ req[r] \in Request /\ req \in [Req -> Request]
        /\ entry \in [Hash -> [Hotkey -> Md \cup {NoMd}]]
        /\ RowEmpty(h) <=> entry[h][hk] = NoMd
        /\ SoleRequest(req[r], h, hk) /\ SoleRow(h, hk)
    BY <1>i, SoleFacts
  <1>o. /\ req[r].pc # "idle" /\ req[r].op # "migrate" /\ req[r].hk = hk
        /\ Field(r) = entry[h][hk]
    BY <1>f DEF Store, StHexists, StSave, StGetFilepath, StExists, StHget, StNew,
       At, SoleRequest, Field
  <1>s. \A s \in Req \ {r} : req'[s] = req[s]
    BY RowSteps DEF Progress
  <1>1. CASE StHexists(r)
    <2>1. req'[r] = [req[r] EXCEPT !.pc = IF entry[h][hk] = NoMd THEN "st_save" ELSE "st_getpath"]
      BY <1>1, <1>f, <1>o DEF StHexists, Goto, Become
    <2>2. SoleRequest(req'[r], h, hk)
      BY <2>1, <1>f, <1>o DEF SoleRequest, ConvertPc, Request
    <2> QED BY <1>1, <2>2, <1>s, SolePure DEF StHexists
  <1>2. CASE StGetFilepath(r)
    <2>1. entry[h][hk] # NoMd /\ entry[h][hk].path = Dir(hk, h) /\ Dir(hk, h) \in files
      BY <1>2, <1>f, <1>o DEF StGetFilepath, At, SoleRequest, SoleRow
    <2>2. req'[r] = [req[r] EXCEPT !.pc = "st_exists", !.data.path = Dir(hk, h)]
      BY <1>2, <1>f, <1>o, <2>1 DEF StGetFilepath, Become
    <2>3. req[r].data \in Md
      BY <1>f DEF Request
    <2>4. SoleRequest(req'[r], h, hk)
      BY <2>1, <2>2, <2>3, <1>f, <1>o DEF SoleRequest, ConvertPc, Request, Md
    <2> QED BY <1>2, <2>4, <1>s, SolePure DEF StGetFilepath
  <1>3. CASE StExists(r)
    <2>1. req'[r] = [req[r] EXCEPT !.pc = IF entry[h][hk] = NoMd THEN "st_new" ELSE "st_hget"]
      BY <1>3, <1>f, <1>o DEF StExists, Goto, Become
    <2>2. SoleRequest(req'[r], h, hk)
      BY <1>3, <2>1, <1>f, <1>o DEF SoleRequest, ConvertPc, Request, StExists, At
    <2> QED BY <1>3, <2>2, <1>s, SolePure DEF StExists
  <1>4. CASE StHget(r)
    <2>1. entry[h][hk] # NoMd
      BY <1>4, <1>f, <1>o DEF StHget, At, SoleRequest
    <2>2. req'[r] = [req[r] EXCEPT !.pc = "old_hgetall", !.to = req[r].hk, !.data = EmptyMd]
      BY <1>4, <1>f, <1>o, <2>1 DEF StHget, Become, CallUpdate
    <2>3. SoleRequest(req'[r], h, hk)
      BY <2>1, <2>2, <1>f, <1>o DEF SoleRequest, ConvertPc, Request
    <2> QED BY <1>4, <2>3, <1>s, SolePure DEF StHget
  <1>5. CASE StSave(r)
    <2>1. /\ req'[r] = [req[r] EXCEPT !.pc = "st_exists", !.data.path = Dir(hk, h)]
          /\ files' = files \cup {Dir(hk, h)} /\ UNCHANGED <<redis, acked>>
      BY <1>5, <1>f, <1>o DEF StSave, Become
    <2>2. req[r].data \in Md
      BY <1>f DEF Request
    <2>3. SoleRequest(req[r], h, hk)'
      BY <2>1, <2>2, <1>f, <1>o DEF SoleRequest, ConvertPc, Request, Md
    <2>4. SoleRow(h, hk)' /\ files \subseteq files' /\ entry' = entry
      BY <2>1, <1>f DEF SoleRow, redis
    <2> QED BY <2>3, <2>4, <1>s, SoleFrame
  <1>6. CASE StNew(r)
    <2>1. req[r].data.path = Dir(hk, h) /\ Dir(hk, h) \in files
      BY <1>6, <1>f, <1>o DEF StNew, At, SoleRequest
    <2>2. /\ entry' = [entry EXCEPT ![h][hk] = [path |-> Dir(hk, h), seed |-> CallerSeed(r)]]
          /\ UNCHANGED <<files, acked>>
          /\ req'[r] = [req[r] EXCEPT !.pc = "done", !.status = "ok", !.data = EmptyMd]
      BY <1>6, <1>f, <1>o, <2>1 DEF StNew, Finish, Become
    <2>3. [path |-> Dir(hk, h), seed |-> CallerSeed(r)] \in Md
      BY <1>o DEF Md, Seed, CallerSeed, Path, File
    <2>4. /\ \A k \in Hotkey \ {hk} : entry'[h][k] = entry[h][k]
          /\ entry'[h][hk].path = Dir(hk, h) /\ entry'[h][hk] # NoMd
      BY <2>2, <2>3, <1>f, NoMdAssumption
    <2>5. SoleRow(h, hk)'
      BY <2>1, <2>2, <2>4, <1>f DEF SoleRow
    <2>6. SoleRequest(req[r], h, hk)'
      BY <2>2, <2>4, <1>f, <1>o DEF SoleRequest, ConvertPc, Request
    <2> QED BY <2>2, <2>4, <2>5, <2>6, <1>s, SoleFrame
  <1> QED BY <1>1, <1>2, <1>3, <1>4, <1>5, <1>6 DEF Store

\* Neither a store nor a challenge of the hash ever has to convert its row.
LEMMA SoleNoConversion ==
  ASSUME IndexInv, PathInv, NEW h \in Hash, NEW hk \in Hotkey, Sole(h, hk), SoleOK(h, hk),
         NEW r \in Req, req[r].h = h
  PROVE  ~ConvertToNewFormat(r)
  <1> SUFFICES ASSUME ConvertToNewFormat(r) PROVE FALSE
    OBVIOUS
  <1>1. req[r].pc \in ConvertPc
    BY DEF ConvertToNewFormat, CvHgetall, CvBoth, CvDelete, CvSet, At, ConvertPc
  <1>2. SoleRequest(req[r], h, hk)
    BY DEF SoleOK
  <1> QED BY <1>1, <1>2 DEF SoleRequest, ConvertPc
\* The steps of update_seed_info about the hash.
LEMMA SoleUpdate ==
  ASSUME IndexInv, PathInv, NEW h \in Hash, NEW hk \in Hotkey, Sole(h, hk), SoleOK(h, hk),
         NEW r \in Req, req[r].h = h, UpdateSeedInfo(r)
  PROVE  SoleOK(h, hk)'
  <1>i. ~At(r, "idle")
    BY DEF UpdateSeedInfo, MgHgetall, OldHgetall, OldHget, UpHget, UpHset, At
  <1>f. /\ req[r] \in Request /\ req \in [Req -> Request]
        /\ entry \in [Hash -> [Hotkey -> Md \cup {NoMd}]]
        /\ legacy[h] = NoMd
        /\ RowEmpty(h) <=> entry[h][hk] = NoMd
        /\ SoleRequest(req[r], h, hk) /\ SoleRow(h, hk)
    BY <1>i, SoleFacts
  <1>s. \A s \in Req \ {r} : req'[s] = req[s]
    BY RowSteps DEF Progress
  <1>1. CASE MgHgetall(r)
    <2>1. req[r].op = "migrate"
      BY <1>1, RequestFacts DEF MgHgetall, At, RequestOK, ControlOK
    <2>2. req'[r] = [req[r] EXCEPT !.pc = "done", !.status = "ok", !.data = EmptyMd]
      BY <1>1, <1>f DEF MgHgetall, Finish, Become
    <2>3. SoleRequest(req'[r], h, hk)
      BY <2>1, <2>2, <1>f DEF SoleRequest, Request
    <2> QED BY <1>1, <2>3, <1>s, SolePure DEF MgHgetall
  <1>o. CASE ~MgHgetall(r)
    <2>o. /\ req[r].pc \in UpdatePc /\ req[r].op # "migrate" /\ req[r].hk = hk
          /\ entry[h][hk] # NoMd /\ entry[h][hk] = Field(r) /\ NotOldPc(r) = "up_hget"
      BY <1>o, <1>f DEF UpdateSeedInfo, OldHgetall, OldHget, UpHget, UpHset,
         At, SoleRequest, Field, UpdatePc, NotOldPc
    <2>1. CASE OldHgetall(r)
      <3>1. req'[r] = [req[r] EXCEPT !.pc = "old_hget"]
        BY <2>1, <2>o, <1>f DEF OldHgetall, Goto, Become
      <3>2. req[r].to = hk
        BY <2>1, <2>o, <1>f DEF OldHgetall, At, SoleRequest
      <3>3. SoleRequest(req'[r], h, hk)
        BY <3>1, <3>2, <2>o, <1>f DEF SoleRequest, ConvertPc, Request
      <3> QED BY <2>1, <3>3, <1>s, SolePure DEF OldHgetall
    <2>2. CASE OldHget(r)
      <3>1. req[r].to = hk
        BY <2>2, <2>o, <1>f DEF OldHget, At, SoleRequest
      <3>2. req'[r] = [req[r] EXCEPT !.pc = "up_hget"]
        BY <2>2, <2>o, <3>1, <1>f DEF OldHget, Goto, Become
      <3>3. SoleRequest(req'[r], h, hk)
        BY <3>2, <2>o, <1>f DEF SoleRequest, ConvertPc, Request
      <3> QED BY <2>2, <3>3, <1>s, SolePure DEF OldHget
    <2>3. CASE UpHget(r)
      <3> DEFINE md == UpdatedMd(Field(r), CallerSeed(r))
      <3>1. md.path = Dir(hk, h) /\ Dir(hk, h) \in files
        BY <2>o, <1>f DEF UpdatedMd, SoleRow, Md
      <3>2. req'[r] = [req[r] EXCEPT !.pc = "up_hset", !.data = md]
        BY <2>3, <1>f DEF UpHget, Become
      <3> HIDE DEF md
      <3>3. SoleRequest(req'[r], h, hk)
        BY <3>1, <3>2, <2>o, <1>f DEF SoleRequest, ConvertPc, Request
      <3> QED BY <2>3, <3>3, <1>s, SolePure DEF UpHget
    <2>4. CASE UpHset(r)
      <3>1. /\ req[r].data.path = Dir(hk, h) /\ Dir(hk, h) \in files
            /\ req[r].data \in Md
        BY <2>4, <2>o, <1>f DEF UpHset, At, SoleRequest, Request
      <3>2. /\ entry' = [entry EXCEPT ![h][hk] = req[r].data]
            /\ UNCHANGED <<files, acked>>
            /\ req'[r] = [req[r] EXCEPT !.pc = "done", !.status = "ok", !.data = EmptyMd]
        BY <2>4, <2>o, <1>f DEF UpHset, Finish, Become
      <3>3. /\ \A k \in Hotkey \ {hk} : entry'[h][k] = entry[h][k]
            /\ entry'[h][hk].path = Dir(hk, h) /\ entry'[h][hk] # NoMd
        BY <3>1, <3>2, <1>f, NoMdAssumption
      <3>4. SoleRow(h, hk)'
        BY <3>1, <3>2, <3>3, <1>f DEF SoleRow
      <3>5. SoleRequest(req[r], h, hk)'
        BY <3>2, <3>3, <2>o, <1>f DEF SoleRequest, ConvertPc, Request
      <3> QED BY <3>2, <3>3, <3>4, <3>5, <1>s, SoleFrame
    <2> QED BY <1>o, <2>1, <2>2, <2>3, <2>4 DEF UpdateSeedInfo
  <1> QED BY <1>1, <1>o

\* The steps of a challenge or a retrieval of the hash: it finds the field.
LEMMA SoleLookup ==
  ASSUME IndexInv, PathInv, NEW h \in Hash, NEW hk \in Hotkey, Sole(h, hk), SoleOK(h, hk),
         NEW r \in Req, req[r].h = h, GetChunkMetadata(r)
  PROVE  SoleOK(h, hk)'
  <1>i. ~At(r, "idle")
    BY DEF GetChunkMetadata, GmHgetall, GmHget, GmRead, GmRaw, Load, At
  <1>f. /\ req[r] \in Request /\ req \in [Req -> Request]
        /\ entry \in [Hash -> [Hotkey -> Md \cup {NoMd}]]
        /\ RowEmpty(h) <=> entry[h][hk] = NoMd
        /\ SoleRequest(req[r], h, hk) /\ SoleRow(h, hk)
    BY <1>i, SoleFacts
  <1>o. /\ req[r].pc \in {"gm_hgetall", "gm_hget", "gm_read", "load"}
        /\ req[r].op # "migrate" /\ req[r].hk = hk
        /\ entry[h][hk] # NoMd /\ entry[h][hk] = Field(r)
        /\ entry[h][hk].path = Dir(hk, h) /\ Dir(hk, h) \in files
    BY <1>f DEF GetChunkMetadata, GmHgetall, GmHget, GmRead, GmRaw, Load,
       At, SoleRequest, SoleRow, Field
  <1>s. \A s \in Req \ {r} : req'[s] = req[s]
    BY RowSteps DEF Progress
  <1>u. UNCHANGED <<redis, files, acked>>
    BY DEF GetChunkMetadata, GmHgetall, GmHget, GmRead, GmRaw, Load
  <1>1. CASE GmHgetall(r) \/ GmHget(r)
    <2>1. \E pc \in {"gm_hget", "gm_read"} : req'[r] = [req[r] EXCEPT !.pc = pc]
      BY <1>1, <1>o, <1>f DEF GmHgetall, GmHget, Goto, Become
    <2>2. SoleRequest(req'[r], h, hk)
      BY <2>1, <1>o, <1>f DEF SoleRequest, ConvertPc, Request
    <2> QED BY <2>2, <1>s, <1>u, SolePure
  <1>2. CASE GmRead(r)
    <2>1. req'[r] = [req[r] EXCEPT !.pc = "load", !.data = entry[h][hk]]
      BY <1>2, <1>o, <1>f DEF GmRead, Become
    <2>2. SoleRequest(req'[r], h, hk)
      BY <2>1, <1>o, <1>f DEF SoleRequest, ConvertPc, Request
    <2> QED BY <2>2, <1>s, <1>u, SolePure
  <1>3. CASE Load(r)
    <2>1. Resolve(req[r]) \in {req[r].data.path, Dir(hk, h)}
      BY <1>3, <1>o DEF Resolve
    <2>2. req[r].data.path = Dir(hk, h)
      BY <1>3, <1>o, <1>f DEF Load, At, SoleRequest
    <2>3. Become(r, CallUpdate([req[r] EXCEPT !.proof = req[r].data.seed]))
      BY <1>3, <1>o, <2>1, <2>2 DEF Load
    <2> DEFINE p == [req[r] EXCEPT !.proof = req[r].data.seed]
    <2>4. p.h = h /\ p.hk = hk /\ p.op = req[r].op /\ p \in Request
      <3>1. req[r].data.seed \in Seed \cup {NoSeed}
        BY <1>f DEF Request, Md
      <3> QED BY <1>f, <1>o, <3>1 DEF Request
    <2> HIDE DEF p
    <2>5. req'[r] = [p EXCEPT !.pc = "old_hgetall", !.to = p.hk, !.data = EmptyMd]
      BY <2>3, <1>f DEF Become, CallUpdate, p
    <2>6. SoleRequest(req'[r], h, hk)
      BY <2>4, <2>5, <1>o DEF SoleRequest, ConvertPc, Request
    <2> QED BY <2>6, <1>s, <1>u, SolePure
  <1> QED BY <1>1, <1>2, <1>3, <1>o DEF GetChunkMetadata, GmRaw, At

\* When a store of the hash returns, its field is there.
LEMMA SoleReply ==
  ASSUME IndexInv, PathInv, NEW h \in Hash, NEW hk \in Hotkey, Sole(h, hk), SoleOK(h, hk),
         NEW r \in Req, req[r].h = h, Reply(r)
  PROVE  SoleOK(h, hk)'
  <1>i. ~At(r, "idle") /\ At(r, "done")
    BY DEF Reply, At
  <1>f. /\ req[r] \in Request /\ req \in [Req -> Request]
        /\ SoleRequest(req[r], h, hk) /\ SoleRow(h, hk)
    BY <1>i, SoleFacts
  <1>s. req'[r] = IdleRequest /\ UNCHANGED <<redis, files>> /\ \A s \in Req \ {r} : req'[s] = req[s]
    BY <1>f, RowSteps DEF Progress, Reply, Become
  <1>1. req[r].op = "store" => req[r].hk = hk /\ entry[h][hk] # NoMd
    BY <1>i, <1>f DEF SoleRequest, At
  <1>2. <<h, hk>> \in acked' => <<h, hk>> \in acked \/ entry[h][hk] # NoMd
    BY <1>1 DEF Reply
  <1>3. SoleRow(h, hk)'
    BY <1>2, <1>s, <1>f DEF SoleRow, redis
  <1>4. SoleRequest(req[r], h, hk)'
    BY <1>s DEF SoleRequest, IdleRequest
  <1> QED BY <1>3, <1>4, <1>s, SoleFrame DEF redis

\* Every step keeps SoleInv.
LEMMA SoleNext == IndexInv /\ PathInv /\ SoleInv /\ [Next]_vars => SoleInv'
  <1> SUFFICES ASSUME IndexInv, PathInv, SoleInv, [Next]_vars,
                      NEW h \in Hash, NEW hk \in Patient, Sole(h, hk)
               PROVE  SoleOK(h, hk)'
    BY DEF SoleInv, Sole
  <1>0. hk \in Hotkey /\ SoleOK(h, hk)
    BY PatientAssumption DEF SoleInv
  <1>1. CASE UNCHANGED vars
    BY <1>0, <1>1 DEF vars, SoleOK, SoleRow, SoleRequest
  <1>2. CASE Crash
    <2>1. /\ \A r \in Req : req'[r] \in {req[r], IdleRequest}
          /\ UNCHANGED <<redis, files, acked>>
      BY <1>2 DEF Crash
    <2>2. SoleRow(h, hk)'
      BY <1>0, <2>1 DEF SoleOK, SoleRow, redis
    <2>3. ASSUME NEW r \in Req PROVE SoleRequest(req[r], h, hk)'
      <3>1. CASE req'[r] = req[r]
        BY <1>0, <2>1, <3>1 DEF SoleOK, SoleRequest, redis
      <3>2. CASE req'[r] = IdleRequest
        BY <3>2 DEF SoleRequest, IdleRequest
      <3> QED BY <2>1, <3>1, <3>2
    <2> QED BY <2>2, <2>3 DEF SoleOK
  <1>3. ASSUME NEW r \in Req, Receive(r) \/ Migrate(r) PROVE SoleOK(h, hk)'
    BY <1>0, <1>3, SoleArrival
  <1>4. ASSUME NEW r \in Req, Progress(r), req[r].h # h PROVE SoleOK(h, hk)'
    BY <1>0, <1>4, SoleElsewhere
  <1>5. ASSUME NEW r \in Req, Progress(r), req[r].h = h PROVE SoleOK(h, hk)'
    BY <1>0, <1>5, SoleStore, SoleUpdate, SoleLookup, SoleReply, SoleNoConversion
       DEF Progress
  <1> QED BY <1>1, <1>2, <1>3, <1>4, <1>5 DEF Next

\* At the start nothing is stored for a hash without an owner.
LEMMA SoleInit == Init => SoleInv
  BY PatientAssumption DEF Init, SoleInv, SoleOK, SoleRow, SoleRequest, IdleRequest

\* What a caller has to itself it never loses: for any number of requests in
\* progress, about this and other hashes, migrations and kills, the index holds the
\* metadata of every acknowledged store, with the path of a file that exists.
THEOREM AckedStoresAreServed == Spec => []AckedServable
  <1>1. SoleInv => AckedServable
    BY PatientAssumption DEF SoleInv, SoleOK, SoleRow, AckedServable
  <1> QED BY <1>1, SoleInit, SoleNext, IndexInvariant, PathInvariant, PTL DEF Spec
=============================================================================
