------------------------------ MODULE Bonding ------------------------------
(***************************************************************************)
(* The reputation of one miner: the redis hash stats:{hotkey} and the      *)
(* functions of storage/validator/bonding.py that read and write it.       *)
(*                                                                         *)
(* The hash is shared by processes that know nothing of each other: the    *)
(* validator (update_statistics after every task, compute_all_tiers every  *)
(* 1080 blocks), the API node (update_statistics after every user store or *)
(* retrieve) and the rebalance script (register_miner when a hotkey was    *)
(* replaced).  Every redis command is one step, and the steps of the       *)
(* processes interleave.                                                   *)
(***************************************************************************)
EXTENDS Integers, FiniteSets

CONSTANTS
  Updater,      \* coroutines that may be inside update_statistics
  TopTier,      \* tiers are 0 (Bronze) .. TopTier
  MinScore,     \* [1..TopTier -> Nat]: Wilson score of a tier, in percent
  MinTotal,     \* [1..TopTier -> Nat]: total successes of a tier
  Settings,     \* rows at the start, and what other processes do
  MaxUpdates, MaxComputes, MaxRegisters   \* bounds on the calls explored

ASSUME TierAssumption ==
  /\ TopTier \in Nat
  /\ MinScore \in [1..TopTier -> Nat]
  /\ MinTotal \in [1..TopTier -> Nat]
\* shared: calls of different processes overlap; registers: the rebalance script
\* may register the hotkey again.
ASSUME SettingAssumption ==
  Settings \subseteq [start : {"none", "registered", "legacy"},
                     shared : BOOLEAN, registers : BOOLEAN]
ASSUME UpdaterAssumption == IsFiniteSet(Updater)
ASSUME BoundAssumption ==
  MaxUpdates \in Nat /\ MaxComputes \in Nat /\ MaxRegisters \in Nat

Tier == 0..TopTier

\* The task types that have counters; the monitor has none.
Counted == {"store", "challenge", "retrieve"}
Task == Counted \cup {"monitor"}

Absent == -1                    \* a field that is not in the hash
Optional == Nat \cup {Absent}

VARIABLES
  exists,    \* stats:{hotkey} exists
  suc, att,  \* {task}_successes and {task}_attempts
  total,     \* total_successes, or Absent
  tier,      \* tier
  limit,     \* storage_limit, named by the tier it belongs to
  oldSuc,    \* retrieval_successes, the name before the rename, or Absent
  oldAtt,    \* retrieval_attempts, or Absent
  upd,       \* update_statistics in progress
  comp,      \* compute_all_tiers in progress
  reported,  \* history: the calls that reported a success
  calls,     \* how many calls of each kind were made
  setting    \* one of Settings, for good

row  == <<exists, suc, att, total, tier, limit, oldSuc, oldAtt>>
vars == <<row, upd, comp, reported, calls, setting>>

-----------------------------------------------------------------------------
(* The stored row                                                          *)

NoCount == [t \in Counted |-> 0]

\* register_miner: one hmset.  The legacy fields are not among its keys.
WriteFreshRow ==
  /\ exists' = TRUE
  /\ suc' = NoCount
  /\ att' = NoCount
  /\ total' = 0
  /\ tier' = 0
  /\ limit' = 0
  /\ UNCHANGED <<oldSuc, oldAtt, reported>>

UpdPc == {"idle", "exists", "register", "attempt", "success",
          "old_suc", "set_suc", "del_suc", "old_att", "set_att", "del_att",
          "total", "sum_store", "sum_challenge", "sum_retrieve", "set_total",
          "inc_total"}
Upd == [pc : UpdPc, task : Task, ok : BOOLEAN, acc : Optional]
IdleUpd == [pc |-> "idle", task |-> "monitor", ok |-> FALSE, acc |-> 0]

At(u, pc) == upd[u].pc = pc
UpdGoto(u, pc) == upd' = [upd EXCEPT ![u].pc = pc]
UpdCarry(u, pc, acc) ==
  upd' = [upd EXCEPT ![u].pc = pc, ![u].acc = acc]

CompPc == {"idle", "suc_challenge", "att_challenge", "suc_retrieve",
           "att_retrieve", "suc_store", "att_store", "total", "tier",
           "limit", "default_limit", "set_limit", "reset", "failed"}
Comp == [pc : CompPc, s : Nat, a : Nat, total : Nat, tier : Tier]
IdleComp == [pc |-> "idle", s |-> 0, a |-> 0, total |-> 0, tier |-> 0]

Computing == comp.pc \notin {"idle", "failed"}

-----------------------------------------------------------------------------
(* update_statistics                                                       *)

\* Calls that do not overlap start when no other is in progress.
MayBegin == setting.shared \/ (~Computing /\ \A u \in Updater : At(u, "idle"))

BeginUpdate(u) ==
  /\ At(u, "idle")
  /\ calls.update < MaxUpdates
  /\ MayBegin
  /\ \E t \in Task, ok \in BOOLEAN :
       /\ t = "monitor" => ~ok
       /\ upd' = [upd EXCEPT ![u] =
            [pc |-> "exists", task |-> t, ok |-> ok, acc |-> 0]]
       /\ reported' = IF ok THEN reported + 1 ELSE reported
  /\ calls' = [calls EXCEPT !.update = @ + 1]
  /\ UNCHANGED <<row, comp, setting>>

\* The first command after registration.
CountPc(u) == IF upd[u].task \in Counted THEN "attempt" ELSE "old_suc"

CheckRegistered(u) ==
  /\ At(u, "exists")
  /\ UpdGoto(u, IF exists THEN CountPc(u) ELSE "register")
  /\ UNCHANGED <<row, comp, reported, calls, setting>>

RegisterNew(u) ==
  /\ At(u, "register")
  /\ WriteFreshRow
  /\ UpdGoto(u, CountPc(u))
  /\ UNCHANGED <<comp, calls, setting>>

CountAttempt(u) ==
  /\ At(u, "attempt")
  /\ att' = [att EXCEPT ![upd[u].task] = @ + 1]
  /\ UpdGoto(u, IF upd[u].ok THEN "success" ELSE "old_suc")
  /\ UNCHANGED <<exists, suc, total, tier, limit, oldSuc, oldAtt, comp, reported,
                 calls, setting>>

CountSuccess(u) ==
  /\ At(u, "success")
  /\ suc' = [suc EXCEPT ![upd[u].task] = @ + 1]
  /\ UpdGoto(u, "old_suc")
  /\ UNCHANGED <<exists, att, total, tier, limit, oldSuc, oldAtt, comp, reported,
                 calls, setting>>

\* retrieval_successes -> retrieve_successes: hget, hset, hdel.
ReadOldSuc(u) ==
  /\ At(u, "old_suc")
  /\ UpdCarry(u, IF oldSuc = Absent THEN "old_att" ELSE "set_suc", oldSuc)
  /\ UNCHANGED <<row, comp, reported, calls, setting>>

MoveOldSuc(u) ==
  /\ At(u, "set_suc")
  /\ suc' = [suc EXCEPT !["retrieve"] = upd[u].acc]
  /\ UpdGoto(u, "del_suc")
  /\ UNCHANGED <<exists, att, total, tier, limit, oldSuc, oldAtt, comp, reported,
                 calls, setting>>

DropOldSuc(u) ==
  /\ At(u, "del_suc")
  /\ oldSuc' = Absent
  /\ UpdGoto(u, "old_att")
  /\ UNCHANGED <<exists, suc, att, total, tier, limit, oldAtt, comp, reported,
                 calls, setting>>

\* retrieval_attempts -> retrieve_attempts.
ReadOldAtt(u) ==
  /\ At(u, "old_att")
  /\ UpdCarry(u, IF oldAtt = Absent THEN "total" ELSE "set_att", oldAtt)
  /\ UNCHANGED <<row, comp, reported, calls, setting>>

\* A bug: writes the transition's result to the wrong counter.
MoveOldAtt_Store(u) ==
  /\ At(u, "set_att")
  /\ att' = [att EXCEPT !["store"] = upd[u].acc]
  /\ UpdGoto(u, "del_att")
  /\ UNCHANGED <<exists, suc, total, tier, limit, oldSuc, oldAtt, comp, reported,
                 calls, setting>>

MoveOldAtt(u) ==
  /\ At(u, "set_att")
  /\ att' = [att EXCEPT !["retrieve"] = upd[u].acc]
  /\ UpdGoto(u, "del_att")
  /\ UNCHANGED <<exists, suc, total, tier, limit, oldSuc, oldAtt, comp, reported,
                 calls, setting>>

DropOldAtt(u) ==
  /\ At(u, "del_att")
  /\ oldAtt' = Absent
  /\ UpdGoto(u, "total")
  /\ UNCHANGED <<exists, suc, att, total, tier, limit, oldSuc, comp, reported,
                 calls, setting>>

\* The last command: total_successes of a success, or the end.
EndUpdate(u, next) ==
  upd' = [upd EXCEPT ![u] = IF @.ok THEN [@ EXCEPT !.pc = next, !.acc = 0]
                                    ELSE IdleUpd]

ReadTotal(u) ==
  /\ At(u, "total")
  /\ IF total = Absent THEN UpdCarry(u, "sum_store", 0)
                       ELSE EndUpdate(u, "inc_total")
  /\ UNCHANGED <<row, comp, reported, calls, setting>>

\* total_successes is missing: the three counters are read one by one.
SumTask == [sum_store |-> "store", sum_challenge |-> "challenge",
            sum_retrieve |-> "retrieve"]
SumNext == [sum_store |-> "sum_challenge", sum_challenge |-> "sum_retrieve",
            sum_retrieve |-> "set_total"]

SumCounter(u) ==
  LET pc == upd[u].pc IN
  /\ pc \in DOMAIN SumTask
  /\ UpdCarry(u, SumNext[pc], upd[u].acc + suc[SumTask[pc]])
  /\ UNCHANGED <<row, comp, reported, calls, setting>>

SetTotal(u) ==
  /\ At(u, "set_total")
  /\ total' = upd[u].acc
  /\ EndUpdate(u, "inc_total")
  /\ UNCHANGED <<exists, suc, att, tier, limit, oldSuc, oldAtt, comp, reported,
                 calls, setting>>

\* A bug: writes back a value instead of incrementing in redis.
IncTotal_Stale(u) ==
  /\ At(u, "inc_total")
  /\ total' = suc["store"] + suc["challenge"] + suc["retrieve"]
  /\ upd' = [upd EXCEPT ![u] = IdleUpd]
  /\ UNCHANGED <<exists, suc, att, tier, limit, oldSuc, oldAtt, comp, reported,
                 calls, setting>>

IncTotal(u) ==
  /\ At(u, "inc_total")
  /\ total' = total + 1
  /\ upd' = [upd EXCEPT ![u] = IdleUpd]
  /\ UNCHANGED <<exists, suc, att, tier, limit, oldSuc, oldAtt, comp, reported,
                 calls, setting>>

UpdateStatistics(u) ==
  \/ BeginUpdate(u) \/ CheckRegistered(u) \/ RegisterNew(u)
  \/ CountAttempt(u) \/ CountSuccess(u)
  \/ ReadOldSuc(u) \/ MoveOldSuc(u) \/ DropOldSuc(u)
  \/ ReadOldAtt(u) \/ MoveOldAtt(u) \/ DropOldAtt(u)
  \/ ReadTotal(u) \/ SumCounter(u) \/ SetTotal(u) \/ IncTotal(u)

-----------------------------------------------------------------------------
(* compute_tier and compute_all_tiers                                      *)

\* wilson_score_interval(s, n) >= pct / 100 for s <= n.  The mean of the two
\* bounds is (s + z^2 / 2) / (n + z^2), with z^2 = 0.4549; 0.5 for n = 0.
ScoreAtLeast(s, n, pct) ==
  IF n = 0 THEN 50 >= pct
  ELSE 100 * (10000 * s + 2275) >= pct * (10000 * n + 4549)

\* The interval is the square root of a negative number.
ScoreUndefined(s, n) == n > 0 /\ s > n

\* The first tier, from the top, whose two thresholds are met.
TierOf(s, n, tot) ==
  LET met == {t \in 1..TopTier : ScoreAtLeast(s, n, MinScore[t])
                                   /\ tot >= MinTotal[t]}
  IN IF met = {} THEN 0 ELSE CHOOSE t \in met : \A w \in met : w <= t

\* The keys are listed, and the row found (compute_tier's own exists test
\* cannot fail afterwards: no function deletes a stats hash).
BeginCompute ==
  /\ comp.pc \in {"idle", "failed"}
  /\ exists
  /\ calls.compute < MaxComputes
  /\ MayBegin
  /\ comp' = [IdleComp EXCEPT !.pc = "suc_challenge"]
  /\ calls' = [calls EXCEPT !.compute = @ + 1]
  /\ UNCHANGED <<row, upd, reported, setting>>

\* The six counters are read one by one, successes before attempts.
ReadSuc == [suc_challenge |-> "challenge", suc_retrieve |-> "retrieve",
            suc_store |-> "store"]
ReadAtt == [att_challenge |-> "challenge", att_retrieve |-> "retrieve",
            att_store |-> "store"]
ReadNext == [suc_challenge |-> "att_challenge",
             att_challenge |-> "suc_retrieve",
             suc_retrieve |-> "att_retrieve", att_retrieve |-> "suc_store",
             suc_store |-> "att_store", att_store |-> "total"]

ReadCounter ==
  /\ comp.pc \in DOMAIN ReadNext
  /\ comp' = [comp EXCEPT
       !.pc = ReadNext[@],
       !.s = IF comp.pc \in DOMAIN ReadSuc THEN @ + suc[ReadSuc[comp.pc]]
                                           ELSE @,
       !.a = IF comp.pc \in DOMAIN ReadAtt THEN @ + att[ReadAtt[comp.pc]]
                                           ELSE @]
  /\ UNCHANGED <<row, upd, reported, calls, setting>>

\* Reading total_successes and scoring: the exception of an undefined score
\* ends compute_all_tiers, the statistics are then not reset.
Score ==
  LET tot == IF total = Absent THEN 0 ELSE total IN
  /\ comp.pc = "total"
  /\ comp' = IF ScoreUndefined(comp.s, comp.a)
               THEN [IdleComp EXCEPT !.pc = "failed"]
               ELSE [comp EXCEPT !.pc = "tier", !.total = tot,
                                 !.tier = TierOf(comp.s, comp.a, tot)]
  /\ UNCHANGED <<row, upd, reported, calls, setting>>

SetTier ==
  /\ comp.pc = "tier"
  /\ tier' = comp.tier
  /\ comp' = [comp EXCEPT !.pc = "limit"]
  /\ UNCHANGED <<exists, suc, att, total, limit, oldSuc, oldAtt, upd, reported,
                 calls, setting>>

ReadLimit ==
  /\ comp.pc = "limit"
  /\ comp' = [comp EXCEPT !.pc = IF limit = Absent THEN "default_limit"
                                 ELSE IF limit # comp.tier THEN "set_limit"
                                 ELSE "reset"]
  /\ UNCHANGED <<row, upd, reported, calls, setting>>

\* A row without a limit first gets the one of Bronze.
DefaultLimit ==
  /\ comp.pc = "default_limit"
  /\ limit' = 0
  /\ comp' = [comp EXCEPT !.pc = IF comp.tier # 0 THEN "set_limit"
                                                  ELSE "reset"]
  /\ UNCHANGED <<exists, suc, att, total, tier, oldSuc, oldAtt, upd, reported,
                 calls, setting>>

SetLimit ==
  /\ comp.pc = "set_limit"
  /\ limit' = comp.tier
  /\ comp' = [comp EXCEPT !.pc = "reset"]
  /\ UNCHANGED <<exists, suc, att, total, tier, oldSuc, oldAtt, upd, reported,
                 calls, setting>>

\* A bug: the rollover resets total_successes too.
Rollover_Total ==
  /\ comp.pc = "reset"
  /\ suc' = NoCount
  /\ att' = NoCount
  /\ total' = 0
  /\ comp' = IdleComp
  /\ UNCHANGED <<exists, tier, limit, oldSuc, oldAtt, upd, reported, calls, setting>>

\* rollover_storage_stats: one hmset of the six counters.
Rollover ==
  /\ comp.pc = "reset"
  /\ suc' = NoCount
  /\ att' = NoCount
  /\ comp' = IdleComp
  /\ UNCHANGED <<exists, total, tier, limit, oldSuc, oldAtt, upd, reported, calls, setting>>

\* gather raises what the compute_tier of another miner raised, and
\* compute_all_tiers ends without a reset; this row is computed all the same.
RolloverAborted ==
  /\ comp.pc = "reset"
  /\ comp' = [IdleComp EXCEPT !.pc = "failed"]
  /\ UNCHANGED <<row, upd, reported, calls, setting>>

ComputeAllTiers ==
  \/ BeginCompute \/ ReadCounter \/ Score \/ SetTier \/ ReadLimit
  \/ DefaultLimit \/ SetLimit \/ Rollover \/ RolloverAborted

\* rebalance_data_for_hotkey of a replaced hotkey resets its statistics.
Reregister ==
  /\ setting.registers
  /\ calls.register < MaxRegisters
  /\ MayBegin
  /\ WriteFreshRow
  /\ calls' = [calls EXCEPT !.register = @ + 1]
  /\ UNCHANGED <<upd, comp, setting>>

-----------------------------------------------------------------------------

\* A legacy row has the old names of the retrieve counters, and neither
\* total_successes nor a limit.
InitRow(start) ==
  /\ exists = (start # "none")
  /\ total = IF start = "registered" THEN 0 ELSE Absent
  /\ limit = IF start = "registered" THEN 0 ELSE Absent
  /\ IF start = "legacy" THEN oldSuc \in 0..2 /\ oldAtt = 2
                         ELSE oldSuc = Absent /\ oldAtt = Absent

Init ==
  /\ setting \in Settings
  /\ InitRow(setting.start)
  /\ suc = NoCount
  /\ att = NoCount
  /\ tier = 0
  /\ upd = [u \in Updater |-> IdleUpd]
  /\ comp = IdleComp
  /\ reported = 0
  /\ calls = [update |-> 0, compute |-> 0, register |-> 0]

Next ==
  \/ \E u \in Updater : UpdateStatistics(u)
  \/ ComputeAllTiers
  \/ Reregister

Spec == Init /\ [][Next]_vars

-----------------------------------------------------------------------------
(* Properties                                                              *)

RowOK ==
  /\ exists \in BOOLEAN
  /\ suc \in [Counted -> Nat]
  /\ att \in [Counted -> Nat]
  /\ total \in Optional
  /\ tier \in Tier
  /\ limit \in Tier \cup {Absent}
  /\ oldSuc \in Optional
  /\ oldAtt \in Optional
  /\ reported \in Nat

\* Every variable has its type.
TypeOK ==
  /\ RowOK
  /\ upd \in [Updater -> Upd]
  /\ comp \in Comp
  /\ calls \in [update : Nat, compute : Nat, register : Nat]
  /\ setting \in Settings

\* The row is there and no one writes a fresh one over it.
Settled == setting.start = "registered" /\ ~setting.registers

Required(t) == IF t = 0 THEN 0 ELSE MinTotal[t]

\* A tier is earned: a miner never holds a tier above the total of its
\* successes, although the total it is judged by was read several commands
\* before the tier is written, and the counters are reset underneath.
TierEarned ==
  Settled => total >= Required(tier)

\* The calls in progress that reported a success and have yet to add it.
Owing == {u \in Updater : ~At(u, "idle") /\ upd[u].ok}

\* No success is lost or counted twice: total_successes, with what the calls in
\* progress still owe it, is the number of calls that reported a success.  The
\* call is counted when it starts; its increment comes up to ten commands
\* later, past a rename, other calls' increments and the reset of a rollover.
TotalAccounted ==
  Settled => total + Cardinality(Owing) = reported

\* As long as calls do not overlap, a score is computed of at most as many
\* successes as attempts, so that it exists.  README.md:733 describes the statistics as "`N` successes vs `M`
\* attempts", the ratio "N / M" of which the Wilson score is taken.
ScoreDefined ==
  ~setting.shared /\ comp.pc = "total" => ~ScoreUndefined(comp.s, comp.a)

-----------------------------------------------------------------------------
(* The inductive invariant behind TierEarned and TotalAccounted            *)

\* What an update in progress carries.
CarriesOK(q) ==
  /\ q.pc \in {"set_suc", "set_att"} => q.acc \in Nat
  /\ q.pc \in {"attempt", "success"} => q.task \in Counted
  /\ q.pc = "inc_total" => q.ok

FreshPc == {"register", "sum_store", "sum_challenge", "sum_retrieve",
            "set_total"}

\* On a settled row no update registers the miner or initialises its total,
\* and the total only grows after a computation has read it.
SettledOK ==
  /\ exists
  /\ total \in Nat
  /\ total >= Required(tier)
  /\ comp.pc = "tier" => total >= Required(comp.tier)

\* The inductive invariant.
BondInv ==
  /\ TypeOK
  /\ \A u \in Updater : CarriesOK(upd[u])
  /\ Settled => SettledOK /\ \A u \in Updater : upd[u].pc \notin FreshPc

=============================================================================
