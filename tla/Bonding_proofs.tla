--------------------------- MODULE Bonding_proofs ---------------------------
(***************************************************************************)
(* Proofs about Bonding, for every number of processes, tiers, thresholds  *)
(* and calls.                                                              *)
(***************************************************************************)
EXTENDS Bonding, FiniteSetTheorems, WellFoundedInduction, TLAPS

\* A set of tiers that is not empty has a highest one.
LEMMA HighestExists ==
  ASSUME NEW met \in SUBSET (1..TopTier), met # {}
  PROVE  \E t \in met : \A w \in met : w <= t
  <1> DEFINE depth == {TopTier - t : t \in met}
  <1>1. depth \subseteq Nat /\ depth # {}
    <2>1. ASSUME NEW t \in met PROVE TopTier - t \in Nat
      BY TierAssumption
    <2> QED BY <2>1
  <1>2. PICK x \in depth :
          \A y \in depth : ~(<<y, x>> \in OpToRel(<, Nat))
    <2> HIDE DEF depth
    <2> QED BY <1>1, WFMin, NatLessThanWellFounded, Zenon
  <1>3. \A y \in depth : ~(y < x)
    BY <1>1, <1>2 DEF OpToRel
  <1>4. PICK t \in met : x = TopTier - t
    OBVIOUS
  <1>5. ASSUME NEW w \in met PROVE w <= t
    <2>1. TopTier - w \in depth
      OBVIOUS
    <2>2. ~(TopTier - w < TopTier - t)
      BY <1>3, <1>4, <2>1
    <2> QED BY <2>2, TierAssumption
  <1> QED BY <1>5

\* compute_tier assigns a tier whose number of successes has been reached.
LEMMA TierOfReached ==
  ASSUME NEW s, NEW n, NEW tot \in Nat
  PROVE  TierOf(s, n, tot) \in Tier /\ tot >= Required(TierOf(s, n, tot))
  <1> DEFINE met == {t \in 1..TopTier : ScoreAtLeast(s, n, MinScore[t])
                                          /\ tot >= MinTotal[t]}
  <1>1. CASE met = {}
    <2>1. TierOf(s, n, tot) = 0
      BY <1>1 DEF TierOf
    <2> QED BY <2>1, TierAssumption DEF Tier, Required
  <1>2. CASE met # {}
    <2>1. \E t \in met : \A w \in met : w <= t
      BY <1>2, HighestExists
    <2>2. TierOf(s, n, tot) = CHOOSE t \in met : \A w \in met : w <= t
      BY <1>2 DEF TierOf
    <2>3. TierOf(s, n, tot) \in met
      <3> HIDE DEF met
      <3> QED BY <2>1, <2>2
    <2> QED BY <2>3, TierAssumption DEF Tier, Required
  <1> QED BY <1>1, <1>2

-----------------------------------------------------------------------------
(* The inductive invariant                                                 *)

\* It holds for every row there may be at the start.
LEMMA BondInit == Init => BondInv
  <1> SUFFICES ASSUME Init PROVE BondInv
    OBVIOUS
  <1>1. RowOK
    BY TierAssumption
       DEF Init, InitRow, RowOK, NoCount, Optional, Absent, Tier
  <1>2. IdleUpd \in Upd /\ IdleComp \in Comp
    BY TierAssumption DEF IdleUpd, Upd, UpdPc, Task, Optional, IdleComp, Comp,
           CompPc, Tier
  <1>3. TypeOK
    BY <1>1, <1>2 DEF Init, TypeOK
  <1>4. \A u \in Updater : CarriesOK(upd[u]) /\ upd[u].pc \notin FreshPc
    BY DEF Init, CarriesOK, IdleUpd, FreshPc
  <1>5. ASSUME Settled PROVE SettledOK
    <2>1. exists /\ total = 0
      BY <1>5 DEF Init, InitRow, Settled
    <2> QED BY <2>1 DEF Init, SettledOK, Required, IdleComp
  <1> QED BY <1>3, <1>4, <1>5 DEF BondInv

\* No step changes what the other processes do.
LEMMA SettingKept ==
  ASSUME [Next]_vars
  PROVE  setting' = setting
  <1>1. CASE \E u \in Updater : UpdateStatistics(u)
    BY <1>1 DEF UpdateStatistics, BeginUpdate, CheckRegistered, RegisterNew, CountAttempt,
       CountSuccess, ReadOldSuc, MoveOldSuc, DropOldSuc, ReadOldAtt, MoveOldAtt,
       DropOldAtt, ReadTotal, SumCounter, SetTotal, IncTotal
  <1>2. CASE ComputeAllTiers
    BY <1>2 DEF ComputeAllTiers, BeginCompute, ReadCounter, Score, SetTier, ReadLimit,
       DefaultLimit, SetLimit, Rollover, RolloverAborted
  <1>3. CASE Reregister \/ UNCHANGED vars
    BY <1>3 DEF Reregister, vars
  <1> QED BY <1>1, <1>2, <1>3 DEF Next

\* A step that moves the update u to q.
LEMMA MoveStep ==
  ASSUME BondInv, NEW u \in Updater, NEW q \in Upd,
         upd' = [upd EXCEPT ![u] = q], CarriesOK(q),
         RowOK', comp' = comp, setting' = setting,
         calls' \in [update : Nat, compute : Nat, register : Nat],
         Settled => SettledOK' /\ q.pc \notin FreshPc
  PROVE  BondInv'
  <1>1. TypeOK'
    BY DEF BondInv, TypeOK
  <1>2. ASSUME NEW w \in Updater
        PROVE  CarriesOK(upd'[w]) /\ (Settled => upd'[w].pc \notin FreshPc)
    <2>1. upd'[w] = IF w = u THEN q ELSE upd[w]
      BY DEF BondInv, TypeOK
    <2> QED BY <2>1 DEF BondInv
  <1> QED BY <1>1, <1>2 DEF BondInv, CarriesOK, Settled

\* A step that leaves alone what SettledOK speaks of.
LEMMA SettledStep ==
  ASSUME SettledOK, UNCHANGED <<exists, total, tier, comp>>
  PROVE  SettledOK'
  BY DEF SettledOK, Required

\* A step of update_statistics keeps it.
LEMMA UpdateStep ==
  ASSUME BondInv, NEW u \in Updater, UpdateStatistics(u)
  PROVE  BondInv'
  <1>f. /\ upd[u] \in Upd /\ CarriesOK(upd[u]) /\ RowOK
        /\ comp \in Comp
        /\ calls \in [update : Nat, compute : Nat, register : Nat]
        /\ upd \in [Updater -> Upd]
        /\ Settled => SettledOK /\ upd[u].pc \notin FreshPc
        /\ setting' = setting
    BY SettingKept DEF BondInv, TypeOK, Next
  <1>i. IdleUpd \in Upd /\ CarriesOK(IdleUpd) /\ IdleUpd.pc \notin FreshPc
    BY DEF IdleUpd, Upd, UpdPc, Task, Optional, CarriesOK, FreshPc
  \* Moving u to another command, with a value read from the row.
  <1>m. ASSUME NEW pc \in UpdPc, NEW acc \in Optional,
               upd' = [upd EXCEPT ![u].pc = pc, ![u].acc = acc],
               pc \in {"set_suc", "set_att"} => acc \in Nat, pc # "inc_total",
               pc \in {"attempt", "success"} => upd[u].task \in Counted,
               RowOK', comp' = comp, calls' = calls,
               Settled => SettledOK' /\ pc \notin FreshPc
        PROVE  BondInv'
    <2>1. PICK q : q = [upd[u] EXCEPT !.pc = pc, !.acc = acc]
      OBVIOUS
    <2>2. q \in Upd /\ CarriesOK(q) /\ q.pc = pc
      BY <1>f, <1>m, <2>1 DEF Upd, CarriesOK
    <2>3. upd' = [upd EXCEPT ![u] = q]
      BY <1>f, <1>m, <2>1
    <2> QED BY <1>f, <1>m, <2>2, <2>3, MoveStep
  <1>g. ASSUME NEW pc \in UpdPc, UpdGoto(u, pc),
               pc \notin {"set_suc", "set_att", "inc_total"},
               pc \in {"attempt", "success"} => upd[u].task \in Counted,
               RowOK', comp' = comp, calls' = calls,
               Settled => SettledOK' /\ pc \notin FreshPc
        PROVE  BondInv'
    <2>1. PICK q : q = [upd[u] EXCEPT !.pc = pc]
      OBVIOUS
    <2>2. q \in Upd /\ CarriesOK(q) /\ q.pc = pc
      BY <1>f, <1>g, <2>1 DEF Upd, CarriesOK
    <2>3. upd' = [upd EXCEPT ![u] = q]
      BY <1>f, <1>g, <2>1 DEF UpdGoto
    <2> QED BY <1>f, <1>g, <2>2, <2>3, MoveStep
  <1>e. ASSUME EndUpdate(u, "inc_total"), RowOK', comp' = comp, calls' = calls,
               Settled => SettledOK'
        PROVE  BondInv'
    <2>1. PICK q : q = IF upd[u].ok
                         THEN [upd[u] EXCEPT !.pc = "inc_total", !.acc = 0]
                         ELSE IdleUpd
      OBVIOUS
    <2>2. q \in Upd /\ CarriesOK(q) /\ q.pc \notin FreshPc
      BY <1>f, <1>i, <2>1 DEF Upd, UpdPc, Optional, CarriesOK, FreshPc
    <2>3. upd' = [upd EXCEPT ![u] = q]
      BY <1>f, <1>e, <2>1 DEF EndUpdate
    <2> QED BY <1>f, <1>e, <2>2, <2>3, MoveStep
  <1>1. CASE BeginUpdate(u)
    <2>1. PICK t \in Task, ok \in BOOLEAN :
            upd' = [upd EXCEPT ![u] =
                     [pc |-> "exists", task |-> t, ok |-> ok, acc |-> 0]]
      BY <1>1 DEF BeginUpdate
    <2>2. PICK q : q = [pc |-> "exists", task |-> t, ok |-> ok, acc |-> 0]
      OBVIOUS
    <2>3. q \in Upd /\ CarriesOK(q) /\ q.pc \notin FreshPc
      BY <2>2 DEF Upd, UpdPc, Optional, CarriesOK, FreshPc
    <2>4. /\ RowOK' /\ comp' = comp /\ (Settled => SettledOK')
          /\ calls' \in [update : Nat, compute : Nat, register : Nat]
      <3>1. reported' \in Nat
        BY <1>1, <1>f DEF BeginUpdate, RowOK
      <3> QED BY <1>1, <1>f, <3>1, SettledStep DEF BeginUpdate, row, RowOK
    <2> QED BY <1>f, <2>1, <2>2, <2>3, <2>4, MoveStep
  <1>2. CASE CheckRegistered(u)
    <2>1. RowOK' /\ comp' = comp /\ calls' = calls /\ (Settled => SettledOK')
      BY <1>2, <1>f, SettledStep DEF CheckRegistered, row, RowOK
    <2>2. PICK pc : /\ pc = IF exists THEN CountPc(u) ELSE "register"
                    /\ UpdGoto(u, pc)
      BY <1>2 DEF CheckRegistered
    <2>3. Settled => exists
      BY <1>f DEF SettledOK
    <2> QED BY <1>g, <2>1, <2>2, <2>3 DEF CountPc, UpdPc, FreshPc
  <1>3. CASE RegisterNew(u)
    <2>1. ~Settled
      BY <1>3, <1>f DEF RegisterNew, At, FreshPc
    <2>2. RowOK' /\ comp' = comp /\ calls' = calls
      BY <1>3, <1>f, TierAssumption
         DEF RegisterNew, WriteFreshRow, RowOK, NoCount, Optional, Tier
    <2>3. UpdGoto(u, CountPc(u))
      BY <1>3 DEF RegisterNew
    <2> QED BY <1>g, <2>1, <2>2, <2>3 DEF CountPc, UpdPc
  <1>4. CASE CountAttempt(u)
    <2>1. upd[u].task \in Counted
      BY <1>4, <1>f DEF CountAttempt, At, CarriesOK
    <2>2. RowOK' /\ comp' = comp /\ calls' = calls /\ (Settled => SettledOK')
      BY <1>4, <1>f, <2>1, SettledStep DEF CountAttempt, RowOK
    <2>3. PICK pc \in {"success", "old_suc"} : UpdGoto(u, pc)
      BY <1>4 DEF CountAttempt
    <2> QED BY <1>g, <2>1, <2>2, <2>3 DEF UpdPc, FreshPc
  <1>5. CASE CountSuccess(u)
    <2>1. upd[u].task \in Counted
      BY <1>5, <1>f DEF CountSuccess, At, CarriesOK
    <2>2. RowOK' /\ comp' = comp /\ calls' = calls /\ (Settled => SettledOK')
      BY <1>5, <1>f, <2>1, SettledStep DEF CountSuccess, RowOK
    <2> QED BY <1>5, <1>g, <2>2 DEF CountSuccess, UpdPc, FreshPc
  <1>6. CASE ReadOldSuc(u)
    <2>1. RowOK' /\ comp' = comp /\ calls' = calls /\ (Settled => SettledOK')
      BY <1>6, <1>f, SettledStep DEF ReadOldSuc, row, RowOK
    <2>2. oldSuc \in Optional /\ (oldSuc # Absent => oldSuc \in Nat)
      BY <1>f DEF RowOK, Optional
    <2>3. PICK pc : /\ pc = IF oldSuc = Absent THEN "old_att" ELSE "set_suc"
                    /\ UpdCarry(u, pc, oldSuc)
      BY <1>6 DEF ReadOldSuc
    <2> QED BY <1>m, <2>1, <2>2, <2>3 DEF UpdCarry, UpdPc, FreshPc
  <1>7. CASE MoveOldSuc(u)
    <2>1. RowOK' /\ comp' = comp /\ calls' = calls /\ (Settled => SettledOK')
      BY <1>7, <1>f, SettledStep
         DEF MoveOldSuc, At, CarriesOK, RowOK, Counted
    <2> QED BY <1>7, <1>g, <2>1 DEF MoveOldSuc, UpdPc, FreshPc
  <1>8. CASE DropOldSuc(u)
    <2>1. RowOK' /\ comp' = comp /\ calls' = calls /\ (Settled => SettledOK')
      BY <1>8, <1>f, SettledStep DEF DropOldSuc, RowOK, Optional
    <2> QED BY <1>8, <1>g, <2>1 DEF DropOldSuc, UpdPc, FreshPc
  <1>9. CASE ReadOldAtt(u)
    <2>1. RowOK' /\ comp' = comp /\ calls' = calls /\ (Settled => SettledOK')
      BY <1>9, <1>f, SettledStep DEF ReadOldAtt, row, RowOK
    <2>2. oldAtt \in Optional /\ (oldAtt # Absent => oldAtt \in Nat)
      BY <1>f DEF RowOK, Optional
    <2>3. PICK pc : /\ pc = IF oldAtt = Absent THEN "total" ELSE "set_att"
                    /\ UpdCarry(u, pc, oldAtt)
      BY <1>9 DEF ReadOldAtt
    <2> QED BY <1>m, <2>1, <2>2, <2>3 DEF UpdCarry, UpdPc, FreshPc
  <1>10. CASE MoveOldAtt(u)
    <2>1. RowOK' /\ comp' = comp /\ calls' = calls /\ (Settled => SettledOK')
      BY <1>10, <1>f, SettledStep
         DEF MoveOldAtt, At, CarriesOK, RowOK, Counted
    <2> QED BY <1>10, <1>g, <2>1 DEF MoveOldAtt, UpdPc, FreshPc
  <1>11. CASE DropOldAtt(u)
    <2>1. RowOK' /\ comp' = comp /\ calls' = calls /\ (Settled => SettledOK')
      BY <1>11, <1>f, SettledStep DEF DropOldAtt, RowOK, Optional
    <2> QED BY <1>11, <1>g, <2>1 DEF DropOldAtt, UpdPc, FreshPc
  <1>12. CASE ReadTotal(u)
    <2>1. RowOK' /\ comp' = comp /\ calls' = calls /\ (Settled => SettledOK')
      BY <1>12, <1>f, SettledStep DEF ReadTotal, row, RowOK
    <2>2. CASE total = Absent
      <3>1. ~Settled
        BY <1>f, <2>2 DEF SettledOK, Absent
      <3>2. UpdCarry(u, "sum_store", 0)
        BY <1>12, <2>2 DEF ReadTotal
      <3> QED BY <1>m, <2>1, <3>1, <3>2 DEF UpdCarry, UpdPc, Optional
    <2>3. CASE total # Absent
      BY <1>12, <1>e, <2>1, <2>3 DEF ReadTotal
    <2> QED BY <2>2, <2>3
  <1>13. CASE SumCounter(u)
    <2>1. RowOK' /\ comp' = comp /\ calls' = calls
      BY <1>13, <1>f DEF SumCounter, row, RowOK
    <2>2. upd[u].pc \in {"sum_store", "sum_challenge", "sum_retrieve"}
      BY <1>13 DEF SumCounter, SumTask
    <2>3. ~Settled
      BY <1>f, <2>2 DEF FreshPc
    <2>4. SumTask[upd[u].pc] \in Counted
      BY <2>2 DEF SumTask, Counted
    <2>5. SumNext[upd[u].pc] \in {"sum_challenge", "sum_retrieve", "set_total"}
      BY <2>2 DEF SumNext
    <2>6. upd[u].acc + suc[SumTask[upd[u].pc]] \in Optional
      BY <1>f, <2>4 DEF RowOK, Upd, Optional, Absent
    <2>7. UpdCarry(u, SumNext[upd[u].pc],
                   upd[u].acc + suc[SumTask[upd[u].pc]])
      BY <1>13 DEF SumCounter
    <2>8. PICK pc, acc : /\ pc = SumNext[upd[u].pc]
                         /\ acc = upd[u].acc + suc[SumTask[upd[u].pc]]
      OBVIOUS
    <2> QED BY <1>m, <2>1, <2>3, <2>5, <2>6, <2>7, <2>8 DEF UpdCarry, UpdPc
  <1>14. CASE SetTotal(u)
    <2>1. ~Settled
      BY <1>14, <1>f DEF SetTotal, At, FreshPc
    <2>2. RowOK' /\ comp' = comp /\ calls' = calls
      BY <1>14, <1>f DEF SetTotal, RowOK, Upd
    <2> QED BY <1>14, <1>e, <2>1, <2>2 DEF SetTotal
  <1>15. CASE IncTotal(u)
    <2>1. RowOK' /\ comp' = comp /\ calls' = calls
      BY <1>15, <1>f DEF IncTotal, RowOK, Optional, Absent
    <2>2. Settled => SettledOK'
      <3>1. comp.tier \in Tier /\ tier \in Tier
        BY <1>f DEF Comp, RowOK
      <3>2. Required(comp.tier) \in Nat /\ Required(tier) \in Nat
        BY <3>1, TierAssumption DEF Required, Tier
      <3> QED BY <1>15, <1>f, <3>2 DEF IncTotal, SettledOK, Required
    <2> QED BY <1>15, <1>f, <1>i, <2>1, <2>2, MoveStep DEF IncTotal
  <1> QED BY <1>1, <1>2, <1>3, <1>4, <1>5, <1>6, <1>7, <1>8, <1>9, <1>10,
             <1>11, <1>12, <1>13, <1>14, <1>15 DEF UpdateStatistics

\* A step of compute_all_tiers that moves the computation to c.
LEMMA CompStep ==
  ASSUME BondInv, upd' = upd, comp' \in Comp, RowOK', setting' = setting,
         calls' \in [update : Nat, compute : Nat, register : Nat],
         Settled => SettledOK'
  PROVE  BondInv'
  <1>1. TypeOK'
    BY DEF BondInv, TypeOK
  <1> QED BY <1>1 DEF BondInv, Settled

\* A step of compute_all_tiers keeps it.
LEMMA ComputeStep ==
  ASSUME BondInv, ComputeAllTiers
  PROVE  BondInv'
  <1>f. /\ RowOK /\ comp \in Comp /\ upd \in [Updater -> Upd]
        /\ calls \in [update : Nat, compute : Nat, register : Nat]
        /\ Settled => SettledOK
        /\ setting' = setting
    BY SettingKept DEF BondInv, TypeOK, Next
  \* Only the scoring makes the tier that a computation carries matter.
  <1>s. ASSUME UNCHANGED <<exists, total, tier>>, comp'.pc # "tier",
               Settled
        PROVE  SettledOK'
    BY <1>f, <1>s DEF SettledOK, Required
  <1>1. CASE BeginCompute
    <2>1. comp' \in Comp /\ comp'.pc = "suc_challenge"
      BY <1>1, TierAssumption DEF BeginCompute, IdleComp, Comp, CompPc, Tier
    <2>2. RowOK' /\ calls' \in [update : Nat, compute : Nat, register : Nat]
      BY <1>1, <1>f DEF BeginCompute, row, RowOK
    <2> QED BY <1>1, <1>f, <1>s, <2>1, <2>2, CompStep DEF BeginCompute, row
  <1>2. CASE ReadCounter
    <2>1. comp.pc \in {"suc_challenge", "att_challenge", "suc_retrieve",
                       "att_retrieve", "suc_store", "att_store"}
      BY <1>2 DEF ReadCounter, ReadNext
    <2>2. /\ ReadNext[comp.pc] \in CompPc \ {"tier"}
          /\ comp.pc \in DOMAIN ReadSuc => ReadSuc[comp.pc] \in Counted
          /\ comp.pc \in DOMAIN ReadAtt => ReadAtt[comp.pc] \in Counted
      BY <2>1 DEF ReadNext, ReadSuc, ReadAtt, Counted, CompPc
    <2>3. PICK s, a : /\ s = IF comp.pc \in DOMAIN ReadSuc
                               THEN comp.s + suc[ReadSuc[comp.pc]] ELSE comp.s
                      /\ a = IF comp.pc \in DOMAIN ReadAtt
                               THEN comp.a + att[ReadAtt[comp.pc]] ELSE comp.a
      OBVIOUS
    <2>4. s \in Nat /\ a \in Nat
      BY <1>f, <2>2, <2>3 DEF RowOK, Comp
    <2>5. comp' = [comp EXCEPT !.pc = ReadNext[comp.pc], !.s = s, !.a = a]
      BY <1>2, <1>f, <2>3 DEF ReadCounter, Comp
    <2>6. comp' \in Comp /\ comp'.pc # "tier"
      BY <1>f, <2>2, <2>4, <2>5 DEF Comp
    <2>7. RowOK' /\ calls' = calls
      BY <1>2, <1>f DEF ReadCounter, row, RowOK
    <2> QED BY <1>2, <1>f, <1>s, <2>6, <2>7, CompStep DEF ReadCounter, row
  <1>3. CASE Score
    <2>1. PICK tot : tot = IF total = Absent THEN 0 ELSE total
      OBVIOUS
    <2>2. tot \in Nat
      BY <1>f, <2>1 DEF RowOK, Optional
    <2>3. PICK t : t = TierOf(comp.s, comp.a, tot)
      OBVIOUS
    <2>4. t \in Tier /\ tot >= Required(t)
      BY <2>2, <2>3, TierOfReached
    <2>5. RowOK' /\ calls' = calls /\ upd' = upd
      BY <1>3, <1>f DEF Score, row, RowOK
    <2>6. UNCHANGED <<exists, total, tier>>
      BY <1>3 DEF Score, row
    <2>7. CASE comp' = [IdleComp EXCEPT !.pc = "failed"]
      <3>1. comp' \in Comp /\ comp'.pc # "tier"
        BY <2>7, TierAssumption DEF IdleComp, Comp, CompPc, Tier
      <3> QED BY <1>f, <1>s, <2>5, <2>6, <3>1, CompStep
    <2>8. CASE comp' = [comp EXCEPT !.pc = "tier", !.total = tot, !.tier = t]
      <3>1. comp' \in Comp /\ comp'.tier = t
        BY <1>f, <2>2, <2>4, <2>8 DEF Comp, CompPc
      <3>2. ASSUME Settled PROVE SettledOK'
        <4>1. total = tot
          BY <1>f, <2>1, <3>2 DEF SettledOK, Absent
        <4> QED BY <1>f, <2>4, <2>6, <3>1, <3>2, <4>1
                DEF SettledOK, Required
      <3> QED BY <1>f, <2>5, <3>1, <3>2, CompStep
    <2> QED BY <1>3, <2>1, <2>3, <2>7, <2>8 DEF Score
  <1>4. CASE SetTier
    <2>1. comp' \in Comp /\ comp'.pc = "limit"
      BY <1>4, <1>f DEF SetTier, Comp, CompPc
    <2>2. RowOK' /\ calls' = calls /\ upd' = upd
      BY <1>4, <1>f DEF SetTier, RowOK, Comp
    <2>3. Settled => SettledOK'
      BY <1>4, <1>f, <2>1 DEF SetTier, SettledOK, Required
    <2> QED BY <1>f, <2>1, <2>2, <2>3, CompStep
  <1>5. CASE ReadLimit
    <2>1. comp' \in Comp /\ comp'.pc # "tier"
      BY <1>5, <1>f DEF ReadLimit, Comp, CompPc
    <2>2. RowOK' /\ calls' = calls /\ upd' = upd
      BY <1>5, <1>f DEF ReadLimit, row, RowOK
    <2> QED BY <1>5, <1>f, <1>s, <2>1, <2>2, CompStep DEF ReadLimit, row
  <1>6. CASE DefaultLimit
    <2>1. comp' \in Comp /\ comp'.pc # "tier"
      BY <1>6, <1>f DEF DefaultLimit, Comp, CompPc
    <2>2. RowOK' /\ calls' = calls /\ upd' = upd
      BY <1>6, <1>f, TierAssumption DEF DefaultLimit, RowOK, Tier
    <2> QED BY <1>6, <1>f, <1>s, <2>1, <2>2, CompStep DEF DefaultLimit
  <1>7. CASE SetLimit
    <2>1. comp' \in Comp /\ comp'.pc # "tier"
      BY <1>7, <1>f DEF SetLimit, Comp, CompPc
    <2>2. RowOK' /\ calls' = calls /\ upd' = upd
      BY <1>7, <1>f DEF SetLimit, RowOK, Comp
    <2> QED BY <1>7, <1>f, <1>s, <2>1, <2>2, CompStep DEF SetLimit
  <1>8. CASE Rollover
    <2>1. comp' \in Comp /\ comp'.pc # "tier"
      BY <1>8, TierAssumption DEF Rollover, IdleComp, Comp, CompPc, Tier
    <2>2. RowOK' /\ calls' = calls /\ upd' = upd
      BY <1>8, <1>f DEF Rollover, RowOK, NoCount
    <2> QED BY <1>8, <1>f, <1>s, <2>1, <2>2, CompStep DEF Rollover
  <1>9. CASE RolloverAborted
    <2>1. comp' \in Comp /\ comp'.pc # "tier"
      BY <1>9, TierAssumption DEF RolloverAborted, IdleComp, Comp, CompPc, Tier
    <2>2. RowOK' /\ calls' = calls /\ upd' = upd
      BY <1>9, <1>f DEF RolloverAborted, row, RowOK
    <2> QED BY <1>9, <1>f, <1>s, <2>1, <2>2, CompStep DEF RolloverAborted, row
  <1> QED BY <1>1, <1>2, <1>3, <1>4, <1>5, <1>6, <1>7, <1>8, <1>9
          DEF ComputeAllTiers

\* So does every step.
LEMMA BondNext == BondInv /\ [Next]_vars => BondInv'
  <1> SUFFICES ASSUME BondInv, [Next]_vars PROVE BondInv'
    OBVIOUS
  <1>1. CASE \E u \in Updater : UpdateStatistics(u)
    BY <1>1, UpdateStep
  <1>2. CASE ComputeAllTiers
    BY <1>2, ComputeStep
  <1>3. CASE Reregister
    <2>1. ~Settled
      BY <1>3 DEF Reregister, Settled
    <2>2. RowOK' /\ upd' = upd /\ comp' = comp
      BY <1>3, TierAssumption DEF BondInv, TypeOK, Reregister, WriteFreshRow,
             RowOK, NoCount, Optional, Tier
    <2>3. calls' \in [update : Nat, compute : Nat, register : Nat]
      BY <1>3 DEF BondInv, TypeOK, Reregister
    <2> QED BY <2>1, <2>2, <2>3, CompStep, SettingKept DEF BondInv, TypeOK
  <1>4. CASE UNCHANGED vars
    <2>1. RowOK'
      BY <1>4 DEF BondInv, TypeOK, vars, row, RowOK
    <2>2. ASSUME Settled PROVE SettledOK'
      BY <1>4, <2>2, SettledStep DEF BondInv, vars, row
    <2> QED BY <1>4, <2>1, <2>2, CompStep, SettingKept DEF BondInv, TypeOK, vars
  <1> QED BY <1>1, <1>2, <1>3, <1>4 DEF Next

\* The inductive invariant holds in every state.
THEOREM BondInvariant == Spec => []BondInv
  BY BondInit, BondNext, PTL DEF Spec

-----------------------------------------------------------------------------
(* What follows from it                                                    *)

\* The row, the updates and the computation keep their types: in particular
\* a tier that compute_tier assigns exists, for any table of thresholds.
THEOREM RowTyped == Spec => []TypeOK
  <1>1. BondInv => TypeOK
    BY DEF BondInv
  <1> QED BY <1>1, BondInvariant, PTL

\* On a row that no one registers again a miner never holds a tier above the
\* total of its successes, for any number of concurrent update_statistics.
THEOREM TiersAreEarned == Spec => []TierEarned
  <1>1. BondInv => TierEarned
    BY DEF BondInv, SettledOK, TierEarned
  <1> QED BY <1>1, BondInvariant, PTL

-----------------------------------------------------------------------------
(* The account of total_successes                                          *)

\* On a settled row a step moves total, what is owed and what was reported
\* together: a call joins those that owe when it reports a success, and leaves
\* them with the increment of the total.
LEMMA AccountStep ==
  ASSUME BondInv, Settled, TotalAccounted, [Next]_vars
  PROVE  TotalAccounted'
  <1>f. /\ upd \in [Updater -> Upd] /\ total \in Nat /\ reported \in Nat
        /\ \A u \in Updater : upd[u].pc \notin FreshPc
        /\ IsFiniteSet(Owing) /\ Cardinality(Owing) \in Nat
    <2>1. IsFiniteSet(Owing)
      BY UpdaterAssumption, FS_Subset DEF Owing
    <2> QED BY <2>1, FS_CardinalityType DEF BondInv, TypeOK, RowOK, SettledOK
  <1>k. Settled'
    BY SettingKept DEF Settled
  <1>i. IdleUpd.pc = "idle" /\ IdleUpd.ok = FALSE
    BY DEF IdleUpd
  <1>o. ASSUME UNCHANGED <<total, reported>>, Owing' = Owing
        PROVE  TotalAccounted'
    BY <1>o, <1>k DEF TotalAccounted
  <1>1. ASSUME NEW u \in Updater, UpdateStatistics(u)
        PROVE  TotalAccounted'
    <2>f. upd[u] \in Upd
      BY <1>f
    <2>m. ASSUME UNCHANGED <<total, reported>>, NEW q \in Upd,
                 upd' = [upd EXCEPT ![u] = q],
                 (q.pc # "idle" /\ q.ok) <=> (~At(u, "idle") /\ upd[u].ok)
          PROVE  TotalAccounted'
      <3>1. Owing' = Owing
        BY <2>m, <1>f DEF Owing, At
      <3> QED BY <2>m, <3>1, <1>o
    <2>g. ASSUME NEW pc \in UpdPc \ {"idle"}, ~At(u, "idle"),
                 UNCHANGED <<total, reported>>,
                 \/ UpdGoto(u, pc)
                 \/ \E acc \in Optional : UpdCarry(u, pc, acc)
          PROVE  TotalAccounted'
      <3>1. CASE UpdGoto(u, pc)
        <4>1. PICK q : q = [upd[u] EXCEPT !.pc = pc]
          OBVIOUS
        <4>2. q \in Upd /\ q.pc = pc /\ q.ok = upd[u].ok
          BY <2>f, <4>1 DEF Upd
        <4>3. upd' = [upd EXCEPT ![u] = q]
          BY <1>f, <3>1, <4>1 DEF UpdGoto
        <4> QED BY <2>g, <2>m, <4>2, <4>3
      <3>2. ASSUME NEW acc \in Optional, UpdCarry(u, pc, acc)
            PROVE  TotalAccounted'
        <4>1. PICK q : q = [upd[u] EXCEPT !.pc = pc, !.acc = acc]
          OBVIOUS
        <4>2. q \in Upd /\ q.pc = pc /\ q.ok = upd[u].ok
          BY <2>f, <4>1 DEF Upd
        <4>3. upd' = [upd EXCEPT ![u] = q]
          BY <1>f, <3>2, <4>1 DEF UpdCarry
        <4> QED BY <2>g, <2>m, <4>2, <4>3
      <3> QED BY <2>g, <3>1, <3>2
    <2>1. CASE BeginUpdate(u)
      <3>1. PICK t \in Task, ok \in BOOLEAN :
              /\ upd' = [upd EXCEPT ![u] =
                           [pc |-> "exists", task |-> t, ok |-> ok, acc |-> 0]]
              /\ reported' = IF ok THEN reported + 1 ELSE reported
        BY <2>1 DEF BeginUpdate
      <3>2. total' = total /\ u \notin Owing
        BY <2>1 DEF BeginUpdate, row, Owing
      <3>3. Owing' = IF ok THEN Owing \cup {u} ELSE Owing
        BY <3>1, <3>2, <1>f DEF Owing, At
      <3>4. Cardinality(Owing \cup {u}) = Cardinality(Owing) + 1
        BY <3>2, <1>f, FS_AddElement
      <3>5. Cardinality(Owing') = IF ok THEN Cardinality(Owing) + 1 ELSE Cardinality(Owing)
        BY <3>3, <3>4
      <3>6. total + Cardinality(Owing) = reported
        BY DEF TotalAccounted
      <3>7. total' + Cardinality(Owing') = reported'
        BY <3>1, <3>2, <3>5, <3>6, <1>f
      <3> QED BY <3>7 DEF TotalAccounted
    <2>2. CASE IncTotal(u)
      <3>1. upd[u].pc = "inc_total" /\ total' = total + 1 /\ reported' = reported
        BY <2>2 DEF IncTotal, At
      <3>2. upd' = [upd EXCEPT ![u] = IdleUpd]
        BY <2>2 DEF IncTotal
      <3>3. upd[u].ok
        BY <3>1 DEF BondInv, CarriesOK
      <3>4. u \in Owing
        BY <3>1, <3>3 DEF Owing, At
      <3>5. Owing' = Owing \ {u}
        BY <3>2, <1>f, <1>i DEF Owing, At
      <3>6. Cardinality(Owing \ {u}) = Cardinality(Owing) - 1
        BY <3>4, <1>f, FS_RemoveElement
      <3> QED BY <3>1, <3>5, <3>6, <1>f DEF TotalAccounted
    <2>3. CASE CheckRegistered(u) \/ CountAttempt(u) \/ CountSuccess(u)
      <3>1. PICK pc \in UpdPc \ {"idle"} : UpdGoto(u, pc)
        BY <2>3 DEF CheckRegistered, CountAttempt, CountSuccess, CountPc, UpdPc
      <3> QED BY <2>3, <2>g, <3>1 DEF CheckRegistered, CountAttempt, CountSuccess,
              At, row
    <2>4. CASE MoveOldSuc(u) \/ DropOldSuc(u) \/ MoveOldAtt(u) \/ DropOldAtt(u)
      <3>1. PICK pc \in UpdPc \ {"idle"} : UpdGoto(u, pc)
        BY <2>4 DEF MoveOldSuc, DropOldSuc, MoveOldAtt, DropOldAtt, UpdPc
      <3> QED BY <2>4, <2>g, <3>1 DEF MoveOldSuc, DropOldSuc, MoveOldAtt, DropOldAtt,
              At
    <2>5. CASE ReadOldSuc(u) \/ ReadOldAtt(u)
      <3>1. oldSuc \in Optional /\ oldAtt \in Optional
        BY DEF BondInv, TypeOK, RowOK
      <3>2. PICK pc \in UpdPc \ {"idle"} : \E acc \in Optional : UpdCarry(u, pc, acc)
        BY <2>5, <3>1 DEF ReadOldSuc, ReadOldAtt, UpdPc
      <3> QED BY <2>5, <2>g, <3>2 DEF ReadOldSuc, ReadOldAtt, At, row
    <2>6. CASE ReadTotal(u)
      <3>1. total # Absent /\ EndUpdate(u, "inc_total")
        BY <2>6, <1>f DEF ReadTotal, Absent
      <3>2. PICK q : q = IF upd[u].ok
                           THEN [upd[u] EXCEPT !.pc = "inc_total", !.acc = 0]
                           ELSE IdleUpd
        OBVIOUS
      <3>3. q \in Upd /\ ((q.pc # "idle" /\ q.ok) <=> upd[u].ok)
        BY <2>f, <3>2, <1>i DEF Upd, UpdPc, Optional, IdleUpd, Task
      <3>4. upd' = [upd EXCEPT ![u] = q]
        BY <1>f, <3>1, <3>2 DEF EndUpdate
      <3> QED BY <2>6, <2>m, <3>3, <3>4 DEF ReadTotal, At, row
    <2>7. ~(RegisterNew(u) \/ SumCounter(u) \/ SetTotal(u))
      BY <1>f DEF RegisterNew, SumCounter, SetTotal, At, FreshPc, SumTask
    <2> QED BY <1>1, <2>1, <2>2, <2>3, <2>4, <2>5, <2>6, <2>7 DEF UpdateStatistics
  <1>2. CASE ComputeAllTiers
    <2>1. UNCHANGED <<upd, total, reported>>
      BY <1>2 DEF ComputeAllTiers, BeginCompute, ReadCounter, Score, SetTier,
         ReadLimit, DefaultLimit, SetLimit, Rollover, RolloverAborted, row
    <2>2. Owing' = Owing
      BY <2>1 DEF Owing, At
    <2> QED BY <2>1, <2>2, <1>o
  <1>3. CASE UNCHANGED vars
    <2>1. UNCHANGED <<total, reported>> /\ Owing' = Owing
      BY <1>3 DEF vars, row, Owing, At
    <2> QED BY <2>1, <1>o
  <1>4. ~Reregister
    BY DEF Reregister, Settled
  <1> QED BY <1>1, <1>2, <1>3, <1>4 DEF Next

\* On such a row total_successes counts every call that reported a success
\* exactly once, with the calls that are still to add theirs: for any number
\* of concurrent calls, and rollovers in between.
THEOREM TotalsAreAccounted == Spec => []TotalAccounted
  <1>1. Init => TotalAccounted
    <2> SUFFICES ASSUME Init, Settled PROVE TotalAccounted
      BY DEF TotalAccounted
    <2>1. Owing = {} /\ total = 0 /\ reported = 0
      BY DEF Init, InitRow, Settled, Owing, At, IdleUpd
    <2> QED BY <2>1, FS_EmptySet DEF TotalAccounted
  <1>2. BondInv /\ TotalAccounted /\ [Next]_vars => TotalAccounted'
    <2> SUFFICES ASSUME BondInv, TotalAccounted, [Next]_vars, Settled
                 PROVE  TotalAccounted'
      BY SettingKept DEF TotalAccounted, Settled
    <2> QED BY AccountStep
  <1> QED BY <1>1, <1>2, BondInvariant, PTL DEF Spec

-----------------------------------------------------------------------------
(* Calls that do not overlap                                               *)

Alone == ~setting.shared

\* The attempts that an update has counted without their success.
Ahead(q, t) == IF q.pc = "success" /\ q.task = t THEN 1 ELSE 0

OldPair ==
  \/ oldSuc = Absent /\ oldAtt = Absent
  \/ oldSuc \in Nat /\ oldAtt \in Nat /\ oldSuc <= oldAtt

\* The phases of the transition from retrieval_* to retrieve_*.
BeforeMove == {"idle", "exists", "register", "attempt", "success", "old_suc", "set_suc"}
Moving == {"del_suc", "old_att", "set_att"}

\* The counters while the update q is in progress: no more successes than attempts,
\* except that those of the retrievals are compared with the old attempts between
\* the moves of the two old counters.
CountersOK(q) ==
  /\ \A t \in Counted \ {"retrieve"} : suc[t] + Ahead(q, t) <= att[t]
  /\ q.pc \notin Moving => suc["retrieve"] + Ahead(q, "retrieve") <= att["retrieve"]
  /\ q.pc \in BeforeMove => OldPair
  /\ q.pc = "set_suc" => oldSuc # Absent /\ q.acc = oldSuc
  /\ q.pc = "del_suc" => OldPair /\ suc["retrieve"] = oldSuc
  /\ q.pc = "old_att" => oldSuc = Absent /\
       IF oldAtt = Absent THEN suc["retrieve"] <= att["retrieve"]
                          ELSE suc["retrieve"] <= oldAtt
  /\ q.pc = "set_att" => /\ oldSuc = Absent /\ oldAtt # Absent
                         /\ q.acc = oldAtt /\ suc["retrieve"] <= oldAtt
  /\ q.pc = "del_att" => oldSuc = Absent
  /\ q.pc \notin BeforeMove \cup Moving \cup {"del_att"} =>
       oldSuc = Absent /\ oldAtt = Absent

\* The sums of a computation: as the attempts of a task are read after its
\* successes, they still have to catch up between the two.
CompOK ==
  /\ comp.pc \in DOMAIN ReadSuc \cup {"total"} => comp.s <= comp.a
  /\ comp.pc \in DOMAIN ReadAtt => comp.s <= comp.a + att[ReadAtt[comp.pc]]

\* One call at a time, and the counters fit its phase.
AloneInv ==
  /\ \A u, w \in Updater : ~At(u, "idle") /\ ~At(w, "idle") => u = w
  /\ Computing => \A u \in Updater : At(u, "idle")
  /\ \A u \in Updater : ~At(u, "idle") => CountersOK(upd[u])
  /\ (\A u \in Updater : At(u, "idle")) => CountersOK(IdleUpd)
  /\ CompOK

\* A step that moves u, which is the only call in progress, to q.
LEMMA AloneMove ==
  ASSUME BondInv, NEW u \in Updater, NEW q \in Upd,
         upd' = [upd EXCEPT ![u] = q], comp' = comp, ~Computing,
         \A w \in Updater \ {u} : At(w, "idle"),
         q.pc # "idle" => CountersOK(q)', q.pc = "idle" => CountersOK(IdleUpd)'
  PROVE  AloneInv'
  <1>1. /\ upd'[u] = q /\ \A w \in Updater \ {u} : upd'[w] = upd[w]
        /\ upd \in [Updater -> Upd]
    BY DEF BondInv, TypeOK
  <1>2. \A w \in Updater : ~At(w, "idle")' => w = u /\ q.pc # "idle"
    BY <1>1 DEF At
  <1>3. \A w \in Updater : ~At(w, "idle")' => CountersOK(upd[w])'
    BY <1>1, <1>2
  <1>4. (\A w \in Updater : At(w, "idle")') => CountersOK(IdleUpd)'
    BY <1>1 DEF At
  <1>5. ~Computing' /\ CompOK'
    BY DEF Computing, CompOK, ReadSuc, ReadAtt
  <1> QED BY <1>2, <1>3, <1>4, <1>5 DEF AloneInv

\* The steps of an update give its record another pc and perhaps another value.
LEMMA Moved ==
  ASSUME BondInv, NEW u \in Updater, NEW pc \in UpdPc, NEW acc \in Optional,
         \/ upd' = [upd EXCEPT ![u].pc = pc, ![u].acc = acc]
         \/ UpdGoto(u, pc) /\ acc = upd[u].acc
  PROVE  \E q \in Upd : /\ q.pc = pc /\ q.acc = acc /\ q.task = upd[u].task
                        /\ upd' = [upd EXCEPT ![u] = q]
  <1>f. upd \in [Updater -> Upd] /\ upd[u] \in Upd
    BY DEF BondInv, TypeOK
  <1>1. PICK q : q = [upd[u] EXCEPT !.pc = pc, !.acc = acc]
    OBVIOUS
  <1>2. q \in Upd /\ q.pc = pc /\ q.acc = acc /\ q.task = upd[u].task
    BY <1>f, <1>1 DEF Upd
  <1>3. upd' = [upd EXCEPT ![u] = q]
    <2>1. CASE upd' = [upd EXCEPT ![u].pc = pc, ![u].acc = acc]
      BY <1>f, <1>1, <2>1
    <2>2. CASE UpdGoto(u, pc) /\ acc = upd[u].acc
      <3>1. [upd[u] EXCEPT !.pc = pc] = [upd[u] EXCEPT !.pc = pc, !.acc = upd[u].acc]
        BY <1>f DEF Upd
      <3> QED BY <1>f, <1>1, <2>2, <3>1 DEF UpdGoto
    <2> QED BY <2>1, <2>2
  <1> QED BY <1>2, <1>3

\* The last step of an update, or the one before.
LEMMA Ended ==
  ASSUME BondInv, NEW u \in Updater, EndUpdate(u, "inc_total")
  PROVE  \E q \in Upd : /\ q.pc \in {"idle", "inc_total"} /\ q.acc = 0
                        /\ upd' = [upd EXCEPT ![u] = q]
  <1>f. upd \in [Updater -> Upd] /\ upd[u] \in Upd
    BY DEF BondInv, TypeOK
  <1>1. PICK q : q = IF upd[u].ok THEN [upd[u] EXCEPT !.pc = "inc_total", !.acc = 0]
                                  ELSE IdleUpd
    OBVIOUS
  <1>2. q \in Upd /\ q.pc \in {"idle", "inc_total"} /\ q.acc = 0
    BY <1>f, <1>1 DEF Upd, UpdPc, Optional, IdleUpd, Task
  <1>3. upd' = [upd EXCEPT ![u] = q]
    BY <1>f, <1>1 DEF EndUpdate
  <1> QED BY <1>2, <1>3

\* Whatever an update in progress does, the counters fit its next phase.
LEMMA AloneUpdate ==
  ASSUME Alone, BondInv, AloneInv, NEW u \in Updater, UpdateStatistics(u)
  PROVE  AloneInv'
  <1>f. /\ upd[u] \in Upd /\ CarriesOK(upd[u]) /\ upd \in [Updater -> Upd]
        /\ suc \in [Counted -> Nat] /\ att \in [Counted -> Nat]
        /\ oldSuc \in Optional /\ oldAtt \in Optional
        /\ upd[u].task \in Task /\ upd[u].acc \in Optional
    BY DEF BondInv, TypeOK, RowOK, Upd
  <1>1. CASE BeginUpdate(u)
    <2>1. PICK t \in Task, ok \in BOOLEAN :
            upd' = [upd EXCEPT ![u] =
                     [pc |-> "exists", task |-> t, ok |-> ok, acc |-> 0]]
      BY <1>1 DEF BeginUpdate
    <2>2. PICK q : q = [pc |-> "exists", task |-> t, ok |-> ok, acc |-> 0]
      OBVIOUS
    <2>3. q \in Upd /\ q.pc = "exists"
      BY <2>2 DEF Upd, UpdPc, Optional
    <2>4. ~Computing /\ \A w \in Updater : At(w, "idle")
      BY <1>1 DEF BeginUpdate, MayBegin, Alone
    <2>5. CountersOK(IdleUpd) /\ UNCHANGED <<row, comp>>
      BY <1>1, <2>4 DEF AloneInv, BeginUpdate
    <2>6. CountersOK(q)'
      BY <2>3, <2>5 DEF CountersOK, row, OldPair, IdleUpd, Ahead, BeforeMove, Moving
    <2> QED BY <2>1, <2>2, <2>3, <2>4, <2>5, <2>6, AloneMove
  <1>b. CASE ~BeginUpdate(u)
    <2>i. upd[u].pc # "idle" /\ comp' = comp
      BY <1>b DEF UpdateStatistics, CheckRegistered, RegisterNew, CountAttempt,
         CountSuccess, ReadOldSuc, MoveOldSuc, DropOldSuc, ReadOldAtt, MoveOldAtt,
         DropOldAtt, ReadTotal, SumCounter, SetTotal, IncTotal, At, SumTask
    <2>a. /\ ~Computing /\ \A w \in Updater \ {u} : At(w, "idle")
          /\ CountersOK(upd[u])
      BY <2>i DEF AloneInv, At
    \* Going on with another command is enough when the counters fit it.
    <2>m. ASSUME NEW pc \in UpdPc \ {"idle"}, NEW acc \in Optional,
                 \/ upd' = [upd EXCEPT ![u].pc = pc, ![u].acc = acc]
                 \/ UpdGoto(u, pc) /\ acc = upd[u].acc,
                 \A q \in Upd : q.pc = pc /\ q.acc = acc /\ q.task = upd[u].task
                                  => CountersOK(q)'
          PROVE  AloneInv'
      <3>1. PICK q \in Upd : /\ q.pc = pc /\ q.acc = acc /\ q.task = upd[u].task
                             /\ upd' = [upd EXCEPT ![u] = q]
        BY <2>m, Moved
      <3> QED BY <2>i, <2>a, <2>m, <3>1, AloneMove
    <2>e. ASSUME EndUpdate(u, "inc_total"), CountersOK(IdleUpd)',
                 oldSuc' = Absent, oldAtt' = Absent
          PROVE  AloneInv'
      <3>1. PICK q \in Upd : /\ q.pc \in {"idle", "inc_total"}
                             /\ upd' = [upd EXCEPT ![u] = q]
        BY <2>e, Ended
      <3>2. q.pc = "inc_total" => CountersOK(q)'
        BY <2>e DEF CountersOK, Ahead, BeforeMove, Moving, IdleUpd
      <3> QED BY <2>i, <2>a, <2>e, <3>1, <3>2, AloneMove
    <2> USE DEF CountersOK, Ahead, BeforeMove, Moving, OldPair
    <2>2. CASE CheckRegistered(u)
      <3>1. PICK pc \in UpdPc \ {"idle"} :
              pc \in {"register", "attempt", "old_suc"} /\ UpdGoto(u, pc)
        BY <2>2 DEF CheckRegistered, CountPc, UpdPc
      <3>2. ASSUME NEW q \in Upd, q.pc = pc PROVE CountersOK(q)'
        BY <2>2, <2>a, <3>1, <3>2 DEF CheckRegistered, At, row
      <3> HIDE DEF CountersOK
      <3> QED BY <1>f, <3>1, <3>2, <2>m
    <2>3. CASE RegisterNew(u)
      <3>1. PICK pc \in UpdPc \ {"idle"} :
              pc \in {"attempt", "old_suc"} /\ UpdGoto(u, pc)
        BY <2>3 DEF RegisterNew, CountPc, UpdPc
      <3>2. ASSUME NEW q \in Upd, q.pc = pc PROVE CountersOK(q)'
        BY <2>3, <2>a, <3>1, <3>2 DEF RegisterNew, WriteFreshRow, NoCount, At, Counted
      <3> HIDE DEF CountersOK
      <3> QED BY <1>f, <3>1, <3>2, <2>m
    <2>4. CASE CountAttempt(u)
      <3>1. PICK pc \in UpdPc \ {"idle"} :
              pc \in {"success", "old_suc"} /\ UpdGoto(u, pc)
        BY <2>4 DEF CountAttempt, UpdPc
      <3>2. upd[u].task \in Counted
        BY <2>4, <1>f DEF CountAttempt, At, CarriesOK
      <3>3. ASSUME NEW q \in Upd, q.pc = pc, q.task = upd[u].task PROVE CountersOK(q)'
        BY <2>4, <2>a, <1>f, <3>1, <3>2, <3>3 DEF CountAttempt, At, Counted
      <3> HIDE DEF CountersOK
      <3> QED BY <1>f, <3>1, <3>3, <2>m
    <2>5. CASE CountSuccess(u)
      <3>1. UpdGoto(u, "old_suc") /\ "old_suc" \in UpdPc \ {"idle"}
        BY <2>5 DEF CountSuccess, UpdPc
      <3>2. upd[u].task \in Counted
        BY <2>5, <1>f DEF CountSuccess, At, CarriesOK
      <3>3. ASSUME NEW q \in Upd, q.pc = "old_suc" PROVE CountersOK(q)'
        BY <2>5, <2>a, <1>f, <3>2, <3>3 DEF CountSuccess, At, Counted
      <3> HIDE DEF CountersOK
      <3> QED BY <1>f, <3>1, <3>3, <2>m
    <2>6. CASE ReadOldSuc(u)
      <3>1. PICK pc \in UpdPc \ {"idle"} :
              /\ pc = IF oldSuc = Absent THEN "old_att" ELSE "set_suc"
              /\ UpdCarry(u, pc, oldSuc)
        BY <2>6 DEF ReadOldSuc, UpdPc
      <3>2. ASSUME NEW q \in Upd, q.pc = pc, q.acc = oldSuc PROVE CountersOK(q)'
        BY <2>6, <2>a, <1>f, <3>1, <3>2 DEF ReadOldSuc, At, row, Counted, Absent
      <3> HIDE DEF CountersOK
      <3> QED BY <1>f, <3>1, <3>2, <2>m DEF UpdCarry
    <2>7. CASE MoveOldSuc(u)
      <3>1. UpdGoto(u, "del_suc") /\ "del_suc" \in UpdPc \ {"idle"}
        BY <2>7 DEF MoveOldSuc, UpdPc
      <3>2. ASSUME NEW q \in Upd, q.pc = "del_suc" PROVE CountersOK(q)'
        BY <2>7, <2>a, <1>f, <3>2 DEF MoveOldSuc, At, Counted
      <3> HIDE DEF CountersOK
      <3> QED BY <1>f, <3>1, <3>2, <2>m
    <2>8. CASE DropOldSuc(u)
      <3>1. UpdGoto(u, "old_att") /\ "old_att" \in UpdPc \ {"idle"}
        BY <2>8 DEF DropOldSuc, UpdPc
      <3>2. ASSUME NEW q \in Upd, q.pc = "old_att" PROVE CountersOK(q)'
        BY <2>8, <2>a, <1>f, <3>2 DEF DropOldSuc, At, Counted, Absent
      <3> HIDE DEF CountersOK
      <3> QED BY <1>f, <3>1, <3>2, <2>m
    <2>9. CASE ReadOldAtt(u)
      <3>1. PICK pc \in UpdPc \ {"idle"} :
              /\ pc = IF oldAtt = Absent THEN "total" ELSE "set_att"
              /\ UpdCarry(u, pc, oldAtt)
        BY <2>9 DEF ReadOldAtt, UpdPc
      <3>2. ASSUME NEW q \in Upd, q.pc = pc, q.acc = oldAtt PROVE CountersOK(q)'
        BY <2>9, <2>a, <1>f, <3>1, <3>2 DEF ReadOldAtt, At, row, Counted
      <3> HIDE DEF CountersOK
      <3> QED BY <1>f, <3>1, <3>2, <2>m DEF UpdCarry
    <2>10. CASE MoveOldAtt(u)
      <3>1. UpdGoto(u, "del_att") /\ "del_att" \in UpdPc \ {"idle"}
        BY <2>10 DEF MoveOldAtt, UpdPc
      <3>2. ASSUME NEW q \in Upd, q.pc = "del_att" PROVE CountersOK(q)'
        BY <2>10, <2>a, <1>f, <3>2 DEF MoveOldAtt, At, Counted
      <3> HIDE DEF CountersOK
      <3> QED BY <1>f, <3>1, <3>2, <2>m
    <2>11. CASE DropOldAtt(u)
      <3>1. UpdGoto(u, "total") /\ "total" \in UpdPc \ {"idle"}
        BY <2>11 DEF DropOldAtt, UpdPc
      <3>2. ASSUME NEW q \in Upd, q.pc = "total" PROVE CountersOK(q)'
        BY <2>11, <2>a, <1>f, <3>2 DEF DropOldAtt, At, Counted
      <3> HIDE DEF CountersOK
      <3> QED BY <1>f, <3>1, <3>2, <2>m
    <2>12. CASE ReadTotal(u)
      <3>1. CountersOK(IdleUpd)' /\ oldSuc' = Absent /\ oldAtt' = Absent
        BY <2>12, <2>a DEF ReadTotal, At, row, IdleUpd
      <3>2. CASE total = Absent
        <4>1. /\ upd' = [upd EXCEPT ![u].pc = "sum_store", ![u].acc = 0]
              /\ "sum_store" \in UpdPc \ {"idle"} /\ 0 \in Optional
          BY <2>12, <3>2 DEF ReadTotal, UpdCarry, UpdPc, Optional
        <4>2. ASSUME NEW q \in Upd, q.pc = "sum_store" PROVE CountersOK(q)'
          BY <3>1, <4>2 DEF IdleUpd
        <4> HIDE DEF CountersOK
        <4> QED BY <4>1, <4>2, <2>m
      <3>3. CASE total # Absent
        BY <2>12, <3>1, <3>3, <2>e DEF ReadTotal
      <3> QED BY <3>2, <3>3
    <2>13. CASE SumCounter(u)
      <3>1. upd[u].pc \in {"sum_store", "sum_challenge", "sum_retrieve"}
        BY <2>13 DEF SumCounter, SumTask
      <3>2. PICK pc \in UpdPc \ {"idle"}, acc \in Optional :
              /\ pc \in {"sum_challenge", "sum_retrieve", "set_total"}
              /\ upd' = [upd EXCEPT ![u].pc = pc, ![u].acc = acc]
        <4>1. SumTask[upd[u].pc] \in Counted
          BY <3>1 DEF SumTask, Counted
        <4>2. upd[u].acc + suc[SumTask[upd[u].pc]] \in Optional
          BY <1>f, <4>1 DEF Optional, Absent
        <4>3. /\ SumNext[upd[u].pc] \in UpdPc \ {"idle"}
              /\ SumNext[upd[u].pc] \in {"sum_challenge", "sum_retrieve", "set_total"}
          BY <3>1 DEF SumNext, UpdPc
        <4> QED BY <2>13, <4>2, <4>3 DEF SumCounter, UpdCarry
      <3>3. ASSUME NEW q \in Upd, q.pc = pc PROVE CountersOK(q)'
        BY <2>13, <2>a, <3>1, <3>2, <3>3 DEF SumCounter, row
      <3> HIDE DEF CountersOK
      <3> QED BY <3>2, <3>3, <2>m
    <2>14. CASE SetTotal(u)
      <3>1. CountersOK(IdleUpd)' /\ oldSuc' = Absent /\ oldAtt' = Absent
        BY <2>14, <2>a DEF SetTotal, At, IdleUpd
      <3> QED BY <2>14, <3>1, <2>e DEF SetTotal
    <2>15. CASE IncTotal(u)
      <3>1. CountersOK(IdleUpd)'
        BY <2>15, <2>a DEF IncTotal, At, IdleUpd
      <3>2. IdleUpd \in Upd
        BY DEF IdleUpd, Upd, UpdPc, Task, Optional
      <3> HIDE DEF CountersOK
      <3> QED BY <2>15, <2>i, <2>a, <3>1, <3>2, AloneMove DEF IncTotal, IdleUpd
    <2> QED BY <1>b, <2>2, <2>3, <2>4, <2>5, <2>6, <2>7, <2>8, <2>9, <2>10,
               <2>11, <2>12, <2>13, <2>14, <2>15 DEF UpdateStatistics
  <1> QED BY <1>1, <1>b

\* A computation finds the counters at rest, and its sums keep up.
LEMMA AloneCompute ==
  ASSUME Alone, BondInv, AloneInv, ComputeAllTiers
  PROVE  AloneInv'
  <1>f. /\ comp \in Comp /\ suc \in [Counted -> Nat] /\ att \in [Counted -> Nat]
        /\ oldSuc \in Optional /\ oldAtt \in Optional
    BY DEF BondInv, TypeOK, RowOK
  <1>u. upd' = upd /\ UNCHANGED <<oldSuc, oldAtt>>
    BY DEF ComputeAllTiers, BeginCompute, ReadCounter, Score, SetTier, ReadLimit,
       DefaultLimit, SetLimit, Rollover, RolloverAborted, row
  <1>i. \A u \in Updater : At(u, "idle")
    <2>1. CASE BeginCompute
      BY <2>1 DEF BeginCompute, MayBegin, Alone
    <2>2. CASE ~BeginCompute
      <3>1. Computing
        BY <2>2 DEF ComputeAllTiers, ReadCounter, Score, SetTier, ReadLimit,
           DefaultLimit, SetLimit, Rollover, RolloverAborted, Computing, ReadNext
      <3> QED BY <3>1 DEF AloneInv
    <2> QED BY <2>1, <2>2
  <1>c. CountersOK(IdleUpd)
    BY <1>i DEF AloneInv
  \* What the updates are like does not change.
  <1>r. ASSUME CountersOK(IdleUpd)', CompOK' PROVE AloneInv'
    BY <1>r, <1>u, <1>i DEF AloneInv, At
  <1>s. ASSUME UNCHANGED <<suc, att>> PROVE CountersOK(IdleUpd)'
    BY <1>s, <1>u, <1>c DEF CountersOK, OldPair
  <1>t. \A t \in Counted : suc[t] <= att[t]
    BY <1>c, <1>f DEF CountersOK, Ahead, IdleUpd, Moving, Counted
  <1>1. CASE BeginCompute
    <2>1. CompOK'
      BY <1>1 DEF BeginCompute, CompOK, IdleComp, ReadAtt
    <2>2. UNCHANGED <<suc, att>>
      BY <1>1 DEF BeginCompute, row
    <2> QED BY <2>1, <2>2, <1>r, <1>s
  <1>2. CASE ReadCounter
    <2>1. UNCHANGED <<suc, att>>
      BY <1>2 DEF ReadCounter, row
    <2>2. CASE comp.pc \in DOMAIN ReadSuc
      <3>1. /\ ReadNext[comp.pc] \in DOMAIN ReadAtt
            /\ ReadNext[comp.pc] \notin DOMAIN ReadSuc \cup {"total"}
            /\ ReadAtt[ReadNext[comp.pc]] = ReadSuc[comp.pc]
            /\ ReadSuc[comp.pc] \in Counted /\ comp.pc \notin DOMAIN ReadAtt
        BY <2>2 DEF ReadSuc, ReadAtt, ReadNext, Counted
      <3>2. /\ comp'.pc = ReadNext[comp.pc] /\ comp'.s = comp.s + suc[ReadSuc[comp.pc]]
            /\ comp'.a = comp.a
        BY <1>2, <1>f, <2>2, <3>1 DEF ReadCounter, Comp
      <3>3. comp.s <= comp.a
        BY <2>2 DEF AloneInv, CompOK
      <3>4. suc[ReadSuc[comp.pc]] <= att[ReadSuc[comp.pc]]
        BY <1>t, <3>1
      <3>5. /\ suc[ReadSuc[comp.pc]] \in Nat /\ att[ReadSuc[comp.pc]] \in Nat
            /\ comp.s \in Nat /\ comp.a \in Nat
        BY <1>f, <3>1 DEF Comp
      <3>6. comp'.s <= comp'.a + att'[ReadAtt[comp'.pc]]
        BY <2>1, <3>1, <3>2, <3>3, <3>4, <3>5
      <3>7. CompOK'
        BY <3>1, <3>2, <3>6 DEF CompOK
      <3> QED BY <2>1, <3>7, <1>r, <1>s
    <2>3. CASE comp.pc \in DOMAIN ReadAtt
      <3>1. /\ ReadNext[comp.pc] \notin DOMAIN ReadAtt
            /\ ReadAtt[comp.pc] \in Counted /\ comp.pc \notin DOMAIN ReadSuc
        BY <2>3 DEF ReadSuc, ReadAtt, ReadNext, Counted
      <3>2. /\ comp'.pc = ReadNext[comp.pc] /\ comp'.s = comp.s
            /\ comp'.a = comp.a + att[ReadAtt[comp.pc]]
        BY <1>2, <1>f, <2>3, <3>1 DEF ReadCounter, Comp
      <3>3. comp.s <= comp.a + att[ReadAtt[comp.pc]]
        BY <2>3 DEF AloneInv, CompOK
      <3>4. CompOK'
        BY <3>1, <3>2, <3>3 DEF CompOK
      <3> QED BY <2>1, <3>4, <1>r, <1>s
    <2>4. comp.pc \in DOMAIN ReadSuc \cup DOMAIN ReadAtt
      BY <1>2 DEF ReadCounter, ReadNext, ReadSuc, ReadAtt
    <2> QED BY <2>2, <2>3, <2>4
  <1>3. CASE \/ Score \/ SetTier \/ ReadLimit \/ DefaultLimit \/ SetLimit
             \/ RolloverAborted
    <2>1. comp'.pc \in {"failed", "tier", "limit", "default_limit", "set_limit", "reset"}
      BY <1>3, <1>f DEF Score, SetTier, ReadLimit, DefaultLimit, SetLimit,
         RolloverAborted, Comp, IdleComp
    <2>2. CompOK'
      BY <2>1 DEF CompOK, ReadSuc, ReadAtt
    <2>3. UNCHANGED <<suc, att>>
      BY <1>3 DEF Score, SetTier, ReadLimit, DefaultLimit, SetLimit,
         RolloverAborted, row
    <2> QED BY <2>2, <2>3, <1>r, <1>s
  <1>4. CASE Rollover
    <2>1. CompOK'
      BY <1>4 DEF Rollover, CompOK, IdleComp, ReadSuc, ReadAtt
    <2>2. CountersOK(IdleUpd)'
      BY <1>4, <1>u, <1>c DEF Rollover, CountersOK, NoCount, Ahead, IdleUpd, OldPair,
         BeforeMove, Moving, Counted
    <2> QED BY <2>1, <2>2, <1>r
  <1> QED BY <1>1, <1>2, <1>3, <1>4 DEF ComputeAllTiers

\* Every step keeps it.
LEMMA AloneNext ==
  ASSUME Alone, BondInv, AloneInv, [Next]_vars
  PROVE  AloneInv'
  <1>1. CASE \E u \in Updater : UpdateStatistics(u)
    BY <1>1, AloneUpdate
  <1>2. CASE ComputeAllTiers
    BY <1>2, AloneCompute
  <1>3. CASE Reregister
    <2>1. ~Computing /\ \A u \in Updater : At(u, "idle")
      BY <1>3 DEF Reregister, MayBegin, Alone
    <2>2. UNCHANGED <<upd, comp, oldSuc, oldAtt>> /\ suc' = NoCount /\ att' = NoCount
      BY <1>3 DEF Reregister, WriteFreshRow
    <2>3. CountersOK(IdleUpd)'
      BY <2>1, <2>2 DEF AloneInv, CountersOK, NoCount, Ahead, IdleUpd, OldPair,
         BeforeMove, Moving, Counted
    <2>4. CompOK'
      BY <2>1, <2>2 DEF Computing, CompOK, ReadSuc, ReadAtt
    <2>5. \A u \in Updater : At(u, "idle")'
      BY <2>1, <2>2 DEF At
    <2> QED BY <2>3, <2>4, <2>5 DEF AloneInv
  <1>4. CASE UNCHANGED vars
    BY <1>4 DEF vars, row, AloneInv, At, Computing, CompOK, CountersOK, OldPair
  <1> QED BY <1>1, <1>2, <1>3, <1>4 DEF Next

\* A legacy row starts with at most as many old successes as old attempts.
LEMMA AloneInit == Init => AloneInv
  <1> SUFFICES ASSUME Init PROVE AloneInv
    OBVIOUS
  <1>1. OldPair
    BY DEF Init, InitRow, OldPair
  <1>2. CountersOK(IdleUpd)
    BY <1>1 DEF Init, CountersOK, NoCount, Ahead, IdleUpd, BeforeMove, Moving, Counted
  <1>3. ~Computing /\ CompOK /\ \A u \in Updater : At(u, "idle")
    BY DEF Init, IdleComp, Computing, CompOK, ReadSuc, ReadAtt, IdleUpd, At
  <1> QED BY <1>2, <1>3 DEF AloneInv

\* When calls do not overlap, every score exists: in any order of updates,
\* computations and registrations, on a new or a legacy row, the successes that a
\* computation has summed up are at most the attempts, also when an update has moved
\* the counters of the old names over those it has just counted.
THEOREM ScoresAreDefined == Spec => []ScoreDefined
  <1> DEFINE Inv == Alone => AloneInv
  <1>1. BondInv /\ Inv => ScoreDefined
    BY DEF BondInv, TypeOK, Comp, AloneInv, CompOK, ScoreDefined, ScoreUndefined, Alone
  <1>2. Init => Inv
    BY AloneInit
  <1>3. BondInv /\ Inv /\ [Next]_vars => Inv'
    <2> SUFFICES ASSUME BondInv, Inv, [Next]_vars, Alone' PROVE AloneInv'
      OBVIOUS
    <2>1. Alone
      BY SettingKept DEF Alone
    <2> QED BY <2>1, AloneNext
  <1> QED BY <1>1, <1>2, <1>3, BondInvariant, PTL DEF Spec
=============================================================================
