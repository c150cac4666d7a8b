---------------------------- MODULE Distribution ----------------------------
(***************************************************************************)
(* How a file is cut into chunks and which miners each chunk is sent to    *)
(* (storage/validator/utils.py), and the pings before that replace the     *)
(* miners which do not answer (storage/validator/network.py).              *)
(*                                                                         *)
(* One call at a time: store_broadband's plan (Ask, Plan, PingChunk,       *)
(* Reroll) or ping_and_retry_uids (Pick, PickPing).  Bytes are counted in  *)
(* units; sys.getsizeof adds Overhead units to the length of the data.     *)
(***************************************************************************)
EXTENDS Integers, Sequences, FiniteSets, SequencesExt, FiniteSetsExt

CONSTANTS
  Metagraphs,   \* functions from uids to [serving, permit, stake]
  StakeLimit,   \* vpermit_tao_limit
  Lengths,      \* lengths of files
  Redundancy,   \* values of R
  Picks,        \* values of k
  MinChunk, MaxChunk,
  Overhead,
  MaxRetries

ASSUME DistributionAssumption ==
  /\ \A axons \in Metagraphs : DOMAIN axons \subseteq Nat /\ IsFiniteSet(DOMAIN axons)
  /\ {MinChunk, MaxChunk, MaxRetries} \subseteq Nat \ {0} /\ MinChunk <= MaxChunk
  /\ {Overhead, StakeLimit} \subseteq Nat
  /\ Lengths \subseteq Nat /\ Redundancy \cup Picks \subseteq Nat \ {0}

VARIABLE plan  \* the call

-----------------------------------------------------------------------------
(* Selection of miners                                                     *)

\* check_uid_availability.
UidAvailable(axon) ==
  axon.serving /\ ~ (axon.permit /\ axon.stake > StakeLimit)

\* get_available_uids.
AvailableUids(axons, exclude) ==
  {uid \in DOMAIN axons : UidAvailable(axons[uid])} \ exclude

\* get_pseudorandom_uids: the block hash decides which, and in which order.
PseudorandomUids(uids, k) ==
  LET n == Min({k, Cardinality(uids)})
  IN  {s \in [1..n -> uids] : IsInjective(s)}

\* get_available_query_miners.
QueryMiners(axons, k, exclude) == PseudorandomUids(AvailableUids(axons, exclude), k)

-----------------------------------------------------------------------------
(* Chunks                                                                  *)

OptimalChunkSize(size, available, r) ==
  LET chunks == available \div r
      ideal  == IF chunks > 0 THEN size \div chunks ELSE MaxChunk
      chunk  == Max({MinChunk, Min({ideal, MaxChunk})})
  IN  IF chunk > size THEN size ELSE chunk

\* calculate_chunk_indices.
ChunkIndices(size, chunk) ==
  [i \in 1..(size + chunk - 1) \div chunk |->
     [start |-> (i - 1) * chunk, end |-> Min({i * chunk, size})]]

\* adjust_uids_to_multiple.
CompleteGroups(uids, r) == SubSeq(uids, 1, (Len(uids) \div r) * r)

\* partition_uids.
PartitionUids(uids, r) == [g \in 1..Len(uids) \div r |-> SubSeq(uids, (g - 1) * r + 1, g * r)]

\* A bug: as many groups as there are.
ReuseGroups_Once(groups, needed) == groups

\* Groups are reused in turn for as many chunks as are needed.
ReuseGroups(groups, needed) ==
  [i \in 1..Max({Len(groups), needed}) |-> groups[((i - 1) % Len(groups)) + 1]]

\* compute_chunk_distribution_mut_exclusive_numpy_reuse_uids.
ChunkDistribution(size, chunk, r, uids) ==
  LET indices == ChunkIndices(size, chunk)
      groups  == ReuseGroups(PartitionUids(CompleteGroups(uids, r), r), size \div chunk)
  IN  [i \in 1..Min({Len(indices), Len(groups)}) |->
         [start |-> indices[i].start, end |-> indices[i].end, uids |-> ToSet(groups[i])]]

-----------------------------------------------------------------------------
(* Calls                                                                   *)

Idle == [pc |-> "idle"]

Begin(pc, axons, length, r, k, exclude) ==
  plan' = [pc |-> pc, axons |-> axons, length |-> length, r |-> r, k |-> k,
           exclude |-> exclude, chunks |-> <<>>, groups |-> 0, i |-> 1,
           good |-> {}, retries |-> 0,
           answered |-> {},  \* history: miners that answered
           enough |-> {}]    \* history: chunks for which enough did

\* store_broadband asks for a plan, with the miners that failed excluded.
Ask ==
  /\ plan.pc = "idle"
  /\ \E axons \in Metagraphs, length \in Lengths, r \in Redundancy, k \in Picks :
       \E exclude \in SUBSET DOMAIN axons :
         Begin("plan", axons, length, r, k, exclude)

Plan ==
  /\ plan.pc = "plan"
  /\ \E uids \in QueryMiners(plan.axons, plan.k, plan.exclude) :
       LET size  == plan.length + Overhead
           chunk == OptimalChunkSize(size, Len(uids), plan.r)
       IN  plan' =
             IF chunk = 0 \/ plan.r > Len(CompleteGroups(uids, plan.r))
               THEN [plan EXCEPT !.pc = "raised"]
               ELSE [plan EXCEPT !.pc = "ping", !.groups = Len(uids) \div plan.r,
                       !.chunks = ChunkDistribution(size, chunk, plan.r, uids)]

NextChunk(p) ==
  [p EXCEPT !.pc = IF p.i = Len(p.chunks) THEN "done" ELSE "ping",
            !.i = IF p.i = Len(p.chunks) THEN 1 ELSE p.i + 1, !.good = {}, !.retries = 0]

\* The uids that come first in order.
FirstUids(uids, n) == {uid \in uids : Cardinality({u \in uids : u < uid}) < n}

\* A bug: the miners of the last ping are kept.
PingChunk_Kept ==
  /\ plan.pc = "ping"
  /\ LET target == plan.r  \* the miners of the first chunk at the start
     IN  \E up \in SUBSET plan.chunks[plan.i].uids :
           LET good     == plan.good \cup up
               answered == plan.answered \cup up
           IN  IF Cardinality(good) >= target
                 THEN plan' = NextChunk([plan EXCEPT
                        !.answered = answered, !.enough = @ \cup {plan.i}])
                 ELSE \E new \in QueryMiners(plan.axons, target, good) :
                        LET p == [plan EXCEPT !.chunks[plan.i].uids = ToSet(new),
                                              !.answered = answered,
                                              !.good = good, !.retries = @ + 1]
                        IN  plan' = IF p.retries < MaxRetries THEN p ELSE NextChunk(p)

\* compute_and_ping_chunks: one ping of the miners of a chunk.
PingChunk ==
  /\ plan.pc = "ping"
  /\ LET target == plan.r  \* the miners of the first chunk at the start
     IN  \E up \in SUBSET plan.chunks[plan.i].uids :
           LET good     == plan.good \cup up
               answered == plan.answered \cup up
           IN  IF Cardinality(good) >= target
                 THEN plan' = NextChunk([plan EXCEPT
                        !.chunks[plan.i].uids = FirstUids(good, target),
                        !.answered = answered, !.enough = @ \cup {plan.i}])
                 ELSE \E new \in QueryMiners(plan.axons, target, good) :
                        LET p == [plan EXCEPT !.chunks[plan.i].uids = ToSet(new),
                                              !.answered = answered,
                                              !.good = good, !.retries = @ + 1]
                        IN  plan' = IF p.retries < MaxRetries THEN p ELSE NextChunk(p)

\* ping_and_retry_uids.
Pick ==
  /\ plan.pc = "idle"
  /\ \E axons \in Metagraphs, k \in Picks : \E exclude \in SUBSET DOMAIN axons :
       \E uids \in QueryMiners(axons, k, exclude) :
         plan' = [pc |-> "pick", axons |-> axons, k |-> k, uids |-> ToSet(uids),
                  good |-> {}, failed |-> {}, retries |-> 0]

\* A bug: miners that did not answer are asked again.
PickPing_Again ==
  /\ plan.pc = "pick"
  /\ \E up \in SUBSET plan.uids :
       LET good == plan.good \cup up
           p    == [plan EXCEPT !.good = good, !.failed = @ \cup (plan.uids \ up)]
       IN  IF Cardinality(good) >= plan.k \/ plan.retries + 1 = MaxRetries
             THEN plan' = [p EXCEPT !.pc = "picked"]
             ELSE \E new \in QueryMiners(plan.axons, plan.k, good) :
                    plan' = [p EXCEPT !.uids = ToSet(new), !.retries = @ + 1]

PickPing ==
  /\ plan.pc = "pick"
  /\ \E up \in SUBSET plan.uids :
       LET good   == plan.good \cup up
           failed == plan.failed \cup (plan.uids \ up)
           p      == [plan EXCEPT !.good = good, !.failed = failed]
       IN  IF Cardinality(good) >= plan.k \/ plan.retries + 1 = MaxRetries
             THEN plan' = [p EXCEPT !.pc = "picked"]
             ELSE \E new \in QueryMiners(plan.axons, plan.k, good \cup failed) :
                    plan' = [p EXCEPT !.uids = ToSet(new), !.retries = @ + 1]

EndCall ==
  /\ plan.pc \in {"done", "raised", "picked"}
  /\ plan' = Idle

-----------------------------------------------------------------------------
(* Specification                                                           *)

PlanInit == plan = Idle

PlanNext == Ask \/ Plan \/ PingChunk \/ Pick \/ PickPing \/ EndCall

PlanSpec == PlanInit /\ [][PlanNext]_plan

-----------------------------------------------------------------------------
(* Properties                                                              *)

Planned == plan.pc \in {"ping", "done"}
Uids == UNION {DOMAIN axons : axons \in Metagraphs}
Size == plan.length + Overhead

StoreCall ==
  [pc : {"plan", "raised", "ping", "done"}, axons : Metagraphs, length : Lengths,
   r : Redundancy, k : Picks, exclude : SUBSET Uids,
   chunks : Seq([start : Nat, end : Nat, uids : SUBSET Uids]), groups : Nat, i : Nat \ {0},
   good : SUBSET Uids, retries : 0..MaxRetries - 1, answered : SUBSET Uids,
   enough : SUBSET Nat]
PickCall ==
  [pc : {"pick", "picked"}, axons : Metagraphs, k : Picks, uids : SUBSET Uids,
   good : SUBSET Uids, failed : SUBSET Uids, retries : 0..MaxRetries - 1]

PlanTypeOK ==
  \/ plan = Idle
  \/ /\ plan \in StoreCall
     /\ \A i \in 1..Len(plan.chunks) : /\ plan.chunks[i].start < plan.chunks[i].end
                                       /\ plan.chunks[i].end <= Size
     /\ plan.enough \subseteq 1..Len(plan.chunks)
  \/ plan \in PickCall

\* The chunks follow each other from the first byte on.  They reach the last byte
\* of the file when it fits in one chunk of the largest size for each group of
\* miners and there are at most Overhead + 1 groups: the size of a chunk, the length
\* with its overhead by the groups, is rounded down.  Otherwise they lack less than a
\* chunk at the end (the chunks that are planned are counted with a division that is
\* rounded up, the groups of miners with one that is rounded down).
PlanCovers ==
  Planned =>
    LET last == Last(plan.chunks)
    IN  /\ plan.chunks[1].start = 0
        /\ \A i \in 1..Len(plan.chunks) - 1 : plan.chunks[i].end = plan.chunks[i + 1].start
        /\ Size <= plan.groups * MaxChunk /\ plan.groups <= Overhead + 1
             => last.end >= plan.length
        /\ Size - last.end < plan.chunks[1].end

\* utils.py:773 says of the distribution: "It evenly divides the data into chunks and
\* assigns UIDs to each chunk".  So every byte of the data is in a planned chunk.
AllBytesPlanned == Planned => Last(plan.chunks).end >= plan.length

\* A chunk for which enough miners answered within the rounds of pings gets R
\* miners, and each of them has answered.
PingedAnswered ==
  Planned => \A i \in plan.enough :
    /\ Cardinality(plan.chunks[i].uids) = plan.r
    /\ plan.chunks[i].uids \subseteq plan.answered

\* A search that finds fewer than k miners has asked every available miner, or k
\* others in each round after the first.
PickThorough ==
  plan.pc = "picked" /\ Cardinality(plan.good) < plan.k =>
    LET asked == plan.good \cup plan.failed
    IN  \/ AvailableUids(plan.axons, {}) \subseteq asked
        \/ Cardinality(asked) >= (MaxRetries - 1) * plan.k
=============================================================================
