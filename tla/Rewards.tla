------------------------------- MODULE Rewards -------------------------------
(***************************************************************************)
(* From the answers of a round to the moving averages of the miners        *)
(* (storage/validator/reward.py, challenge.py) and from these to the       *)
(* weights (storage/validator/weights.py).                                 *)
(*                                                                         *)
(* Of a reward, and of a score, only the sign and the order matter: they   *)
(* are small integers, or NaN.  The tiers and the sigmoid change the size  *)
(* of a reward and not its sign.                                           *)
(***************************************************************************)
EXTENDS Integers, Sequences, FiniteSets, SequencesExt, FiniteSetsExt

CONSTANTS
  Miner,     \* uids of miners
  Rounds,    \* sequences of miners that are asked
  MaxTime,   \* bound: process times
  Sizes,     \* sizes of data
  MaxScore,  \* bound: scores
  NaN

ASSUME RewardsAssumption ==
  /\ Rounds \subseteq Seq(Miner) /\ \A uids \in Rounds : IsInjective(uids)
  /\ MaxTime \in Nat /\ Sizes \subseteq Nat \ {0} /\ MaxScore \in Nat \ {0}
  /\ NaN \notin Int

VARIABLE rew  \* the round, the scores and the weights

Kinds == {"store", "challenge", "retrieve"}
Scores == (-MaxScore)..MaxScore \cup {NaN}

\* The outcome of the verification, the process time (0 for none) and the size.
\* A challenge to a miner without data has no outcome, and a dummy for an answer.
Answers(kind) ==
  {a \in [verified : {"yes", "no", "none"}, time : 0..MaxTime, size : Sizes] :
     a.verified = "none" => kind = "challenge" /\ a.time = 0}

-----------------------------------------------------------------------------
(* Rewards of a round                                                      *)

\* create_reward_vector and challenge_data, with the signs of storage/constants.py.
Reward(kind, answer) ==
  CASE answer.verified = "yes" -> 1
    [] answer.verified = "no"  -> IF kind = "retrieve" THEN -1 ELSE 0
    [] OTHER                   -> 0

\* The members of s at these indices, in their order.
AtIndices(s, indices) ==
  [k \in 1..Cardinality(indices) |->
     s[CHOOSE i \in indices : Cardinality({j \in indices : j <= i}) = k]]

\* _filter_verified_responses: what belongs to the answers that have an outcome.
Kept(s, answers) == AtIndices(s, {i \in 1..Len(answers) : answers[i].verified # "none"})

\* remove_indices_from_tensor.
Without(s, indices) == AtIndices(s, (1..Len(s)) \ indices)

\* scale_rewards: who did not answer is as slow as the slowest.
Time(answers, i) ==
  IF answers[i].time > 0 THEN answers[i].time
  ELSE LET known == {answers[j].time : j \in 1..Len(answers)} \ {0}
       IN  IF known = {} THEN 1 ELSE Max(known)

\* get_sorted_response_times: the place of an answer in a stable sort.
Place(answers, i) ==
  Cardinality({j \in 1..Len(answers) :
                 \/ Time(answers, j) < Time(answers, i)
                 \/ Time(answers, j) = Time(answers, i) /\ j <= i})

SortedTimes(uids, answers) ==
  [k \in 1..Len(uids) |->
     LET i == CHOOSE i \in 1..Len(uids) : Place(answers, i) = k
     IN  [uid |-> uids[i], time |-> Time(answers, i)]]

\* A bug: the normalized times are given out in the order of the miners.
UnitTimes_Unsorted(uids, answers, sizes) ==
  LET sorted == SortedTimes(uids, answers)
  IN  [i \in 1..Len(uids) |-> [time |-> sorted[i].time, size |-> sizes[i]]]

\* The times are sorted before they are divided by the sizes, which are not: the size is
\* that of another answer.
UidToNormalizedTime(uids, sorted, sizes) ==
  [u \in ToSet(uids) |->
     LET k == CHOOSE k \in 1..Len(sorted) : sorted[k].uid = u
     IN  [time |-> sorted[k].time, size |-> sizes[k]]]

\* The unit time of each miner, as time over size.
UnitTimes(uids, answers, sizes) ==
  LET unit == UidToNormalizedTime(uids, SortedTimes(uids, answers), sizes)
  IN  [i \in 1..Len(uids) |-> unit[uids[i]]]

\* The rewards are divided by a sum: 0/0 when nobody earned anything.
Scaled(rewards) ==
  IF \A i \in 1..Len(rewards) : rewards[i] = 0
    THEN [i \in 1..Len(rewards) |-> NaN]
    ELSE rewards

-----------------------------------------------------------------------------
(* Scores and weights                                                      *)

\* A step of the moving average from a score towards a reward of some size.
Averages(score, reward) ==
  IF NaN \in {score, reward} THEN {NaN}
  ELSE {x \in (-MaxScore)..MaxScore :
          CASE reward > 0 -> x >= Min({score, 1})
            [] reward < 0 -> x <= Max({score, -1})
            [] OTHER      -> x \in Min({score, 0})..Max({score, 0})}

\* A bug: negative scores are moved up and kept.
RawWeights_Shifted(scores) ==
  LET known   == [u \in Miner |-> IF scores[u] = NaN THEN 0 ELSE scores[u]]
      minimum == Min({known[u] : u \in Miner})
  IN  [u \in Miner |-> IF minimum < 0 THEN known[u] - minimum ELSE known[u]]

\* set_weights_for_validator, before they are divided by their sum.
RawWeights(scores) ==
  LET known    == [u \in Miner |-> IF scores[u] = NaN THEN 0 ELSE scores[u]]
      minimum  == Min({known[u] : u \in Miner})
      nan_to_min == [u \in Miner |-> IF scores[u] = NaN THEN minimum ELSE known[u]]
      positive == [u \in Miner |->
                     IF minimum < 0 THEN nan_to_min[u] - minimum ELSE nan_to_min[u]]
  IN  [u \in Miner |-> IF known[u] < 0 THEN 0 ELSE positive[u]]

-----------------------------------------------------------------------------
(* Steps                                                                   *)

NoRound == [kind |-> "store", uids |-> <<>>, answers |-> <<>>, sizes |-> <<>>,
            rewards |-> <<>>, units |-> <<>>]
NoScores == [u \in Miner |-> 0]
NotAsked == [verified |-> "unasked", time |-> 0, size |-> 0]
Unasked == [u \in Miner |-> NotAsked]

Begun(kind, uids, answers) ==
  [kind |-> kind, uids |-> uids, answers |-> answers,
   sizes |-> [i \in 1..Len(uids) |-> answers[i].size],
   rewards |-> [i \in 1..Len(uids) |-> Reward(kind, answers[i])], units |-> <<>>]

\* History: the answer of each miner that is asked.
AnswerOf(uids, answers) ==
  [u \in Miner |-> IF u \in ToSet(uids)
                     THEN answers[CHOOSE i \in 1..Len(uids) : uids[i] = u]
                     ELSE NotAsked]

\* The answers of a round; in a store all get the same data.
Answer ==
  /\ rew.pc = "idle"
  /\ \E kind \in Kinds, uids \in Rounds :
       \E answers \in [1..Len(uids) -> Answers(kind)] :
         /\ kind = "store" => \A i, j \in 1..Len(uids) : answers[i].size = answers[j].size
         /\ rew' = [rew EXCEPT !.pc = "answers", !.weights = NoScores,
                               !.round = Begun(kind, uids, answers),
                               !.asked = AnswerOf(uids, answers)]

\* A bug: the rewards of miners without data are taken out from the end.
Filter_Rewards ==
  /\ rew.pc = "answers"
  /\ LET r == rew.round
         removed == {i \in 1..Len(r.answers) : r.answers[i].verified = "none"}
         uids    == Kept(r.uids, r.answers)
         answers == Kept(r.answers, r.answers)
         sizes   == Without(r.sizes, removed)
     IN  rew' = [rew EXCEPT !.pc = "apply",
                   !.round = [r EXCEPT !.uids = uids, !.answers = answers, !.sizes = sizes,
                                !.rewards = SubSeq(@, 1, Len(uids)),
                                !.units = UnitTimes(uids, answers, sizes)]]

\* Miners without data are taken out of uids and answers by their outcome, out of sizes
\* and rewards by their index.  Then scale_rewards starts.
Filter ==
  /\ rew.pc = "answers"
  /\ LET r == rew.round
         removed == {i \in 1..Len(r.answers) : r.answers[i].verified = "none"}
         uids    == Kept(r.uids, r.answers)
         answers == Kept(r.answers, r.answers)
         sizes   == Without(r.sizes, removed)
     IN  rew' = [rew EXCEPT !.pc = "apply",
                   !.round = [r EXCEPT !.uids = uids, !.answers = answers, !.sizes = sizes,
                                !.rewards = Without(@, removed),
                                !.units = UnitTimes(uids, answers, sizes)]]

\* The rewards are scattered over the scores.
Scattered(r, scores, u) ==
  IF u \in ToSet(r.uids)
    THEN Averages(scores[u],
                  Scaled(r.rewards)[CHOOSE i \in 1..Len(r.uids) : r.uids[i] = u])
    ELSE {scores[u]}

\* apply_reward_scores.
Apply ==
  /\ rew.pc = "apply"
  /\ \E scores \in [Miner -> Scores] :
       /\ \A u \in Miner : scores[u] \in Scattered(rew.round, rew.scores, u)
       /\ rew' = [rew EXCEPT !.pc = "idle", !.scores = scores, !.round = NoRound,
                             !.asked = Unasked]

\* With the sum of the weights left out.
SetWeights ==
  /\ rew.pc = "idle"
  /\ rew' = [rew EXCEPT !.pc = "set", !.weights = RawWeights(rew.scores)]

WeightsSet ==
  /\ rew.pc = "set"
  /\ rew' = [rew EXCEPT !.pc = "idle", !.weights = NoScores]

\* A restart: load_state takes saved scores without NaN only.
LoadScores ==
  /\ rew.pc = "idle"
  /\ \E u \in Miner : rew.scores[u] = NaN
  /\ rew' = [rew EXCEPT !.scores = NoScores]

-----------------------------------------------------------------------------
(* Specification                                                           *)

RewInit == rew = [pc |-> "idle", scores |-> NoScores, weights |-> NoScores,
                  round |-> NoRound, asked |-> Unasked]

RewNext == Answer \/ Filter \/ Apply \/ SetWeights \/ WeightsSet \/ LoadScores

RewSpec == RewInit /\ [][RewNext]_rew

-----------------------------------------------------------------------------
(* Properties                                                              *)

Round ==
  [kind : Kinds, uids : Seq(Miner), answers : Seq(Answers("challenge")), sizes : Seq(Sizes),
   rewards : Seq({-1, 0, 1}), units : Seq([time : Nat, size : Sizes])]

RewTypeOK ==
  /\ rew \in [pc : {"idle", "answers", "apply", "set"}, scores : [Miner -> Scores],
             weights : [Miner -> 0..2 * MaxScore], round : Round,
             asked : [Miner -> Answers("challenge") \cup {NotAsked}]]
  /\ LET r == rew.round
     IN  /\ Len(r.uids) = Len(r.answers) /\ Len(r.uids) = Len(r.sizes)
         /\ Len(r.uids) = Len(r.rewards)

\* A round moves the score of each miner according to its own answer, also when miners
\* without data were taken out of it, and leaves the scores of these and of all others
\* alone.  A score is lost (NaN) in a round in which nobody earned anything.
OwnAnswer ==
  [][rew.pc = "apply" =>
       LET earned == \E u \in Miner :
                       \/ rew.asked[u].verified = "yes"
                       \/ rew.asked[u].verified = "no" /\ rew.round.kind = "retrieve"
       IN  \A u \in Miner :
             LET asked == rew.asked[u].verified
                 old   == rew.scores[u]
                 new   == rew'.scores[u]
                 lost  == old = NaN \/ ~ earned
             IN  /\ asked \in {"unasked", "none"} => new = old
                 /\ asked \in {"yes", "no"} => (new = NaN <=> lost)
                 /\ asked = "yes" /\ ~ lost => new >= Min({old, 1})
                 /\ asked = "no" /\ ~ lost => new <= Max({old, 0})]_rew

\* The reward of a miner is scaled with its own process time, wherever miners without data
\* were taken out and however the times were sorted; who did not answer is as slow as the
\* slowest.  The sizes that belong to the answers are in the order of the miners.
OwnTime ==
  rew.pc = "apply" =>
    LET r == rew.round
    IN  \A i \in 1..Len(r.uids) :
          LET answer == rew.asked[r.uids[i]]
          IN  /\ r.sizes[i] = answer.size
              /\ answer.time > 0 => r.units[i].time = answer.time
              /\ answer.time = 0 =>
                   \A j \in 1..Len(r.uids) : r.units[j].time <= r.units[i].time

\* Weights are never negative; those of negative and of lost scores are zero; those of
\* other scores keep their order.
WeightsFollow ==
  rew.pc = "set" =>
    \A u \in Miner :
      /\ rew.weights[u] >= 0
      /\ rew.scores[u] = NaN \/ rew.scores[u] < 0 => rew.weights[u] = 0
      /\ \A v \in {w \in Miner : rew.scores[w] # NaN} :
           rew.scores[u] \in 0..rew.scores[v] - 1 => rew.weights[u] < rew.weights[v]
=============================================================================
