--------------------------- MODULE Sequential_proofs ---------------------------
(***************************************************************************)
(* Proofs about the components that run one call at a time: Admission (the *)
(* limits on rates), Rewards (rounds and weights) and Distribution (chunks *)
(* and the search for miners), for any constants within their assumptions; *)
(* and about MCSequential, which lets one component at a time move.        *)
(*                                                                         *)
(* What would need an induction over finite sets is argued from a least    *)
(* counterexample (LeastSet, LeastNatural of MerkleTree_proofs).           *)
(***************************************************************************)
EXTENDS MCSequential, MerkleTree_proofs, Client_proofs, SequenceTheorems

-----------------------------------------------------------------------------
(* Admission                                                               *)

\* Whether requests, in order, are the end of let, all before them is out of the window,
\* and any MaxRequests + 1 of let in a row span more than a window.
InOrder(let, requests, now) ==
  LET before == Len(let) - Len(requests)
  IN  /\ before >= 0
      /\ \A i \in 1..Len(let) : let[i] <= now
      /\ \A i, j \in 1..Len(let) : i <= j => let[i] <= let[j]
      /\ \A j \in 1..Len(requests) : requests[j] = let[before + j]
      /\ \A i \in 1..before : now - let[i] > TimeWindow
      /\ \A i \in 1..Len(let) - MaxRequests : let[i + MaxRequests] - let[i] > TimeWindow

\* Requests that leave no room for another.
Full(requests, now) ==
  /\ Len(requests) = MaxRequests
  /\ \A j \in 1..Len(requests) : now - requests[j] <= TimeWindow

\* What a limiter keeps of a caller is the end of what it ever let pass; who was refused
\* last has a full limiter.
RateOK(c) ==
  /\ InOrder(gate.let[c], gate.limiters[c], gate.now)
  /\ gate.last = c => Full(gate.limiters[c], gate.now)

GateInv ==
  /\ GateTypeOK
  /\ \A c \in Caller : RateOK(c)
  /\ gate.miner # "on" => gate.last \in Outcomes

\* Min is the least member.
LEMMA MinNatural ==
  ASSUME NEW T \in SUBSET Nat, T # {}
  PROVE  Min(T) \in T /\ \A y \in T : Min(T) <= y
  BY LeastNatural DEF Min

LEMMA TimesTyped ==
  ASSUME NEW s \in Times
  PROVE  /\ Len(s) \in Nat /\ \A i \in 1..Len(s) : s[i] \in 0..MaxNow /\ s[i] \in Nat
         /\ \A t \in 0..MaxNow : /\ Append(s, t) \in Times /\ Len(Append(s, t)) = Len(s) + 1
                                 /\ Append(s, t)[Len(s) + 1] = t
                                 /\ \A i \in 1..Len(s) : Append(s, t)[i] = s[i]
  BY AdmissionAssumption DEF Times

\* What is taken out of a limiter is out of the window; of requests in order, what is
\* left is in it.
LEMMA WindowFacts ==
  ASSUME NEW s \in Times, NEW now \in 0..MaxNow
  PROVE  \E k \in 0..Len(s) :
           /\ InWindow(s, now) \in Times
           /\ Len(InWindow(s, now)) = Len(s) - k
           /\ \A j \in 1..Len(s) - k : InWindow(s, now)[j] = s[k + j]
           /\ \A i \in 1..k : now - s[i] > TimeWindow
           /\ (\A i, j \in 1..Len(s) : i <= j => s[i] <= s[j]) =>
                \A j \in 1..Len(s) - k : now - s[k + j] <= TimeWindow
  <1> DEFINE recent == {i \in 1..Len(s) : now - s[i] <= TimeWindow}
  <1>t. Len(s) \in Nat /\ (\A i \in 1..Len(s) : s[i] \in Nat) /\ TimeWindow \in Nat /\ now \in Nat
    BY TimesTyped, AdmissionAssumption
  <1>1. CASE recent = {}
    <2>1. InWindow(s, now) = <<>>
      BY <1>1 DEF InWindow
    <2>2. <<>> \in Times /\ Len(<<>>) = 0
      BY DEF Times
    <2>3. \A i \in 1..Len(s) : now - s[i] > TimeWindow
      BY <1>1, <1>t
    <2> WITNESS Len(s) \in 0..Len(s)
    <2> QED BY <1>t, <2>1, <2>2, <2>3
  <1>2. CASE recent # {}
    <2>1. InWindow(s, now) = SubSeq(s, Min(recent), Len(s))
      BY <1>2 DEF InWindow
    <2>2. recent \in SUBSET Nat /\ recent \subseteq 1..Len(s)
      BY <1>t
    <2>3. Min(recent) \in recent /\ \A i \in recent : Min(recent) <= i
      BY <1>2, <2>2, MinNatural
    <2>4. PICK m \in 1..Len(s) : m = Min(recent)
      BY <2>2, <2>3
    <2>5. now - s[m] <= TimeWindow /\ \A i \in 1..m - 1 : now - s[i] > TimeWindow
      <3>1. m \in recent
        BY <2>3, <2>4
      <3>2. ASSUME NEW i \in 1..m - 1 PROVE ~ (now - s[i] <= TimeWindow) /\ i \in 1..Len(s)
        <4>1. i \in 1..Len(s) /\ ~ (m <= i)
          BY <1>t
        <4>2. i \notin recent
          BY <2>3, <2>4, <4>1
        <4> QED BY <4>1, <4>2
      <3> QED BY <1>t, <3>1, <3>2
    <2> HIDE DEF recent
    <2>6. /\ SubSeq(s, m, Len(s)) \in Times
          /\ Len(SubSeq(s, m, Len(s))) = Len(s) - (m - 1)
          /\ \A j \in 1..Len(s) - (m - 1) : SubSeq(s, m, Len(s))[j] = s[m - 1 + j]
      <3>1. m \in Int /\ Len(s) \in Int /\ \A i \in m..Len(s) : s[i] \in 0..MaxNow
        BY <1>t, TimesTyped
      <3>2. PICK n \in Int : n = Len(s)
        BY <3>1
      <3>3. /\ SubSeq(s, m, n) \in Seq(0..MaxNow)
            /\ Len(SubSeq(s, m, n)) = IF m <= n THEN n - m + 1 ELSE 0
            /\ \A i \in 1..n - m + 1 : SubSeq(s, m, n)[i] = s[m + i - 1]
        BY <3>1, <3>2, SubSeqProperties
      <3>4. \A j \in 1..n - (m - 1) : j \in 1..n - m + 1 /\ m + j - 1 = m - 1 + j
        BY <3>1
      <3>5. n - m + 1 = n - (m - 1) /\ m <= n
        BY <3>2
      <3> QED BY <3>2, <3>3, <3>4, <3>5 DEF Times
    <2>7. ASSUME \A i, j \in 1..Len(s) : i <= j => s[i] <= s[j],
                 NEW j \in 1..Len(s) - (m - 1)
          PROVE  now - s[m - 1 + j] <= TimeWindow
      <3>1. m - 1 + j \in 1..Len(s) /\ m <= m - 1 + j
        BY <1>t
      <3>2. s[m] <= s[m - 1 + j]
        BY <2>7, <3>1
      <3> QED BY <1>t, <2>5, <3>1, <3>2
    <2>8. m - 1 \in 0..Len(s)
      BY <1>t
    <2> WITNESS m - 1 \in 0..Len(s)
    <2> QED BY <2>1, <2>4, <2>5, <2>6, <2>7
  <1> QED BY <1>1, <1>2

\* Time passes.
LEMMA LaterInOrder ==
  ASSUME NEW let, NEW requests, NEW now \in Nat, NEW later \in Nat, later >= now,
         Len(let) \in Nat, Len(requests) \in Nat, \A i \in 1..Len(let) : let[i] \in Nat,
         InOrder(let, requests, now)
  PROVE  InOrder(let, requests, later)
  <1>1. TimeWindow \in Nat
    BY AdmissionAssumption
  <1>2. \A i \in 1..Len(let) - Len(requests) : i \in 1..Len(let)
    OBVIOUS
  <1> QED BY <1>1, <1>2 DEF InOrder

\* A step that leaves limiters alone and limits nobody; time may pass.
LEMMA LimitersKept ==
  ASSUME GateInv, gate' \in Gate, gate'.limiters = gate.limiters, gate'.let = gate.let,
         gate'.now >= gate.now, gate'.last \in Outcomes
  PROVE  GateInv'
  <1>1. gate.now \in Nat /\ gate'.now \in Nat /\ MaxNow \in Nat
    BY AdmissionAssumption DEF GateInv, GateTypeOK, Gate
  <1>2. GateTypeOK'
    BY DEF GateInv, GateTypeOK
  <1>3. ASSUME NEW c \in Caller PROVE RateOK(c)'
    <2>1. gate'.last # c
      BY AdmissionAssumption
    <2>2. RateOK(c) /\ gate.let[c] \in Times /\ gate.limiters[c] \in Times
      BY DEF GateInv, GateTypeOK, Gate
    <2>3. /\ Len(gate.limiters[c]) \in Nat /\ Len(gate.let[c]) \in Nat
          /\ \A i \in 1..Len(gate.let[c]) : gate.let[c][i] \in Nat
      BY <2>2, TimesTyped
    <2>4. InOrder(gate.let[c], gate.limiters[c], gate'.now)
      <3>1. InOrder(gate.let[c], gate.limiters[c], gate.now)
        BY <2>2 DEF RateOK
      <3> QED BY <1>1, <2>3, <3>1, AdmissionAssumption, LaterInOrder
    <2> QED BY <2>1, <2>4 DEF RateOK
  <1> QED BY <1>2, <1>3 DEF GateInv

\* All limiters are empty, and nothing has been let pass.
LEMMA LimitersNew ==
  ASSUME gate' \in Gate, gate'.limiters = NoTimes, gate'.let = NoTimes, gate'.last \in Outcomes
  PROVE  GateInv'
  <1>1. \A c \in Caller : gate'.limiters[c] = <<>> /\ gate'.let[c] = <<>> /\ gate'.last # c
    BY AdmissionAssumption DEF NoTimes
  <1>2. Len(<<>>) = 0 /\ MaxRequests \in Nat
    BY AdmissionAssumption
  <1>3. GateTypeOK'
    BY <1>1, <1>2 DEF GateTypeOK
  <1>4. \A c \in Caller : RateOK(c)'
    BY <1>1, <1>2 DEF RateOK, InOrder
  <1> QED BY <1>3, <1>4 DEF GateInv

\* The steps in which no limiter works.
LEMMA OtherSteps ==
  ASSUME GateInv,
         \/ StartMiner \/ EndInit \/ StopMiner \/ ApiRefresh \/ ChangeChain \/ PassTime
         \/ \E c \in Caller :
              \/ Priority(c) \/ ApiPriority(c) \/ \E request \in Requests : ApiAsk(request, c)
  PROVE  GateInv'
  <1>g. gate \in Gate /\ MaxNow \in Nat /\ NoTimes \in [Caller -> Times]
    BY AdmissionAssumption DEF GateInv, GateTypeOK, NoTimes, Times
  <1>h. gate.now \in Nat
    BY <1>g DEF Gate
  <1>1. CASE StartMiner
    <2>1. gate' = [gate EXCEPT !.miner = "axon", !.metagraph = gate.chain] /\ gate.miner = "off"
      BY <1>1 DEF StartMiner
    <2>2. /\ gate'.limiters = gate.limiters /\ gate'.let = gate.let /\ gate'.now = gate.now
          /\ gate'.last = gate.last
      BY <1>g, <2>1 DEF Gate
    <2>3. gate' \in Gate
      BY <1>g, <2>1 DEF Gate
    <2>4. gate'.last \in Outcomes
      BY <2>1, <2>2 DEF GateInv
    <2> QED BY <1>h, <2>2, <2>3, <2>4, LimitersKept
  <1>2. CASE EndInit
    <2>1. /\ gate' = [gate EXCEPT !.miner = "on", !.limiters = NoTimes, !.let = NoTimes]
          /\ gate.miner = "axon"
      BY <1>2 DEF EndInit
    <2>2. gate'.limiters = NoTimes /\ gate'.let = NoTimes /\ gate'.last = gate.last
      BY <1>g, <2>1 DEF Gate
    <2>3. gate' \in Gate
      BY <1>g, <2>1 DEF Gate
    <2>4. gate'.last \in Outcomes
      BY <2>1, <2>2 DEF GateInv
    <2> QED BY <2>2, <2>3, <2>4, LimitersNew
  <1>3. CASE StopMiner
    <2>1. gate' = [gate EXCEPT !.miner = "off", !.waits = NobodyWaits,
                          !.limiters = NoTimes, !.let = NoTimes, !.last = "none"]
      BY <1>3 DEF StopMiner
    <2>2. gate'.limiters = NoTimes /\ gate'.let = NoTimes /\ gate'.last \in Outcomes
      BY <1>g, <2>1 DEF Gate, Outcomes
    <2>3. gate' \in Gate
      BY <1>g, <2>1 DEF Gate, NobodyWaits, Outcomes
    <2> QED BY <2>2, <2>3, LimitersNew
  <1>4. ASSUME NEW r \in Gate, gate' = r, r.limiters = gate.limiters, r.let = gate.let,
               r.now \in {gate.now, gate.now + 1}, r.last \in Outcomes
        PROVE  GateInv'
    <2>1. gate'.now >= gate.now
      BY <1>4, <1>h
    <2> QED BY <1>4, <2>1, LimitersKept
  <1>o. "none" \in Outcomes
    BY DEF Outcomes
  <1>5. CASE ApiRefresh
    <2>1. CASE gate' = [gate EXCEPT !.apiMetagraph = gate.chain, !.last = "none"]
      <3>1. PICK r : r = [gate EXCEPT !.apiMetagraph = gate.chain, !.last = "none"]
        OBVIOUS
      <3>2. /\ r \in Gate /\ r.limiters = gate.limiters /\ r.let = gate.let
            /\ r.now = gate.now /\ r.last = "none"
        BY <1>g, <3>1 DEF Gate, Outcomes
      <3> QED BY <1>4, <1>o, <2>1, <3>1, <3>2
    <2>2. CASE gate' = [gate EXCEPT !.apiLoop = FALSE, !.last = "none"]
      <3>1. PICK r : r = [gate EXCEPT !.apiLoop = FALSE, !.last = "none"]
        OBVIOUS
      <3>2. /\ r \in Gate /\ r.limiters = gate.limiters /\ r.let = gate.let
            /\ r.now = gate.now /\ r.last = "none"
        BY <1>g, <3>1 DEF Gate, Outcomes
      <3> QED BY <1>4, <1>o, <2>2, <3>1, <3>2
    <2> QED BY <1>5, <2>1, <2>2 DEF ApiRefresh
  <1>6. CASE ChangeChain
    <2>1. PICK c \in Hotkeys :
            gate' = [gate EXCEPT !.last = "none",
                       !.chain = IF c \in @ THEN @ \ {c} ELSE @ \cup {c}]
      BY <1>6 DEF ChangeChain
    <2>2. PICK r : r = [gate EXCEPT !.last = "none",
                          !.chain = IF c \in @ THEN @ \ {c} ELSE @ \cup {c}]
      OBVIOUS
    <2>3. (IF c \in gate.chain THEN gate.chain \ {c} ELSE gate.chain \cup {c}) \in SUBSET Caller
      BY <1>g, AdmissionAssumption DEF Gate
    <2>4. /\ r \in Gate /\ r.limiters = gate.limiters /\ r.let = gate.let
          /\ r.now = gate.now /\ r.last = "none"
      BY <1>g, <2>2, <2>3 DEF Gate, Outcomes
    <2> QED BY <1>4, <1>o, <2>1, <2>2, <2>4
  <1>7. CASE PassTime
    <2>1. PICK r : r = [gate EXCEPT !.now = @ + 1, !.last = "none"]
      OBVIOUS
    <2>2. gate.now \in 0..MaxNow /\ gate.now + 1 \in 0..MaxNow /\ gate' = r
      BY <1>7, <1>g, <2>1 DEF PassTime, Gate
    <2>3. /\ r \in Gate /\ r.limiters = gate.limiters /\ r.let = gate.let
          /\ r.now = gate.now + 1 /\ r.last = "none"
      BY <1>g, <2>1, <2>2 DEF Gate, Outcomes
    <2> QED BY <1>4, <1>o, <2>2, <2>3
  <1>8. ASSUME NEW c \in Caller, NEW w \in {"no", "api"}, NEW o \in Outcomes,
               gate' = [gate EXCEPT !.waits[c] = w, !.last = o]
        PROVE  GateInv'
    <2>1. PICK r : r = [gate EXCEPT !.waits[c] = w, !.last = o]
      OBVIOUS
    <2>2. /\ r \in Gate /\ r.limiters = gate.limiters /\ r.let = gate.let
          /\ r.now = gate.now /\ r.last = o
      BY <1>g, <2>1 DEF Gate
    <2> QED BY <1>4, <1>8, <2>1, <2>2
  <1>9. ASSUME NEW c \in Caller, Priority(c) PROVE GateInv'
    BY <1>8, <1>9 DEF Priority, Outcomes
  <1>10. ASSUME NEW c \in Caller, ApiPriority(c) PROVE GateInv'
    BY <1>8, <1>10 DEF ApiPriority, Outcomes
  <1>11. ASSUME NEW c \in Caller, NEW request \in Requests, ApiAsk(request, c) PROVE GateInv'
    BY <1>8, <1>11 DEF ApiAsk, Outcomes
  <1> QED BY <1>1, <1>2, <1>3, <1>5, <1>6, <1>7, <1>9, <1>10, <1>11

\* What a limiter keeps of a caller when it is asked.
LEMMA LimitedTimes ==
  ASSUME NEW let \in Times, NEW requests \in Times, NEW now \in 0..MaxNow,
         InOrder(let, requests, now), Len(requests) <= MaxRequests
  PROVE  \E k \in 0..Len(requests) :
           /\ InWindow(requests, now) \in Times
           /\ Len(InWindow(requests, now)) = Len(requests) - k
           /\ InOrder(let, InWindow(requests, now), now)
           /\ \A j \in 1..Len(requests) - k : now - InWindow(requests, now)[j] <= TimeWindow
  <1> DEFINE recent == InWindow(requests, now)
  <1>1. PICK n \in Nat, m \in Nat : n = Len(let) /\ m = Len(requests)
    BY TimesTyped
  <1>2. /\ now \in Nat /\ TimeWindow \in Nat /\ MaxRequests \in Nat
        /\ \A i \in 1..n : let[i] \in Nat
    <2>1. \A i \in 1..n : let[i] \in Nat
      BY <1>1, TimesTyped
    <2> QED BY <2>1, AdmissionAssumption
  <1>3. /\ m <= n
        /\ \A i \in 1..n : let[i] <= now
        /\ \A j \in 1..m : requests[j] = let[n - m + j]
        /\ \A i, j \in 1..n : i <= j => let[i] <= let[j]
        /\ \A i \in 1..n - m : now - let[i] > TimeWindow
        /\ \A i \in 1..n - MaxRequests : let[i + MaxRequests] - let[i] > TimeWindow
    BY <1>1 DEF InOrder
  <1>4. \A i, j \in 1..m : i <= j => requests[i] <= requests[j]
    <2>1. \A i \in 1..m : n - m + i \in 1..n
      BY <1>3
    <2>2. \A i, j \in 1..m : i <= j => n - m + i <= n - m + j
      BY <1>3
    <2> QED BY <1>3, <2>1, <2>2
  <1>5. PICK k \in 0..m :
           /\ recent \in Times
           /\ Len(recent) = m - k
           /\ \A j \in 1..m - k : recent[j] = requests[k + j]
           /\ \A i \in 1..k : now - requests[i] > TimeWindow
           /\ \A j \in 1..m - k : now - requests[k + j] <= TimeWindow
    BY <1>1, <1>4, WindowFacts
  <1> HIDE DEF recent
  <1>6. \A j \in 1..m - k : recent[j] = let[n - (m - k) + j] /\ now - recent[j] <= TimeWindow
    <2>1. \A j \in 1..m - k : k + j \in 1..m /\ n - m + (k + j) = n - (m - k) + j
      BY <1>3
    <2> QED BY <1>3, <1>5, <2>1
  <1>7. \A i \in 1..n - (m - k) : now - let[i] > TimeWindow
    <2>1. ASSUME NEW i \in 1..n - (m - k), i \notin 1..n - m PROVE now - let[i] > TimeWindow
      <3>1. i - (n - m) \in 1..k /\ i - (n - m) \in 1..m /\ n - m + (i - (n - m)) = i
        BY <1>3, <2>1
      <3>2. requests[i - (n - m)] = let[i]
        BY <1>3, <3>1
      <3> QED BY <1>5, <3>1, <3>2
    <2> QED BY <1>3, <2>1
  <1>8. n - (m - k) >= 0
    BY <1>3
  <1>9. InOrder(let, recent, now)
    BY <1>1, <1>3, <1>5, <1>6, <1>7, <1>8 DEF InOrder
  <1> QED BY <1>1, <1>5, <1>6, <1>9 DEF recent

\* A request that passes with fewer than MaxRequests before it in the window.
LEMMA PassedTimes ==
  ASSUME NEW let \in Times, NEW recent \in Times, NEW now \in 0..MaxNow,
         InOrder(let, recent, now), Len(recent) < MaxRequests
  PROVE  InOrder(Append(let, now), Append(recent, now), now)
  <1>p. PICK n \in Nat, m \in Nat : n = Len(let) /\ m = Len(recent)
    BY TimesTyped
  <1>q. PICK later, kept : later = Append(let, now) /\ kept = Append(recent, now)
    OBVIOUS
  <1>1. /\ n = Len(let) /\ m = Len(recent)
        /\ later = Append(let, now) /\ kept = Append(recent, now)
    BY <1>p, <1>q
  <1>2. /\ now \in Nat /\ TimeWindow \in Nat /\ MaxRequests \in Nat
        /\ \A i \in 1..n : let[i] \in Nat
    <2>1. \A i \in 1..n : let[i] \in Nat
      BY <1>1, TimesTyped
    <2> QED BY <2>1, AdmissionAssumption
  <1>3. /\ m <= n /\ m < MaxRequests
        /\ \A i \in 1..n : let[i] <= now
        /\ \A j \in 1..m : recent[j] = let[n - m + j]
        /\ \A i, j \in 1..n : i <= j => let[i] <= let[j]
        /\ \A i \in 1..n - m : now - let[i] > TimeWindow
        /\ \A i \in 1..n - MaxRequests : let[i + MaxRequests] - let[i] > TimeWindow
    BY <1>1 DEF InOrder
  <1>4. /\ Len(later) = n + 1 /\ later[n + 1] = now /\ \A i \in 1..n : later[i] = let[i]
        /\ Len(kept) = m + 1 /\ kept[m + 1] = now /\ \A i \in 1..m : kept[i] = recent[i]
    BY <1>1, TimesTyped
  <1>5. /\ \A i \in 1..n + 1 : i \in 1..n \/ i = n + 1
        /\ \A i \in 1..m + 1 : i \in 1..m \/ i = m + 1
        /\ \A i, j \in 1..n + 1 : i = n + 1 /\ i <= j => j = n + 1
        /\ \A i \in 1..m : n - m + i \in 1..n
        /\ \A i \in 1..n - m : i \in 1..n
        /\ n - m + (m + 1) = n + 1 /\ n + 1 - (m + 1) = n - m
    BY <1>3
  <1>6. \A i \in 1..n + 1 : later[i] \in Nat /\ later[i] <= now
    BY <1>2, <1>3, <1>4, <1>5
  <1>7. \A i, j \in 1..n + 1 : i <= j => later[i] <= later[j]
    <2> TAKE i, j \in 1..n + 1
    <2> HAVE i <= j
    <2>1. CASE j = n + 1
      BY <1>4, <1>6, <2>1
    <2>2. CASE j \in 1..n
      <3>1. i \in 1..n
        BY <1>3, <2>2
      <3> QED BY <1>3, <1>4, <2>2, <3>1
    <2> QED BY <1>5, <2>1, <2>2
  <1>8. \A j \in 1..m + 1 : kept[j] = later[n - m + j]
    BY <1>3, <1>4, <1>5
  <1>9. \A i \in 1..n - m : now - later[i] > TimeWindow
    BY <1>3, <1>4, <1>5
  <1>10. ASSUME NEW i \in 1..n + 1 - MaxRequests
         PROVE  later[i + MaxRequests] - later[i] > TimeWindow
    <2>1. CASE i \in 1..n - MaxRequests
      <3>1. i \in 1..n /\ i + MaxRequests \in 1..n
        BY <1>2, <2>1
      <3> QED BY <1>3, <1>4, <2>1, <3>1
    <2>2. CASE i = n + 1 - MaxRequests
      <3>1. i \in 1..n - m /\ i + MaxRequests = n + 1
        BY <1>2, <1>3, <2>2
      <3> QED BY <1>4, <1>9, <3>1
    <2> QED BY <1>2, <2>1, <2>2
  <1>11. Len(later) - Len(kept) = n - m /\ n - m >= 0
    BY <1>3, <1>4
  <1>12. InOrder(later, kept, now)
    BY <1>2, <1>4, <1>6, <1>7, <1>8, <1>9, <1>10, <1>11 DEF InOrder
  <1> QED BY <1>1, <1>12

LEMMA BlacklistedInv ==
  ASSUME GateInv, NEW c \in Caller, Blacklisted(c)
  PROVE  GateInv'
  <1>g. /\ gate \in Gate /\ gate.let[c] \in Times /\ gate.limiters[c] \in Times
        /\ gate.now \in 0..MaxNow /\ MaxRequests \in Nat \ {0}
    BY AdmissionAssumption DEF GateInv, GateTypeOK, Gate
  <1>i. RateOK(c) /\ Len(gate.limiters[c]) <= MaxRequests
    BY DEF GateInv, GateTypeOK
  \* Requests that no limiter sees.
  <1>1. ASSUME NEW w \in {"no", "miner"}, NEW o \in Outcomes,
               \/ gate' = [gate EXCEPT !.last = o]
               \/ gate' = [gate EXCEPT !.waits[c] = w, !.last = o]
        PROVE  GateInv'
    <2>1. PICK r : /\ \/ r = [gate EXCEPT !.last = o]
                      \/ r = [gate EXCEPT !.waits[c] = w, !.last = o]
                   /\ gate' = r
      BY <1>1
    <2>2. /\ r \in Gate /\ r.limiters = gate.limiters /\ r.let = gate.let
          /\ r.now = gate.now /\ r.last = o
      <3>1. CASE r = [gate EXCEPT !.last = o]
        BY <1>g, <3>1 DEF Gate
      <3>2. CASE r = [gate EXCEPT !.waits[c] = w, !.last = o]
        BY <1>g, <3>2 DEF Gate
      <3> QED BY <2>1, <3>1, <3>2
    <2>3. gate'.now >= gate.now
      BY <1>g, <2>1, <2>2
    <2> QED BY <2>1, <2>2, <2>3, LimitersKept
  <1>2. CASE c \in Blacklist \/ c \in Whitelist \ Blacklist \/ gate.miner = "axon"
    BY <1>1, <1>2 DEF Blacklisted, Outcomes
  <1>3. CASE ~ (c \in Blacklist \/ c \in Whitelist \ Blacklist \/ gate.miner = "axon")
    <2> DEFINE limit == RateLimit(c)
    <2>1. gate' = [gate EXCEPT
                       !.limiters[c] = limit.requests,
                       !.let[c]   = IF limit.allowed THEN Append(@, gate.now) ELSE @,
                       !.waits[c] = IF limit.allowed /\ c \in gate.metagraph THEN "miner" ELSE "no",
                       !.last = IF ~ limit.allowed THEN c
                                ELSE IF c \in gate.metagraph THEN "admitted" ELSE "refused"]
      BY <1>3 DEF Blacklisted
    <2>2. PICK requests, let, w, last :
            /\ requests = limit.requests
            /\ let = IF limit.allowed THEN Append(gate.let[c], gate.now) ELSE gate.let[c]
            /\ w = IF limit.allowed /\ c \in gate.metagraph THEN "miner" ELSE "no"
            /\ last = IF ~ limit.allowed THEN c
                      ELSE IF c \in gate.metagraph THEN "admitted" ELSE "refused"
      OBVIOUS
    <2>3. gate' = [gate EXCEPT !.limiters[c] = requests, !.let[c] = let, !.waits[c] = w,
                               !.last = last]
      BY <2>1, <2>2
    <2>4. PICK recent \in Times :
            /\ recent = InWindow(gate.limiters[c], gate.now)
            /\ Len(recent) \in Nat /\ Len(recent) <= MaxRequests
            /\ InOrder(gate.let[c], recent, gate.now)
            /\ \A j \in 1..Len(recent) : gate.now - recent[j] <= TimeWindow
      <3>1. InOrder(gate.let[c], gate.limiters[c], gate.now)
        BY <1>i DEF RateOK
      <3>2. Len(gate.limiters[c]) \in Nat
        BY <1>g, TimesTyped
      <3> QED BY <1>g, <1>i, <3>1, <3>2, LimitedTimes
    <2>5. /\ limit.allowed <=> Len(recent) < MaxRequests
          /\ limit.requests = IF limit.allowed THEN Append(recent, gate.now) ELSE recent
      BY <2>4 DEF RateLimit
    <2> HIDE DEF limit
    <2>6. /\ requests \in Times /\ let \in Times /\ Len(requests) <= MaxRequests
          /\ InOrder(let, requests, gate.now)
          /\ last = c => Full(requests, gate.now)
          /\ last \in {"admitted", "refused", c}
      <3>1. CASE limit.allowed
        <4>1. requests = Append(recent, gate.now) /\ let = Append(gate.let[c], gate.now)
          BY <2>2, <2>5, <3>1
        <4>2. last \in {"admitted", "refused"} /\ last # c
          BY <2>2, <3>1, AdmissionAssumption DEF Outcomes
        <4>3. requests \in Times /\ let \in Times /\ Len(requests) <= MaxRequests
          BY <1>g, <2>4, <2>5, <3>1, <4>1, TimesTyped
        <4>4. InOrder(let, requests, gate.now)
          BY <1>g, <2>4, <2>5, <3>1, <4>1, PassedTimes
        <4> QED BY <4>2, <4>3, <4>4
      <3>2. CASE ~ limit.allowed
        <4>1. requests = recent /\ let = gate.let[c] /\ last = c
          BY <2>2, <2>5, <3>2
        <4>2. Len(recent) = MaxRequests
          BY <1>g, <2>4, <2>5, <3>2
        <4> QED BY <1>g, <2>4, <4>1, <4>2 DEF Full
      <3> QED BY <3>1, <3>2
    <2>7. PICK r : r = [gate EXCEPT !.limiters[c] = requests, !.let[c] = let, !.waits[c] = w,
                                    !.last = last]
      OBVIOUS
    <2>8. last \in Outcomes \cup Caller /\ w \in {"no", "miner", "api"}
      BY <2>2, <2>6 DEF Outcomes
    <2>9. r \in Gate
      BY <1>g, <2>6, <2>7, <2>8 DEF Gate
    <2>10. /\ r.limiters = [gate.limiters EXCEPT ![c] = requests]
           /\ r.let = [gate.let EXCEPT ![c] = let]
           /\ r.now = gate.now /\ r.last = last /\ r.miner = gate.miner
      BY <1>g, <2>7 DEF Gate
    <2>11. ASSUME NEW d \in Caller PROVE Len(gate'.limiters[d]) <= MaxRequests /\ RateOK(d)'
      <3>1. CASE d = c
        <4>1. gate'.limiters[d] = requests /\ gate'.let[d] = let
          BY <1>g, <2>3, <2>7, <2>10, <3>1 DEF Gate
        <4> QED BY <2>3, <2>6, <2>7, <2>10, <3>1, <4>1 DEF RateOK
      <3>2. CASE d # c
        <4>1. gate'.limiters[d] = gate.limiters[d] /\ gate'.let[d] = gate.let[d]
          BY <1>g, <2>3, <2>7, <2>10, <3>2 DEF Gate
        <4>2. gate'.last # d
          BY <2>3, <2>6, <2>7, <2>10, <3>2, AdmissionAssumption DEF Outcomes
        <4> QED BY <2>3, <2>7, <2>10, <4>1, <4>2 DEF RateOK, GateInv, GateTypeOK
      <3> QED BY <3>1, <3>2
    <2>12. GateTypeOK'
      BY <2>3, <2>7, <2>9, <2>11 DEF GateTypeOK
    <2>13. gate.miner = "on"
      BY <1>3, <1>g DEF Blacklisted, Gate
    <2>14. gate'.miner = "on"
      BY <2>3, <2>7, <2>10, <2>13
    <2> QED BY <2>11, <2>12, <2>14 DEF GateInv
  <1> QED BY <1>2, <1>3

LEMMA GateInitInv == GateInit => GateInv
  <1> SUFFICES ASSUME GateInit PROVE GateInv
    OBVIOUS
  <1>1. /\ gate.limiters = NoTimes /\ gate.let = NoTimes /\ gate.now = 0
        /\ gate.last = "none" /\ gate.miner = "off"
    BY DEF GateInit
  <1>2. NoTimes \in [Caller -> Times] /\ 0 \in 0..MaxNow /\ MaxRequests \in Nat
    BY AdmissionAssumption DEF NoTimes, Times
  <1>3. gate \in Gate
    BY <1>2 DEF GateInit, Gate, NobodyWaits, Outcomes
  <1>4. \A c \in Caller : gate.limiters[c] = <<>> /\ gate.let[c] = <<>> /\ gate.last # c
    BY <1>1, AdmissionAssumption DEF NoTimes, Outcomes
  <1>5. \A c \in Caller : RateOK(c) /\ Len(gate.limiters[c]) <= MaxRequests
    BY <1>1, <1>2, <1>4 DEF RateOK, InOrder
  <1> QED BY <1>1, <1>3, <1>5 DEF GateInv, GateTypeOK, Outcomes

LEMMA GateNextInv == GateInv /\ [GateNext]_gate => GateInv'
  <1> SUFFICES ASSUME GateInv, [GateNext]_gate PROVE GateInv'
    OBVIOUS
  <1>1. CASE UNCHANGED gate
    BY <1>1 DEF GateInv, GateTypeOK, RateOK
  <1>2. ASSUME NEW c \in Caller, Blacklisted(c) PROVE GateInv'
    BY <1>2, BlacklistedInv
  <1> QED BY <1>1, <1>2, OtherSteps DEF GateNext

LEMMA GateInvHolds == GateSpec => []GateInv
  BY GateInitInv, GateNextInv, PTL DEF GateSpec

\* RateLimiter, the blacklist functions and the loop of the API node keep every field in
\* its type, and no limiter holds more than max_requests.
THEOREM GateTypes == GateSpec => []GateTypeOK
  <1>1. GateInv => GateTypeOK
    BY DEF GateInv
  <1> QED BY <1>1, GateInvHolds, PTL

\* RateLimiter.is_allowed: for every limit, window and order of requests, a caller is let
\* pass at most MaxRequests times in any window, and is refused only when it was let pass
\* that often in the last one.
THEOREM RatesAreExact == GateSpec => []RateExact
  <1>1. ASSUME GateInv, NEW c \in Caller, NEW start \in 0..MaxNow
        PROVE  LetBetween(c, start, start + TimeWindow) <= MaxRequests
    <2>1. PICK let \in Times, n \in Nat : let = gate.let[c] /\ n = Len(let)
      BY <1>1, TimesTyped DEF GateInv, GateTypeOK, Gate
    <2>2. /\ MaxRequests \in Nat \ {0} /\ TimeWindow \in Nat /\ start \in Nat
          /\ \A i \in 1..n : let[i] \in Nat
      <3>1. \A i \in 1..n : let[i] \in Nat
        BY <2>1, TimesTyped
      <3> QED BY <3>1, AdmissionAssumption
    <2>3. /\ \A i, j \in 1..n : i <= j => let[i] <= let[j]
          /\ \A i \in 1..n - MaxRequests : let[i + MaxRequests] - let[i] > TimeWindow
      BY <1>1, <2>1 DEF GateInv, RateOK, InOrder
    <2>4. PICK S : S = {i \in 1..n : start <= let[i] /\ let[i] <= start + TimeWindow}
      OBVIOUS
    <2>5. LetBetween(c, start, start + TimeWindow) = Cardinality(S)
      BY <2>1, <2>4 DEF LetBetween
    <2>6. CASE S = {}
      BY <2>2, <2>5, <2>6, FS_EmptySet
    <2>7. CASE S # {}
      <3>1. S \in SUBSET Nat
        BY <2>4
      <3>2. PICK m \in S : \A i \in S : m <= i
        BY <2>7, <3>1, LeastNatural
      <3>3. ASSUME NEW i \in S PROVE i \in m..m + MaxRequests - 1
        <4>1. i \in 1..n /\ m \in 1..n /\ m <= i /\ let[i] <= start + TimeWindow /\ start <= let[m]
          BY <2>4, <3>2, <3>3
        <4>2. SUFFICES ASSUME i >= m + MaxRequests PROVE FALSE
          BY <2>2, <4>1
        <4>3. m \in 1..n - MaxRequests /\ m + MaxRequests \in 1..n /\ m + MaxRequests <= i
          BY <2>2, <4>1, <4>2
        <4>4. let[m + MaxRequests] - let[m] > TimeWindow /\ let[m + MaxRequests] <= let[i]
          BY <2>3, <4>1, <4>3
        <4> QED BY <2>2, <4>1, <4>3, <4>4
      <3>4. m \in Nat /\ S \in SUBSET (m..m + MaxRequests - 1)
        BY <3>1, <3>2, <3>3
      <3>5. /\ IsFiniteSet(m..m + MaxRequests - 1)
            /\ Cardinality(m..m + MaxRequests - 1) = MaxRequests
        <4>1. PICK last \in Int : last = m + MaxRequests - 1
          BY <2>2, <3>4
        <4>2. IsFiniteSet(m..last) /\ Cardinality(m..last) = IF m > last THEN 0 ELSE last - m + 1
          BY <3>4, FS_Interval
        <4> QED BY <2>2, <3>4, <4>1, <4>2
      <3>6. Cardinality(S) <= MaxRequests
        <4>1. PICK I : I = m..m + MaxRequests - 1
          OBVIOUS
        <4>2. S \in SUBSET I /\ IsFiniteSet(I) /\ Cardinality(I) = MaxRequests
          BY <3>4, <3>5, <4>1
        <4> QED BY <4>2, FS_Subset
      <3> QED BY <2>5, <3>6
    <2> QED BY <2>6, <2>7
  <1>2. ASSUME GateInv, NEW c \in Caller, gate.last = c
        PROVE  LetBetween(c, gate.now - TimeWindow, gate.now) = MaxRequests
    <2>1. PICK let \in Times, n \in Nat, requests \in Times, now \in Nat :
            /\ let = gate.let[c] /\ n = Len(let) /\ requests = gate.limiters[c]
            /\ now = gate.now
      <3>1. gate.now \in Nat
        BY <1>2, AdmissionAssumption DEF GateInv, GateTypeOK, Gate
      <3> QED BY <1>2, <3>1, TimesTyped DEF GateInv, GateTypeOK, Gate
    <2>2. /\ MaxRequests \in Nat \ {0} /\ TimeWindow \in Nat
          /\ \A i \in 1..n : let[i] \in Nat
      <3>1. \A i \in 1..n : let[i] \in Nat
        BY <2>1, TimesTyped
      <3> QED BY <3>1, AdmissionAssumption
    <2>3. /\ Len(requests) = MaxRequests /\ n - MaxRequests >= 0
          /\ \A i \in 1..n : let[i] <= now
          /\ \A j \in 1..MaxRequests : now - let[n - MaxRequests + j] <= TimeWindow
          /\ \A i \in 1..n - MaxRequests : now - let[i] > TimeWindow
      <3>1. InOrder(let, requests, now) /\ Full(requests, now)
        BY <1>2, <2>1 DEF GateInv, RateOK
      <3>2. /\ Len(requests) = MaxRequests /\ n - MaxRequests >= 0
            /\ \A i \in 1..n : let[i] <= now
            /\ \A j \in 1..MaxRequests : requests[j] = let[n - MaxRequests + j]
            /\ \A i \in 1..n - MaxRequests : now - let[i] > TimeWindow
        BY <2>1, <3>1 DEF InOrder, Full
      <3>3. \A j \in 1..MaxRequests : now - requests[j] <= TimeWindow
        BY <3>1 DEF Full
      <3> QED BY <3>2, <3>3
    <2>4. PICK S : S = {i \in 1..n : now - TimeWindow <= let[i] /\ let[i] <= now}
      OBVIOUS
    <2>5. LetBetween(c, gate.now - TimeWindow, gate.now) = Cardinality(S)
      BY <2>1, <2>4 DEF LetBetween
    <2>6. S = (n - MaxRequests + 1)..n
      <3>1. ASSUME NEW i \in 1..n PROVE i \in S <=> i \in (n - MaxRequests + 1)..n
        <4>1. CASE i \in 1..n - MaxRequests
          <5>1. now - let[i] > TimeWindow /\ i \notin (n - MaxRequests + 1)..n
            BY <2>2, <2>3, <4>1
          <5> QED BY <2>2, <2>4, <5>1
        <4>2. CASE i \in (n - MaxRequests + 1)..n
          <5>1. i - (n - MaxRequests) \in 1..MaxRequests
                /\ n - MaxRequests + (i - (n - MaxRequests)) = i
            BY <2>2, <2>3, <4>2
          <5>2. now - let[i] <= TimeWindow
            BY <2>3, <5>1
          <5> QED BY <2>2, <2>3, <2>4, <4>2, <5>2
        <4> QED BY <2>2, <2>3, <4>1, <4>2
      <3>2. S \subseteq 1..n /\ (n - MaxRequests + 1)..n \subseteq 1..n
        BY <2>2, <2>3, <2>4
      <3> QED BY <3>1, <3>2
    <2>7. Cardinality((n - MaxRequests + 1)..n) = MaxRequests
      <3>1. n - MaxRequests + 1 \in Int /\ n \in Int /\ ~ (n - MaxRequests + 1 > n)
            /\ n - (n - MaxRequests + 1) + 1 = MaxRequests
        BY <2>2
      <3> QED BY <3>1, FS_Interval
    <2> QED BY <2>5, <2>6, <2>7
  <1>3. GateInv => RateExact
    BY <1>1, <1>2 DEF RateExact
  <1> QED BY <1>3, GateInvHolds, PTL

-----------------------------------------------------------------------------
(* Rewards                                                                 *)

\* A set of integers with a lower bound has a least member.
LEMMA MinInteger ==
  ASSUME NEW T \in SUBSET Int, T # {}, NEW low \in Int, \A t \in T : low <= t
  PROVE  Min(T) \in T /\ \A y \in T : Min(T) <= y
  <1> DEFINE N == {t - low : t \in T}
  <1>1. N \in SUBSET Nat /\ N # {}
    <2>1. \A t \in T : t - low \in Nat
      OBVIOUS
    <2> QED BY <2>1
  <1>2. \A t \in T : t - low \in N
    OBVIOUS
  <1>3. \A n \in N : n + low \in T
    OBVIOUS
  <1> HIDE DEF N
  <1>4. PICK n \in N : \A m \in N : n <= m
    BY <1>1, LeastNatural
  <1>5. \A y \in T : n + low <= y
    BY <1>1, <1>2, <1>4
  <1> QED BY <1>3, <1>5 DEF Min

\* A set of integers with an upper bound has a greatest member.
LEMMA MaxInteger ==
  ASSUME NEW T \in SUBSET Int, T # {}, NEW high \in Int, \A t \in T : t <= high
  PROVE  Max(T) \in T /\ \A y \in T : y <= Max(T)
  <1> DEFINE N == {high - t : t \in T}
  <1>1. N \in SUBSET Nat /\ N # {}
    <2>1. \A t \in T : high - t \in Nat
      OBVIOUS
    <2> QED BY <2>1
  <1>2. \A t \in T : high - t \in N
    OBVIOUS
  <1>3. \A n \in N : high - n \in T
    OBVIOUS
  <1> HIDE DEF N
  <1>4. PICK n \in N : \A m \in N : n <= m
    BY <1>1, LeastNatural
  <1>5. \A y \in T : high - n >= y
    BY <1>1, <1>2, <1>4
  <1> QED BY <1>3, <1>5 DEF Max

LEMMA MinPair ==
  ASSUME NEW a \in Int, NEW b \in Int
  PROVE  Min({a, b}) = IF a <= b THEN a ELSE b
  BY DEF Min

LEMMA MaxPair ==
  ASSUME NEW a \in Int, NEW b \in Int
  PROVE  Max({a, b}) = IF a >= b THEN a ELSE b
  BY DEF Max

LEMMA ScoreKinds == Scores = {x \in Int : -MaxScore <= x /\ x <= MaxScore} \cup {NaN}
  BY RewardsAssumption DEF Scores

\* Weights of any scores.
LEMMA WeightsRight ==
  ASSUME NEW scores \in [Miner -> Scores], NEW u \in Miner
  PROVE  LET weights == RawWeights(scores)
         IN  /\ weights[u] \in 0..2 * MaxScore
             /\ scores[u] = NaN \/ scores[u] < 0 => weights[u] = 0
             /\ \A v \in {w \in Miner : scores[w] # NaN} :
                  scores[u] \in 0..scores[v] - 1 => weights[u] < weights[v]
  <1> DEFINE known == [w \in Miner |-> IF scores[w] = NaN THEN 0 ELSE scores[w]]
  <1>m. MaxScore \in Nat \ {0} /\ NaN \notin Int
    BY RewardsAssumption
  <1>1. \A w \in Miner : known[w] \in Int /\ -MaxScore <= known[w] /\ known[w] <= MaxScore
    BY <1>m, ScoreKinds
  <1>2. PICK low \in Int :
          /\ low = Min({known[w] : w \in Miner})
          /\ -MaxScore <= low /\ \A w \in Miner : low <= known[w]
    <2>1. PICK T \in SUBSET Int : T = {known[w] : w \in Miner}
      BY <1>1
    <2>2. T # {} /\ -MaxScore \in Int /\ \A t \in T : -MaxScore <= t
      BY <1>1, <1>m, <2>1
    <2>3. Min(T) \in T /\ \A t \in T : Min(T) <= t
      BY <2>2, MinInteger
    <2>4. \A w \in Miner : known[w] \in T
      BY <2>1
    <2> QED BY <2>1, <2>2, <2>3, <2>4
  <1>3. PICK weights : weights = RawWeights(scores)
    OBVIOUS
  <1>4. \A w \in Miner : weights[w] =
          IF known[w] < 0 THEN 0
          ELSE IF low < 0 THEN (IF scores[w] = NaN THEN low ELSE known[w]) - low
               ELSE IF scores[w] = NaN THEN low ELSE known[w]
    BY <1>2, <1>3 DEF RawWeights
  <1>5. \A w \in Miner : known[w] = IF scores[w] = NaN THEN 0 ELSE scores[w]
    OBVIOUS
  <1>6. \A w \in Miner : scores[w] # NaN => scores[w] \in Int
    BY ScoreKinds
  <1> HIDE DEF known
  <1>7. weights[u] \in 0..2 * MaxScore
    BY <1>1, <1>2, <1>4, <1>5, <1>m
  <1>8. scores[u] = NaN \/ scores[u] < 0 => weights[u] = 0
    BY <1>1, <1>2, <1>4, <1>5, <1>6, <1>m
  <1>9. ASSUME NEW v \in {w \in Miner : scores[w] # NaN}, scores[u] \in 0..scores[v] - 1
        PROVE  weights[u] < weights[v]
    <2>1. scores[u] \in Int /\ scores[v] \in Int /\ 0 <= scores[u] /\ scores[u] < scores[v]
      BY <1>6, <1>9
    <2>2. known[u] = scores[u] /\ known[v] = scores[v] /\ scores[u] # NaN
      BY <1>5, <1>9, <1>m, <2>1
    <2> QED BY <1>2, <1>4, <1>9, <2>1, <2>2
  <1> QED BY <1>3, <1>7, <1>8, <1>9

-----------------------------------------------------------------------------
\* Reordering: what is kept of a round, and the places of its answers.

LEMMA PartOfInterval ==
  ASSUME NEW n \in Nat, NEW S \in SUBSET (1..n)
  PROVE  IsFiniteSet(S) /\ Cardinality(S) \in Nat /\ Cardinality(S) <= n
  <1>1. IsFiniteSet(1..n) /\ Cardinality(1..n) = IF 1 > n THEN 0 ELSE n - 1 + 1
    BY FS_Interval
  <1>2. IsFiniteSet(S) /\ Cardinality(S) <= Cardinality(1..n)
    BY <1>1, FS_Subset
  <1>3. Cardinality(S) \in Nat
    BY <1>2, FS_CardinalityType
  <1> QED BY <1>1, <1>2, <1>3

\* The rank of a number in a set.
Rank(S, i) == Cardinality({j \in S : j <= i})

\* The members of a finite set of numbers, counted in order.
LEMMA Counted ==
  ASSUME NEW S \in SUBSET Int, IsFiniteSet(S)
  PROVE  /\ Cardinality(S) \in Nat
         /\ \A k \in 1..Cardinality(S) : \E i \in S : Rank(S, i) = k
         /\ \A i \in S : Rank(S, i) \in 1..Cardinality(S)
         /\ \A i, j \in S : Rank(S, i) = Rank(S, j) => i = j
  <1> DEFINE f == [i \in S |-> Rank(S, i)]
  <1>1. IsFiniteSet(S) /\ Cardinality(S) \in Nat
    BY FS_CardinalityType
  <1>2. ASSUME NEW i \in S
        PROVE  Rank(S, i) \in 1..Cardinality(S) /\ IsFiniteSet({j \in S : j <= i})
    <2>1. PICK U \in SUBSET S : U = {j \in S : j <= i} /\ Rank(S, i) = Cardinality(U)
      BY DEF Rank
    <2>2. IsFiniteSet(U) /\ Cardinality(U) <= Cardinality(S)
      BY <1>1, FS_Subset
    <2>3. i \in U /\ Cardinality(U) \in Nat
      BY <2>1, <2>2, FS_CardinalityType
    <2>4. Cardinality(U) # 0
      BY <2>2, <2>3, FS_EmptySet
    <2> QED BY <1>1, <2>1, <2>2, <2>3, <2>4
  <1>3. ASSUME NEW i \in S, NEW j \in S, i < j PROVE Rank(S, i) # Rank(S, j)
    <2>1. PICK U, V : /\ U = {l \in S : l <= i} /\ V = {l \in S : l <= j}
                       /\ Rank(S, i) = Cardinality(U) /\ Rank(S, j) = Cardinality(V)
      BY DEF Rank
    <2>2. U \in SUBSET V /\ j \in V /\ j \notin U
      <3>1. \A l \in S : l \in Int
        OBVIOUS
      <3>2. ~ (j <= i) /\ j <= j /\ \A l \in S : l <= i => l <= j
        BY <1>3, <3>1
      <3> QED BY <2>1, <3>2
    <2>i. IsFiniteSet(V)
      BY <1>2, <2>1
    <2>3. Cardinality(U) # Cardinality(V)
      BY <2>2, <2>i, FS_Subset
    <2> QED BY <2>1, <2>3
  <1>4. \A i, j \in S : Rank(S, i) = Rank(S, j) => i = j
    <2>1. \A i, j \in S : i \in Int /\ j \in Int /\ (i < j \/ j < i \/ i = j)
      OBVIOUS
    <2> QED BY <1>3, <2>1
  <1>5. f \in Surjection(S, 1..Cardinality(S))
    <2>1. f \in Injection(S, 1..Cardinality(S))
      <3> QED BY <1>2, <1>4 DEF Injection, IsInjective
    <2>2. PICK c \in Nat : c = Cardinality(S)
      BY <1>1
    <2>3. IsFiniteSet(1..c) /\ Cardinality(1..c) = c
      <3>1. IsFiniteSet(1..c) /\ Cardinality(1..c) = IF 1 > c THEN 0 ELSE c - 1 + 1
        BY FS_Interval
      <3> QED BY <3>1
    <2> HIDE DEF f
    <2> QED BY <2>1, <2>2, <2>3, FS_Injection
  <1>6. ASSUME NEW k \in 1..Cardinality(S) PROVE \E i \in S : Rank(S, i) = k
    <2>1. PICK i \in S : f[i] = k
      <3> HIDE DEF f
      <3> QED BY <1>5 DEF Surjection
    <2> QED BY <2>1
  <1> QED BY <1>1, <1>2, <1>4, <1>6

\* The indices of the answers that have an outcome.
Having(answers) == {i \in 1..Len(answers) : answers[i].verified # "none"}

\* A selection of the members at these indices, each once and all of them.
Selects(e, m, answers) ==
  /\ e \in [1..m -> Having(answers)]
  /\ \A i \in Having(answers) : \E k \in 1..m : e[k] = i
  /\ \A k, l \in 1..m : e[k] = e[l] => k = l
  /\ \A s : Kept(s, answers) = [k \in 1..m |-> s[e[k]]]

LEMMA KeptRight ==
  ASSUME NEW answers, Len(answers) \in Nat
  PROVE  \E m \in Nat : \E e : Selects(e, m, answers)
  <1>1. PICK n \in Nat : n = Len(answers)
    OBVIOUS
  <1>2. PICK kept \in SUBSET (1..n) : kept = Having(answers)
    BY <1>1 DEF Having
  <1>3. kept \in SUBSET Int /\ IsFiniteSet(kept)
    BY <1>2, PartOfInterval
  <1>4. PICK m \in Nat : m = Cardinality(kept)
    BY <1>3, Counted
  <1> DEFINE e == [k \in 1..m |-> CHOOSE i \in kept : Rank(kept, i) = k]
  <1>5. /\ \A k \in 1..m : \E i \in kept : Rank(kept, i) = k
        /\ \A i \in kept : Rank(kept, i) \in 1..m
        /\ \A i, j \in kept : Rank(kept, i) = Rank(kept, j) => i = j
    BY <1>3, <1>4, Counted
  <1>6. \A s : Kept(s, answers) = [k \in 1..m |-> s[e[k]]]
    BY <1>2, <1>4 DEF Kept, AtIndices, Having, Rank
  <1>7. \A k \in 1..m : e[k] \in kept /\ Rank(kept, e[k]) = k
    BY <1>5
  <1>8. e \in [1..m -> kept]
    BY <1>7
  <1> HIDE DEF e
  <1>9. \A i \in kept : \E k \in 1..m : e[k] = i
    BY <1>5, <1>7
  <1>10. \A k, l \in 1..m : e[k] = e[l] => k = l
    BY <1>7
  <1>11. Selects(e, m, answers)
    BY <1>2, <1>6, <1>8, <1>9, <1>10 DEF Selects
  <1> QED BY <1>11

\* What is taken out by index is what is not kept.
LEMMA WithoutKept ==
  ASSUME NEW answers, NEW n, n = Len(answers), NEW s, Len(s) = n,
         NEW removed, removed = {i \in 1..n : answers[i].verified = "none"}
  PROVE  Without(s, removed) = Kept(s, answers)
  <1>1. (1..n) \ removed = {i \in 1..n : answers[i].verified # "none"}
    OBVIOUS
  <1>2. Without(s, removed) = AtIndices(s, (1..n) \ removed)
    BY DEF Without
  <1>3. Kept(s, answers) = AtIndices(s, {i \in 1..n : answers[i].verified # "none"})
    BY DEF Kept
  <1> QED BY <1>1, <1>2, <1>3

\* Sequences as functions.
LEMMA SeqMembers ==
  ASSUME NEW S, NEW s \in Seq(S), NEW n, n = Len(s)
  PROVE  /\ n \in Nat /\ DOMAIN s = 1..n /\ \A i \in 1..n : s[i] \in S
         /\ \A x : x \in ToSet(s) <=> \E i \in 1..n : s[i] = x
  <1>1. n \in Nat /\ DOMAIN s = 1..n /\ \A i \in 1..n : s[i] \in S
    OBVIOUS
  <1> QED BY <1>1 DEF ToSet

LEMMA FunctionSeq ==
  ASSUME NEW S, NEW m \in Nat, NEW s \in [1..m -> S]
  PROVE  s \in Seq(S) /\ Len(s) = m
  OBVIOUS

LEMMA RoundParts ==
  ASSUME NEW r \in Round
  PROVE  /\ r.kind \in Kinds /\ r.uids \in Seq(Miner)
         /\ r.answers \in Seq(Answers("challenge")) /\ r.rewards \in Seq({-1, 0, 1})
         /\ r.units \in Seq([time : Nat, size : Sizes]) /\ r.sizes \in Seq(Sizes)
  BY DEF Round

\* The time of an answer, and the place that it has among the others.
LEMMA TimesRight ==
  ASSUME NEW answers \in Seq(Answers("challenge")), NEW i \in 1..Len(answers)
  PROVE  /\ Len(answers) \in Nat /\ Time(answers, i) \in Nat \ {0}
         /\ Place(answers, i) \in 1..Len(answers)
         /\ answers[i].size \in Sizes
  <1>1. Len(answers) \in Nat /\ \A j \in 1..Len(answers) : answers[j] \in Answers("challenge")
    OBVIOUS
  <1>2. PICK n \in Nat : n = Len(answers)
    BY <1>1
  <1>3. \A j \in 1..n : answers[j].time \in Nat /\ answers[j].time <= MaxTime
                        /\ answers[j].size \in Sizes
    BY <1>1, <1>2, RewardsAssumption DEF Answers
  <1>4. Time(answers, i) \in Nat \ {0}
    <2>1. PICK known : known = {answers[j].time : j \in 1..n} \ {0}
      OBVIOUS
    <2>2. known \in SUBSET Int /\ (\A t \in known : t \in Nat \ {0} /\ t <= MaxTime) /\ MaxTime \in Int
      BY <1>3, <2>1, RewardsAssumption
    <2>3. known # {} => Max(known) \in known
      BY <2>2, MaxInteger
    <2>4. Time(answers, i) = IF answers[i].time > 0 THEN answers[i].time
                             ELSE IF known = {} THEN 1 ELSE Max(known)
      BY <1>2, <2>1 DEF Time
    <2>5. answers[i].time \in Nat
      BY <1>2, <1>3
    <2>6. CASE answers[i].time > 0
      BY <2>4, <2>5, <2>6
    <2>7. CASE ~ (answers[i].time > 0) /\ known = {}
      BY <2>4, <2>7
    <2>8. CASE ~ (answers[i].time > 0) /\ known # {}
      BY <2>2, <2>3, <2>4, <2>8
    <2> QED BY <2>6, <2>7, <2>8
  <1>5. Place(answers, i) \in 1..n
    <2>1. PICK U \in SUBSET (1..n) :
            U = {j \in 1..n : \/ Time(answers, j) < Time(answers, i)
                              \/ Time(answers, j) = Time(answers, i) /\ j <= i}
      OBVIOUS
    <2>2. i \in U
      BY <1>2, <2>1
    <2>3. IsFiniteSet(U) /\ Cardinality(U) \in Nat /\ Cardinality(U) <= n
      BY PartOfInterval
    <2>4. Cardinality(U) # 0
      BY <2>2, <2>3, FS_EmptySet
    <2>5. Place(answers, i) = Cardinality(U)
      BY <1>2, <2>1 DEF Place
    <2> QED BY <2>3, <2>4, <2>5
  <1> QED BY <1>1, <1>2, <1>3, <1>4, <1>5

\* The answers that are not slower than another one, but for ties.
Before(answers, i) ==
  {j \in 1..Len(answers) : \/ Time(answers, j) < Time(answers, i)
                           \/ Time(answers, j) = Time(answers, i) /\ j <= i}

\* Each place is that of one answer.
LEMMA PlacesRight ==
  ASSUME NEW answers \in Seq(Answers("challenge")), NEW n \in Nat, n = Len(answers)
  PROVE  /\ \A i, j \in 1..n : Place(answers, i) = Place(answers, j) => i = j
         /\ \A k \in 1..n : \E i \in 1..n : Place(answers, i) = k
  <1> DEFINE f == [i \in 1..n |-> Place(answers, i)]
  <1>1. \A i \in 1..n : /\ Time(answers, i) \in Nat /\ Place(answers, i) \in 1..n
                        /\ Place(answers, i) = Cardinality(Before(answers, i))
    BY TimesRight DEF Place, Before
  <1>2. ASSUME NEW i \in 1..n, NEW j \in 1..n,
               Time(answers, i) < Time(answers, j)
                 \/ (Time(answers, i) = Time(answers, j) /\ i < j)
        PROVE  Place(answers, i) # Place(answers, j)
    <2>1. PICK U \in SUBSET (1..n), V \in SUBSET (1..n) :
            U = Before(answers, i) /\ V = Before(answers, j)
      BY DEF Before
    <2>t. PICK ti \in Nat, tj \in Nat :
            /\ ti = Time(answers, i) /\ tj = Time(answers, j)
            /\ ti < tj \/ (ti = tj /\ i < j)
      BY <1>1, <1>2
    <2>2. U \in SUBSET V
      <3> SUFFICES ASSUME NEW l \in 1..n, l \in U PROVE l \in V
        OBVIOUS
      <3>1. \/ Time(answers, l) < Time(answers, i)
            \/ Time(answers, l) = Time(answers, i) /\ l <= i
        BY <2>1 DEF Before
      <3>2. \/ Time(answers, l) < Time(answers, j)
            \/ Time(answers, l) = Time(answers, j) /\ l <= j
        <4>1. PICK tl \in Nat : tl = Time(answers, l)
          BY <1>1
        <4>2. i \in Nat /\ j \in Nat /\ l \in Nat
          OBVIOUS
        <4>3. tl < ti \/ (tl = ti /\ l <= i)
          BY <2>t, <3>1, <4>1
        <4>4. tl < tj \/ (tl = tj /\ l <= j)
          BY <2>t, <4>2, <4>3
        <4> QED BY <2>t, <4>1, <4>4
      <3> QED BY <2>1, <3>2 DEF Before
    <2>3. j \in V /\ j \notin U
      <3>1. /\ ~ (Time(answers, j) < Time(answers, i))
            /\ ~ (Time(answers, j) = Time(answers, i) /\ j <= i)
            /\ j <= j
        <4>1. i \in Nat /\ j \in Nat
          OBVIOUS
        <4>2. ~ (tj < ti) /\ ~ (tj = ti /\ j <= i) /\ j <= j
          BY <2>t, <4>1
        <4> QED BY <2>t, <4>2
      <3> QED BY <2>1, <3>1 DEF Before
    <2>4. IsFiniteSet(V)
      BY PartOfInterval
    <2>5. Cardinality(U) # Cardinality(V)
      BY <2>2, <2>3, <2>4, FS_Subset
    <2> QED BY <1>1, <2>1, <2>5
  <1>3. \A i, j \in 1..n : Place(answers, i) = Place(answers, j) => i = j
    <2>1. \A i, j \in 1..n :
            \/ Time(answers, i) < Time(answers, j) \/ Time(answers, j) < Time(answers, i)
            \/ Time(answers, i) = Time(answers, j) /\ (i < j \/ j < i \/ i = j)
      BY <1>1
    <2> QED BY <1>2, <2>1
  <1>4. f \in Injection(1..n, 1..n)
    BY <1>1, <1>3 DEF Injection, IsInjective
  <1>5. f \in Surjection(1..n, 1..n)
    <2> HIDE DEF f
    <2>1. IsFiniteSet(1..n)
      BY PartOfInterval
    <2> QED BY <1>4, <2>1, FS_Injection
  <1>6. ASSUME NEW k \in 1..n PROVE \E i \in 1..n : Place(answers, i) = k
    <2>1. PICK i \in 1..n : f[i] = k
      <3> HIDE DEF f
      <3> QED BY <1>5 DEF Surjection
    <2> QED BY <2>1
  <1> QED BY <1>3, <1>6

Distinct(uids, n) == \A i, j \in 1..n : uids[i] = uids[j] => i = j

UnitsOf(units, answers, n) ==
  /\ units \in [1..n -> [time : Nat, size : Sizes]]
  /\ \A i \in 1..n : units[i].time = Time(answers, i)

\* The dictionary of sorted times gives each miner its own time.
LEMMA UnitsRight ==
  ASSUME NEW n \in Nat,
         NEW uids \in Seq(Miner), n = Len(uids), Distinct(uids, n),
         NEW answers \in Seq(Answers("challenge")), n = Len(answers),
         NEW sizes \in Seq(Sizes), n = Len(sizes)
  PROVE  UnitsOf(UnitTimes(uids, answers, sizes), answers, n)
  <1>1. /\ \A i, j \in 1..n : Place(answers, i) = Place(answers, j) => i = j
        /\ \A k \in 1..n : \E i \in 1..n : Place(answers, i) = k
        /\ \A i \in 1..n : Place(answers, i) \in 1..n /\ Time(answers, i) \in Nat
    BY PlacesRight, TimesRight
  <1>2. PICK at : at = [k \in 1..n |-> CHOOSE i \in 1..n : Place(answers, i) = k]
    OBVIOUS
  <1>3. \A k \in 1..n : at[k] \in 1..n /\ Place(answers, at[k]) = k
    BY <1>1, <1>2
  <1>4. PICK sorted : sorted = SortedTimes(uids, answers)
    OBVIOUS
  <1>5. sorted = [k \in 1..n |-> [uid |-> uids[at[k]], time |-> Time(answers, at[k])]]
    BY <1>2, <1>4 DEF SortedTimes
  <1>6. Len(sorted) = n
    BY <1>5
  <1>7. ASSUME NEW i \in 1..n
        PROVE  \E k \in 1..n : /\ (CHOOSE l \in 1..n : sorted[l].uid = uids[i]) = k
                               /\ sorted[k].time = Time(answers, i)
    <2>1. PICK k \in 1..n : k = Place(answers, i)
      BY <1>1
    <2>2. at[k] = i
      BY <1>1, <1>3, <2>1
    <2>3. \A l \in 1..n : sorted[l].uid = uids[i] <=> l = k
      <3>1. \A l \in 1..n : sorted[l].uid = uids[at[l]]
        BY <1>5
      <3>2. \A l \in 1..n : uids[at[l]] = uids[i] => at[l] = i
        BY <1>3 DEF Distinct
      <3>3. \A l \in 1..n : at[l] = i => l = k
        BY <1>3, <2>1
      <3> QED BY <2>2, <3>1, <3>2, <3>3
    <2>4. (CHOOSE l \in 1..n : sorted[l].uid = uids[i]) = k
      BY <2>3
    <2> QED BY <1>5, <2>2, <2>4
  <1>8. \A i \in 1..n : uids[i] \in ToSet(uids) /\ sizes[i] \in Sizes
    BY SeqMembers
  <1>9. PICK units : units = UnitTimes(uids, answers, sizes)
    OBVIOUS
  <1>10. ASSUME NEW i \in 1..n
         PROVE  units[i].time = Time(answers, i) /\ units[i] \in [time : Nat, size : Sizes]
    <2>1. PICK k \in 1..n : /\ (CHOOSE l \in 1..n : sorted[l].uid = uids[i]) = k
                           /\ sorted[k].time = Time(answers, i)
      BY <1>7
    <2>2. units[i] = [time |-> sorted[k].time, size |-> sizes[k]]
      BY <1>4, <1>6, <1>8, <1>9, <2>1 DEF UnitTimes, UidToNormalizedTime
    <2> QED BY <1>1, <1>8, <2>1, <2>2
  <1>11. units = [i \in 1..n |-> units[i]]
    <2>1. PICK g : g = UidToNormalizedTime(uids, SortedTimes(uids, answers), sizes)
      OBVIOUS
    <2>2. units = [i \in 1..Len(uids) |-> g[uids[i]]]
      BY <1>9, <2>1 DEF UnitTimes
    <2>3. PICK h : h = [i \in 1..n |-> g[uids[i]]]
      OBVIOUS
    <2>4. units = h
      BY <2>2, <2>3
    <2> QED BY <2>3, <2>4
  <1>12. UnitsOf(units, answers, n)
    BY <1>10, <1>11 DEF UnitsOf
  <1> QED BY <1>9, <1>12

-----------------------------------------------------------------------------
(* The steps of a round                                                    *)

\* uids, their answers, their sizes and their rewards belong together.
Together(r, asked) ==
  /\ Len(r.uids) = Len(r.answers) /\ Len(r.uids) = Len(r.sizes)
  /\ Len(r.uids) = Len(r.rewards)
  /\ \A i, j \in 1..Len(r.uids) : r.uids[i] = r.uids[j] => i = j
  /\ \A i \in 1..Len(r.uids) : /\ r.rewards[i] = Reward(r.kind, r.answers[i])
                               /\ r.sizes[i] = r.answers[i].size
                               /\ asked[r.uids[i]] = r.answers[i]
  /\ \A u \in Miner : (\A i \in 1..Len(r.uids) : r.uids[i] # u)
                        => asked[u].verified \in {"unasked", "none"}

\* Who may be asked, and what for.
AskedOf == [Miner -> Answers("challenge") \cup {NotAsked}]

InStep(r) ==
  /\ Len(r.uids) = Len(r.answers) /\ Len(r.uids) = Len(r.sizes)
  /\ Len(r.uids) = Len(r.rewards)

RewInv ==
  /\ RewTypeOK
  /\ rew.pc \in {"answers", "apply"} => Together(rew.round, rew.asked)
  /\ rew.pc = "apply" => /\ \A i \in 1..Len(rew.round.answers) :
                              rew.round.answers[i].verified # "none"
                         /\ LET r == rew.round
                            IN  r.units = UnitTimes(r.uids, r.answers, r.sizes)
  /\ rew.pc = "set" => rew.weights = RawWeights(rew.scores)

LEMMA AnswersKind ==
  ASSUME NEW kind \in Kinds
  PROVE  Answers(kind) \subseteq Answers("challenge")
  BY DEF Answers

LEMMA RewardKinds ==
  ASSUME NEW kind, NEW answer
  PROVE  Reward(kind, answer) \in {-1, 0, 1}
  BY DEF Reward

\* A round that is begun, with what each miner is asked for.
LEMMA BegunRound ==
  ASSUME NEW kind \in Kinds, NEW uids \in Rounds,
         NEW answers \in [1..Len(uids) -> Answers(kind)],
         NEW r, NEW asked, r = Begun(kind, uids, answers), asked = AnswerOf(uids, answers)
  PROVE  /\ r \in Round /\ asked \in AskedOf
         /\ Together(r, asked)
  <1>1. uids \in Seq(Miner) /\ \A i, j \in 1..Len(uids) : uids[i] = uids[j] => i = j
    <2>1. uids \in Seq(Miner) /\ IsInjective(uids)
      BY RewardsAssumption
    <2>2. DOMAIN uids = 1..Len(uids)
      BY <2>1
    <2> QED BY <2>1, <2>2 DEF IsInjective
  <1>2. PICK n \in Nat : n = Len(uids)
    BY <1>1
  <1>3. answers \in Seq(Answers("challenge")) /\ Len(answers) = n
    <2>1. answers \in [1..n -> Answers("challenge")]
      BY <1>2, AnswersKind
    <2> QED BY <2>1
  <1>4. PICK rewards : rewards = [i \in 1..n |-> Reward(kind, answers[i])]
    OBVIOUS
  <1>5. rewards \in Seq({-1, 0, 1}) /\ Len(rewards) = n
    <2>1. rewards \in [1..n -> {-1, 0, 1}]
      BY <1>4, RewardKinds
    <2> QED BY <1>4, <2>1
  <1>6. <<>> \in Seq([time : Nat, size : Sizes])
    OBVIOUS
  <1>a. PICK sizes : sizes = [i \in 1..n |-> answers[i].size]
    OBVIOUS
  <1>b. sizes \in Seq(Sizes) /\ Len(sizes) = n
    <2>1. \A i \in 1..n : answers[i].size \in Sizes
      BY <1>3, TimesRight
    <2>2. sizes \in [1..n -> Sizes]
      BY <1>a, <2>1
    <2> QED BY <2>2, FunctionSeq
  <1>7. r = [kind |-> kind, uids |-> uids, answers |-> answers, sizes |-> sizes,
             rewards |-> rewards, units |-> <<>>]
    BY <1>2, <1>4, <1>a DEF Begun
  <1>8. r \in Round
    BY <1>1, <1>3, <1>5, <1>6, <1>7, <1>b DEF Round
  <1>9. \A i \in 1..n : (CHOOSE j \in 1..Len(uids) : uids[j] = uids[i]) = i
    BY <1>1, <1>2
  <1>10. \A u : u \in ToSet(uids) <=> \E i \in 1..n : uids[i] = u
    BY <1>1, <1>2, SeqMembers
  <1>c. asked = [u \in Miner |-> IF u \in ToSet(uids)
                                   THEN answers[CHOOSE i \in 1..Len(uids) : uids[i] = u]
                                   ELSE NotAsked]
    BY Zenon DEF AnswerOf
  <1>11. \A i \in 1..n : asked[uids[i]] = answers[i]
    <2> SUFFICES ASSUME NEW i \in 1..n PROVE asked[uids[i]] = answers[i]
      OBVIOUS
    <2>1. uids[i] \in Miner /\ uids[i] \in ToSet(uids)
      BY <1>1, <1>2, <1>10
    <2>2. asked[uids[i]] = answers[CHOOSE j \in 1..Len(uids) : uids[j] = uids[i]]
      BY Zenon, <1>c, <2>1
    <2> QED BY <1>9, <2>2
  <1>12. \A u \in Miner : (\A i \in 1..n : uids[i] # u) => asked[u] = NotAsked
    BY <1>10, <1>c
  <1>13. \A i \in 1..n : answers[i] \in Answers("challenge")
    BY <1>2, <1>3, SeqMembers
  <1>14. asked \in AskedOf
    <2>1. \A u \in Miner : asked[u] \in Answers("challenge") \cup {NotAsked}
      BY <1>11, <1>12, <1>13
    <2>2. asked = [u \in Miner |-> asked[u]]
      BY <1>c
    <2> QED BY <2>1, <2>2 DEF AskedOf
  <1>15. Together(r, asked)
    <2>1. /\ r.kind = kind /\ r.uids = uids /\ r.answers = answers /\ r.rewards = rewards
          /\ r.sizes = sizes
          /\ Len(uids) = n /\ Len(answers) = n /\ Len(rewards) = n /\ Len(sizes) = n
      BY <1>2, <1>3, <1>5, <1>7, <1>b
    <2>2. \A i \in 1..n : rewards[i] = Reward(kind, answers[i]) /\ sizes[i] = answers[i].size
      BY <1>4, <1>a
    <2>3. NotAsked.verified = "unasked"
      BY DEF NotAsked
    <2> QED BY <1>1, <1>11, <1>12, <2>1, <2>2, <2>3 DEF Together
  <1> QED BY <1>8, <1>14, <1>15

\* A round from which the miners without data are taken out.
LEMMA FilteredRound ==
  ASSUME NEW r \in Round, NEW asked, Together(r, asked), NEW f,
         NEW ku, ku = Kept(r.uids, r.answers), NEW ka, ka = Kept(r.answers, r.answers),
         NEW ks, ks = Kept(r.sizes, r.answers), NEW kr, kr = Kept(r.rewards, r.answers),
         f = [r EXCEPT !.uids = ku, !.answers = ka, !.sizes = ks, !.rewards = kr,
                       !.units = UnitTimes(ku, ka, ks)]
  PROVE  /\ f \in Round /\ Together(f, asked)
         /\ \A i \in 1..Len(f.answers) : f.answers[i].verified # "none"
         /\ f.units = UnitTimes(f.uids, f.answers, f.sizes)
  <1>1. PICK n \in Nat : /\ n = Len(r.uids) /\ n = Len(r.answers) /\ n = Len(r.rewards)
                         /\ n = Len(r.sizes)
    BY DEF Round, Together
  <1>2. PICK kept \in SUBSET (1..n) : kept = Having(r.answers)
    BY <1>1 DEF Having
  <1>3. PICK m \in Nat : \E e : Selects(e, m, r.answers)
    BY <1>1, KeptRight
  <1>4. PICK e \in [1..m -> kept] :
          /\ \A i \in kept : \E k \in 1..m : e[k] = i
          /\ \A k, l \in 1..m : e[k] = e[l] => k = l
          /\ \A s : Kept(s, r.answers) = [k \in 1..m |-> s[e[k]]]
    BY <1>2, <1>3 DEF Selects
  <1>5. \A k \in 1..m : e[k] \in 1..n /\ r.answers[e[k]].verified # "none"
    BY <1>2, <1>4 DEF Having
  <1>6. /\ \A i \in 1..n : r.uids[i] \in Miner
        /\ \A i \in 1..n : r.answers[i] \in Answers("challenge")
        /\ \A i \in 1..n : r.rewards[i] \in {-1, 0, 1}
        /\ \A i \in 1..n : r.sizes[i] \in Sizes
    BY <1>1, RoundParts, SeqMembers
  <1>7. PICK uids, answers, sizes, rewards :
          /\ uids = [k \in 1..m |-> r.uids[e[k]]]
          /\ answers = [k \in 1..m |-> r.answers[e[k]]]
          /\ sizes = [k \in 1..m |-> r.sizes[e[k]]]
          /\ rewards = [k \in 1..m |-> r.rewards[e[k]]]
    OBVIOUS
  <1>8. /\ uids \in Seq(Miner) /\ Len(uids) = m
        /\ answers \in Seq(Answers("challenge")) /\ Len(answers) = m
        /\ rewards \in Seq({-1, 0, 1}) /\ Len(rewards) = m
        /\ sizes \in Seq(Sizes) /\ Len(sizes) = m
    <2>1. /\ uids \in [1..m -> Miner] /\ answers \in [1..m -> Answers("challenge")]
          /\ rewards \in [1..m -> {-1, 0, 1}] /\ sizes \in [1..m -> Sizes]
      BY <1>5, <1>6, <1>7
    <2> QED BY <2>1, FunctionSeq
  <1>9. \A k, l \in 1..m : uids[k] = uids[l] => k = l
    BY <1>1, <1>4, <1>5, <1>7 DEF Together
  <1>10. Distinct(uids, m)
    BY <1>9 DEF Distinct
  <1>11. PICK units : units = UnitTimes(uids, answers, sizes)
    OBVIOUS
  <1>12. units \in Seq([time : Nat, size : Sizes])
    <2>1. UnitsOf(units, answers, m)
      BY <1>8, <1>10, <1>11, UnitsRight
    <2>2. units \in [1..m -> [time : Nat, size : Sizes]]
      BY <2>1 DEF UnitsOf
    <2> QED BY <2>2, FunctionSeq
  <1>13. /\ f.kind = r.kind /\ f.uids = uids /\ f.answers = answers /\ f.sizes = sizes
         /\ f.rewards = rewards /\ f.units = units
    <2>1. ku = uids /\ ka = answers /\ ks = sizes /\ kr = rewards
      BY <1>4, <1>7
    <2> QED BY <1>11, <2>1 DEF Round
  <1>14. f \in Round
    <2>1. f = [kind |-> r.kind, uids |-> uids, answers |-> answers, sizes |-> sizes,
               rewards |-> rewards, units |-> units]
      BY <1>13 DEF Round
    <2>2. r.kind \in Kinds
      BY DEF Round
    <2> QED BY <1>8, <1>12, <2>1, <2>2 DEF Round
  <1>15. \A k \in 1..m : /\ rewards[k] = Reward(r.kind, answers[k])
                         /\ sizes[k] = answers[k].size
                         /\ asked[uids[k]] = answers[k]
                         /\ answers[k].verified # "none"
    BY <1>1, <1>5, <1>7 DEF Together
  <1>16. ASSUME NEW u \in Miner, \A k \in 1..m : uids[k] # u
         PROVE  asked[u].verified \in {"unasked", "none"}
    <2>1. CASE \A i \in 1..n : r.uids[i] # u
      BY <1>1, <2>1 DEF Together
    <2>2. CASE \E i \in 1..n : r.uids[i] = u
      <3>1. PICK i \in 1..n : r.uids[i] = u
        BY <2>2
      <3>2. i \notin kept
        BY <1>4, <1>7, <1>16, <3>1
      <3>3. r.answers[i].verified = "none"
        BY <1>1, <1>2, <3>2 DEF Having
      <3> QED BY <1>1, <3>1, <3>3 DEF Together
    <2> QED BY <2>1, <2>2
  <1>17. Together(f, asked)
    BY <1>8, <1>9, <1>13, <1>15, <1>16 DEF Together
  <1> QED BY <1>8, <1>11, <1>13, <1>14, <1>15, <1>17

LEMMA RewState ==
  ASSUME RewInv
  PROVE  /\ rew \in [pc : {"idle", "answers", "apply", "set"}, scores : [Miner -> Scores],
                     weights : [Miner -> 0..2 * MaxScore], round : Round,
                     asked : AskedOf]
         /\ InStep(rew.round)
  BY DEF RewInv, RewTypeOK, AskedOf, InStep

\* A state is right when its parts are.
LEMMA RewStep ==
  ASSUME NEW pc \in {"idle", "answers", "apply", "set"}, NEW scores \in [Miner -> Scores],
         NEW weights \in [Miner -> 0..2 * MaxScore], NEW round \in Round,
         NEW asked \in AskedOf,
         rew' = [pc |-> pc, scores |-> scores, weights |-> weights, round |-> round,
                 asked |-> asked],
         InStep(round),
         pc \in {"answers", "apply"} => Together(round, asked),
         pc = "apply" => /\ \A i \in 1..Len(round.answers) : round.answers[i].verified # "none"
                         /\ round.units = UnitTimes(round.uids, round.answers, round.sizes),
         pc = "set" => weights = RawWeights(scores)
  PROVE  RewInv'
  <1>1. /\ rew'.pc = pc /\ rew'.scores = scores /\ rew'.weights = weights
        /\ rew'.round = round /\ rew'.asked = asked
    OBVIOUS
  <1>2. RewTypeOK'
    BY <1>1 DEF RewTypeOK, AskedOf, InStep
  <1> QED BY <1>1, <1>2 DEF RewInv

LEMMA NothingYet ==
  /\ NoRound \in Round /\ NoScores \in [Miner -> Scores]
  /\ NoScores \in [Miner -> 0..2 * MaxScore]
  /\ Unasked \in AskedOf
  /\ InStep(NoRound)
  <1>1. NoRound \in Round
    <2>1. /\ <<>> \in Seq(Miner) /\ <<>> \in Seq(Answers("challenge"))
          /\ <<>> \in Seq({-1, 0, 1}) /\ <<>> \in Seq([time : Nat, size : Sizes])
          /\ <<>> \in Seq(Sizes)
      OBVIOUS
    <2> QED BY <2>1 DEF NoRound, Round, Kinds
  <1>2. MaxScore \in Nat
    BY RewardsAssumption
  <1>3. 0 \in Scores
    BY <1>2, ScoreKinds
  <1>4. 0 \in 0..2 * MaxScore
    BY <1>2
  <1>5. InStep(NoRound)
    <2>1. /\ NoRound.uids = NoRound.answers /\ NoRound.uids = NoRound.rewards
          /\ NoRound.uids = NoRound.sizes
      BY DEF NoRound
    <2> QED BY <2>1 DEF InStep
  <1>6. Unasked \in AskedOf
    BY DEF Unasked, AskedOf
  <1> QED BY <1>1, <1>3, <1>4, <1>5, <1>6 DEF NoScores

LEMMA RewInitInv == RewInit => RewInv
  <1> SUFFICES ASSUME RewInit PROVE RewInv
    OBVIOUS
  <1>1. /\ rew.pc = "idle" /\ rew.scores = NoScores /\ rew.weights = NoScores
        /\ rew.round = NoRound /\ rew.asked = Unasked
    BY DEF RewInit
  <1>2. RewTypeOK
    BY <1>1, NothingYet DEF RewTypeOK, RewInit, AskedOf, InStep
  <1> QED BY <1>1, <1>2 DEF RewInv

LEMMA AnswerInv == RewInv /\ Answer => RewInv'
  <1> SUFFICES ASSUME RewInv, Answer PROVE RewInv'
    OBVIOUS
  <1>1. PICK kind \in Kinds, uids \in Rounds :
          \E answers \in [1..Len(uids) -> Answers(kind)] :
            rew' = [rew EXCEPT !.pc = "answers", !.weights = NoScores,
                               !.round = Begun(kind, uids, answers),
                               !.asked = AnswerOf(uids, answers)]
    BY Zenon DEF Answer
  <1>2. PICK answers \in [1..Len(uids) -> Answers(kind)] :
          rew' = [rew EXCEPT !.pc = "answers", !.weights = NoScores,
                             !.round = Begun(kind, uids, answers),
                             !.asked = AnswerOf(uids, answers)]
    BY <1>1
  <1>3. PICK r, asked : r = Begun(kind, uids, answers) /\ asked = AnswerOf(uids, answers)
    OBVIOUS
  <1>4. /\ r \in Round /\ asked \in AskedOf
        /\ Together(r, asked)
    BY <1>3, BegunRound
  <1>5. rew' = [rew EXCEPT !.pc = "answers", !.weights = NoScores, !.round = r, !.asked = asked]
    BY <1>2, <1>3
  <1>6. rew' = [pc |-> "answers", scores |-> rew.scores, weights |-> NoScores, round |-> r,
                asked |-> asked]
    BY <1>5, RewState
  <1>7. rew.scores \in [Miner -> Scores] /\ NoScores \in [Miner -> 0..2 * MaxScore]
    BY RewState, NothingYet
  <1>8. InStep(r)
    BY <1>4 DEF Together, InStep
  <1> QED BY <1>4, <1>6, <1>7, <1>8, RewStep

LEMMA FilterInv == RewInv /\ Filter => RewInv'
  <1> SUFFICES ASSUME RewInv, Filter PROVE RewInv'
    OBVIOUS
  <1>1. PICK r \in Round : r = rew.round
    BY RewState
  <1>2. rew.pc = "answers" /\ Together(r, rew.asked)
    BY <1>1 DEF Filter, RewInv
  <1>a. PICK ku, ka, ks, kr : /\ ku = Kept(r.uids, r.answers) /\ ka = Kept(r.answers, r.answers)
                              /\ ks = Kept(r.sizes, r.answers) /\ kr = Kept(r.rewards, r.answers)
    OBVIOUS
  <1>b. PICK removed : removed = {i \in 1..Len(r.answers) : r.answers[i].verified = "none"}
    OBVIOUS
  <1>c. Without(r.sizes, removed) = ks /\ Without(r.rewards, removed) = kr
    <2>1. PICK n : n = Len(r.answers) /\ n = Len(r.sizes) /\ n = Len(r.rewards)
      BY <1>1, RewState DEF InStep
    <2>2. removed = {i \in 1..n : r.answers[i].verified = "none"}
      BY <1>b, <2>1
    <2> QED BY <1>a, <2>1, <2>2, WithoutKept
  <1>3. PICK f : f = [r EXCEPT !.uids = ku, !.answers = ka, !.sizes = ks, !.rewards = kr,
                        !.units = UnitTimes(ku, ka, ks)]
    OBVIOUS
  <1>4. /\ f \in Round /\ Together(f, rew.asked)
        /\ \A i \in 1..Len(f.answers) : f.answers[i].verified # "none"
        /\ f.units = UnitTimes(f.uids, f.answers, f.sizes)
    BY <1>2, <1>3, <1>a, FilteredRound
  <1>5. rew' = [rew EXCEPT !.pc = "apply", !.round = f]
    <2>1. rew' = [rew EXCEPT !.pc = "apply",
                   !.round = [r EXCEPT !.uids = ku, !.answers = ka,
                                !.sizes = Without(r.sizes, removed),
                                !.rewards = Without(r.rewards, removed),
                                !.units = UnitTimes(ku, ka, Without(r.sizes, removed))]]
      BY <1>1, <1>a, <1>b DEF Filter
    <2> QED BY <1>3, <1>c, <2>1
  <1>6. rew' = [pc |-> "apply", scores |-> rew.scores, weights |-> rew.weights, round |-> f,
                asked |-> rew.asked]
    BY <1>5, RewState
  <1>7. /\ rew.scores \in [Miner -> Scores] /\ rew.weights \in [Miner -> 0..2 * MaxScore]
        /\ rew.asked \in AskedOf
    BY RewState
  <1>8. InStep(f)
    BY <1>4 DEF Together, InStep
  <1> QED BY <1>4, <1>6, <1>7, <1>8, RewStep

LEMMA RewNextInv == RewInv /\ [RewNext]_rew => RewInv'
  <1> SUFFICES ASSUME RewInv, [RewNext]_rew PROVE RewInv'
    OBVIOUS
  <1>s. /\ rew.scores \in [Miner -> Scores] /\ rew.weights \in [Miner -> 0..2 * MaxScore]
        /\ rew.round \in Round /\ rew.asked \in AskedOf
        /\ InStep(rew.round)
    BY RewState
  <1>1. CASE Answer
    BY <1>1, AnswerInv
  <1>2. CASE Filter
    BY <1>2, FilterInv
  <1>3. CASE Apply
    <2>1. PICK scores \in [Miner -> Scores] :
            rew' = [rew EXCEPT !.pc = "idle", !.scores = scores, !.round = NoRound,
                               !.asked = Unasked]
      BY <1>3 DEF Apply
    <2>2. rew' = [pc |-> "idle", scores |-> scores, weights |-> rew.weights, round |-> NoRound,
                  asked |-> Unasked]
      BY <2>1, RewState
    <2> QED BY <1>s, <2>2, NothingYet, RewStep
  <1>4. CASE SetWeights
    <2>1. PICK weights : weights = RawWeights(rew.scores)
      OBVIOUS
    <2>2. weights \in [Miner -> 0..2 * MaxScore]
      <3>1. \A u \in Miner : weights[u] \in 0..2 * MaxScore
        BY <1>s, <2>1, WeightsRight
      <3>2. weights = [u \in Miner |-> weights[u]]
        BY <2>1 DEF RawWeights
      <3> QED BY <3>1, <3>2
    <2>3. rew' = [pc |-> "set", scores |-> rew.scores, weights |-> weights,
                  round |-> rew.round, asked |-> rew.asked]
      BY <1>4, <2>1, RewState DEF SetWeights
    <2> QED BY <1>s, <2>1, <2>2, <2>3, RewStep
  <1>5. CASE WeightsSet
    <2>1. rew' = [pc |-> "idle", scores |-> rew.scores, weights |-> NoScores,
                  round |-> rew.round, asked |-> rew.asked]
      BY <1>5, RewState DEF WeightsSet
    <2> QED BY <1>s, <2>1, NothingYet, RewStep
  <1>6. CASE LoadScores
    <2>1. rew' = [pc |-> "idle", scores |-> NoScores, weights |-> rew.weights,
                  round |-> rew.round, asked |-> rew.asked]
      <3>1. rew.pc = "idle" /\ rew' = [rew EXCEPT !.scores = NoScores]
        BY <1>6 DEF LoadScores
      <3> QED BY <3>1, RewState
    <2> QED BY <1>s, <2>1, NothingYet, RewStep
  <1>7. CASE UNCHANGED rew
    BY <1>7 DEF RewInv, RewTypeOK
  <1> QED BY <1>1, <1>2, <1>3, <1>4, <1>5, <1>6, <1>7 DEF RewNext

LEMMA RewInvHolds == RewSpec => []RewInv
  BY RewInitInv, RewNextInv, PTL DEF RewSpec

\* The scores, the weights and the round that is applied keep their types.
THEOREM RewardTypes == RewSpec => []RewTypeOK
  <1>1. RewInv => RewTypeOK
    BY DEF RewInv
  <1> QED BY <1>1, RewInvHolds, PTL

\* Weights are never negative, are zero for negative and for lost scores, and keep the
\* order of all other scores, whatever the scores are.
THEOREM WeightsFollowScores == RewSpec => []WeightsFollow
  <1>1. RewInv => WeightsFollow
    <2> SUFFICES ASSUME RewInv, rew.pc = "set", NEW u \in Miner
                 PROVE  /\ rew.weights[u] >= 0
                        /\ rew.scores[u] = NaN \/ rew.scores[u] < 0 => rew.weights[u] = 0
                        /\ \A v \in {w \in Miner : rew.scores[w] # NaN} :
                             rew.scores[u] \in 0..rew.scores[v] - 1
                               => rew.weights[u] < rew.weights[v]
      BY DEF WeightsFollow
    <2>1. rew.weights = RawWeights(rew.scores)
      BY DEF RewInv
    <2>2. rew.weights[u] \in 0..2 * MaxScore /\ MaxScore \in Nat
      BY RewState, RewardsAssumption
    <2>3. rew.scores \in [Miner -> Scores]
      BY RewState
    <2>4. /\ rew.scores[u] = NaN \/ rew.scores[u] < 0 => rew.weights[u] = 0
          /\ \A v \in {w \in Miner : rew.scores[w] # NaN} :
               rew.scores[u] \in 0..rew.scores[v] - 1 => rew.weights[u] < rew.weights[v]
      BY <2>1, <2>3, WeightsRight
    <2> QED BY <2>2, <2>4
  <1> QED BY <1>1, RewInvHolds, PTL

\* The greatest of the known times is taken for a miner that did not answer.
LEMMA SlowestTime ==
  ASSUME NEW answers \in Seq(Answers("challenge")), NEW n \in Nat, n = Len(answers),
         NEW i \in 1..n, answers[i].time = 0, NEW j \in 1..n
  PROVE  Time(answers, j) <= Time(answers, i)
  <1>1. PICK known : known = {answers[k].time : k \in 1..n} \ {0}
    OBVIOUS
  <1>2. \A k \in 1..n : answers[k].time \in Nat /\ answers[k].time <= MaxTime
    <2>1. \A k \in 1..n : answers[k] \in Answers("challenge")
      BY SeqMembers
    <2> QED BY <2>1, RewardsAssumption DEF Answers
  <1>3. known # {} => Max(known) \in known /\ \A y \in known : y <= Max(known)
    <2>1. known \in SUBSET Int /\ (\A t \in known : t <= MaxTime) /\ MaxTime \in Int
      BY <1>1, <1>2, RewardsAssumption
    <2> QED BY <2>1, MaxInteger
  <1>4. \A k \in 1..n : Time(answers, k) = IF answers[k].time > 0 THEN answers[k].time
                                          ELSE IF known = {} THEN 1 ELSE Max(known)
    BY <1>1 DEF Time
  <1>5. Time(answers, i) = IF known = {} THEN 1 ELSE Max(known)
    BY <1>4
  <1>6. Time(answers, i) \in Nat
    BY TimesRight
  <1>7. CASE answers[j].time > 0
    <2>1. Time(answers, j) = answers[j].time
      BY <1>4, <1>7
    <2>2. answers[j].time \in {answers[k].time : k \in 1..n} /\ answers[j].time # 0
      BY <1>2, <1>7
    <2>3. answers[j].time \in known
      BY <1>1, <2>2
    <2> QED BY <1>3, <1>5, <2>1, <2>3
  <1>8. CASE ~ (answers[j].time > 0)
    <2>1. Time(answers, j) = Time(answers, i)
      BY <1>4, <1>5, <1>8
    <2> QED BY <1>6, <2>1
  <1> QED BY <1>7, <1>8

\* Rewards are scaled with the times of their own miners, whoever was taken out of the
\* round and however the times are sorted.
THEOREM TimesAreOwn == RewSpec => []OwnTime
  <1>1. RewInv => OwnTime
    <2> SUFFICES ASSUME RewInv, rew.pc = "apply", NEW r \in Round, r = rew.round,
                        NEW i \in 1..Len(r.uids),
                        NEW answer, answer = rew.asked[r.uids[i]]
                 PROVE  /\ r.sizes[i] = answer.size
                        /\ answer.time > 0 => r.units[i].time = answer.time
                        /\ answer.time = 0 =>
                             \A j \in 1..Len(r.uids) : r.units[j].time <= r.units[i].time
      BY RewState DEF OwnTime
    <2>1. Together(r, rew.asked) /\ r.units = UnitTimes(r.uids, r.answers, r.sizes)
      BY DEF RewInv
    <2>2. PICK n \in Nat : n = Len(r.uids) /\ n = Len(r.answers) /\ n = Len(r.sizes)
      BY <2>1, RoundParts DEF Together
    <2>3. r.sizes[i] = r.answers[i].size /\ answer = r.answers[i]
      BY <2>1 DEF Together
    <2>4. \A k, l \in 1..n : r.uids[k] = r.uids[l] => k = l
      BY <2>1, <2>2 DEF Together
    <2>5. PICK uids \in Seq(Miner), answers \in Seq(Answers("challenge")), sizes \in Seq(Sizes) :
            uids = r.uids /\ answers = r.answers /\ sizes = r.sizes
      BY RoundParts
    <2>6. \A k \in 1..n : r.units[k].time = Time(answers, k)
      <3>1. Distinct(uids, n)
        BY <2>4, <2>5 DEF Distinct
      <3>2. UnitsOf(UnitTimes(uids, answers, sizes), answers, n)
        BY <2>2, <2>5, <3>1, UnitsRight
      <3>3. r.units = UnitTimes(uids, answers, sizes)
        BY <2>1, <2>5
      <3> QED BY <3>2, <3>3 DEF UnitsOf
    <2>7. answer.time > 0 => r.units[i].time = answer.time
      BY <2>2, <2>3, <2>5, <2>6 DEF Time
    <2>8. ASSUME answer.time = 0, NEW j \in 1..n PROVE r.units[j].time <= r.units[i].time
      <3>1. n = Len(answers) /\ i \in 1..n
        BY <2>2, <2>5
      <3>2. answers[i].time = 0
        BY <2>3, <2>5, <2>8
      <3>3. Time(answers, j) <= Time(answers, i)
        BY <3>1, <3>2, SlowestTime
      <3>4. r.units[j].time = Time(answers, j) /\ r.units[i].time = Time(answers, i)
        BY <2>6, <3>1
      <3> QED BY <3>3, <3>4
    <2> QED BY <2>2, <2>3, <2>7, <2>8
  <1> QED BY <1>1, RewInvHolds, PTL

\* Somebody earned something when a reward is not zero.
LEMMA EarnedSomething ==
  ASSUME NEW r \in Round, NEW asked, Together(r, asked),
         \A i \in 1..Len(r.answers) : r.answers[i].verified # "none"
  PROVE  (\E u \in Miner : asked[u].verified = "yes" \/ (asked[u].verified = "no" /\ r.kind = "retrieve"))
           <=> (\E i \in 1..Len(r.rewards) : r.rewards[i] # 0)
  <1>1. PICK n \in Nat : n = Len(r.uids) /\ n = Len(r.answers) /\ n = Len(r.rewards)
    BY DEF Round, Together
  <1>2. \A i \in 1..n : /\ r.uids[i] \in Miner /\ asked[r.uids[i]] = r.answers[i]
                        /\ r.answers[i].verified \in {"yes", "no"}
                        /\ r.rewards[i] = Reward(r.kind, r.answers[i])
    <2>1. \A i \in 1..n : r.uids[i] \in Miner /\ r.answers[i] \in Answers("challenge")
      BY <1>1, RoundParts, SeqMembers
    <2>2. \A i \in 1..n : r.answers[i].verified \in {"yes", "no", "none"}
      BY <2>1 DEF Answers
    <2> QED BY <1>1, <2>1, <2>2 DEF Together
  <1>3. \A i \in 1..n : r.rewards[i] # 0 <=> \/ r.answers[i].verified = "yes"
                                             \/ r.answers[i].verified = "no" /\ r.kind = "retrieve"
    BY <1>2 DEF Reward
  <1>4. ASSUME NEW u \in Miner, asked[u].verified = "yes" \/ (asked[u].verified = "no" /\ r.kind = "retrieve")
        PROVE  \E i \in 1..n : r.rewards[i] # 0
    <2>1. PICK i \in 1..n : r.uids[i] = u
      BY <1>1, <1>4 DEF Together
    <2>2. r.answers[i].verified = asked[u].verified
      BY <1>2, <2>1
    <2> QED BY <1>3, <1>4, <2>2
  <1>5. ASSUME NEW i \in 1..n, r.rewards[i] # 0
        PROVE  \E u \in Miner : asked[u].verified = "yes" \/ (asked[u].verified = "no" /\ r.kind = "retrieve")
    BY <1>2, <1>3, <1>5
  <1> QED BY <1>1, <1>4, <1>5

\* A step of the moving average.
Risen(old, new) == new >= Min({old, 1})
Fallen(old, new) == new <= Max({old, 0})

LEMMA AverageMoves ==
  ASSUME NEW old \in Scores, NEW reward \in {-1, 0, 1, NaN}, NEW new \in Averages(old, reward)
  PROVE  /\ new = NaN <=> old = NaN \/ reward = NaN
         /\ old # NaN /\ reward = 1 => Risen(old, new)
         /\ old # NaN /\ reward \in {-1, 0} => Fallen(old, new)
  <1>1. MaxScore \in Nat /\ NaN \notin Int
    BY RewardsAssumption
  <1>2. CASE NaN \in {old, reward}
    BY <1>1, <1>2 DEF Averages, Risen, Fallen
  <1>3. CASE NaN \notin {old, reward}
    <2>1. old \in Int /\ reward \in {-1, 0, 1} /\ reward # NaN /\ old # NaN
      BY <1>3, ScoreKinds
    <2>2. /\ new \in (-MaxScore)..MaxScore
          /\ reward = 1 => new >= Min({old, 1})
          /\ reward = -1 => new <= Max({old, -1})
          /\ reward = 0 => new \in Min({old, 0})..Max({old, 0})
      BY <1>3, <2>1 DEF Averages
    <2>3. new \in Int /\ new # NaN
      BY <1>1, <2>2
    <2>4. /\ Max({old, -1}) = IF old >= -1 THEN old ELSE -1
          /\ Max({old, 0}) = IF old >= 0 THEN old ELSE 0
          /\ Min({old, 0}) = IF old <= 0 THEN old ELSE 0
      BY <2>1, MinPair, MaxPair
    <2>5. reward \in {-1, 0} => new <= Max({old, 0})
      BY <2>1, <2>2, <2>3, <2>4
    <2> QED BY <2>1, <2>2, <2>3, <2>5 DEF Risen, Fallen
  <1> QED BY <1>2, <1>3

\* Each score moves by the answer of its own miner, and is lost in a round in which
\* nobody earned anything.
LEMMA ApplyOwn ==
  ASSUME RewInv, Apply, NEW u \in Miner
  PROVE  LET asked  == rew.asked[u].verified
             old    == rew.scores[u]
             new    == rew'.scores[u]
             earned == \E w \in Miner : \/ rew.asked[w].verified = "yes"
                                        \/ rew.asked[w].verified = "no" /\ rew.round.kind = "retrieve"
             lost   == old = NaN \/ ~ earned
         IN  /\ asked \in {"unasked", "none"} => new = old
             /\ asked \in {"yes", "no"} => (new = NaN <=> lost)
             /\ asked = "yes" /\ ~ lost => new >= Min({old, 1})
             /\ asked = "no" /\ ~ lost => new <= Max({old, 0})
  <1>1. PICK r \in Round : r = rew.round
    BY RewState
  <1>2. PICK asked \in AskedOf : asked = rew.asked
    BY RewState
  <1>3. Together(r, asked) /\ \A i \in 1..Len(r.answers) : r.answers[i].verified # "none"
    BY <1>1, <1>2 DEF RewInv, Apply
  <1>4. PICK n \in Nat : n = Len(r.uids) /\ n = Len(r.answers) /\ n = Len(r.rewards)
    BY <1>3 DEF Round, Together
  <1>5. PICK earned \in BOOLEAN :
          earned <=> \E w \in Miner : asked[w].verified = "yes" \/ (asked[w].verified = "no" /\ r.kind = "retrieve")
    OBVIOUS
  <1>6. earned <=> \E i \in 1..n : r.rewards[i] # 0
    BY <1>3, <1>4, <1>5, EarnedSomething
  <1>7. PICK old \in Scores : old = rew.scores[u]
    BY RewState
  <1>8. PICK scaled : scaled = Scaled(r.rewards)
    OBVIOUS
  <1>9. PICK new :
          /\ new = rew'.scores[u]
          /\ new \in IF u \in ToSet(r.uids)
                       THEN Averages(old, scaled[CHOOSE i \in 1..n : r.uids[i] = u])
                       ELSE {old}
    <2>1. PICK scores \in [Miner -> Scores] :
            /\ \A w \in Miner : scores[w] \in Scattered(r, rew.scores, w)
            /\ rew' = [rew EXCEPT !.pc = "idle", !.scores = scores, !.round = NoRound,
                                  !.asked = Unasked]
      BY <1>1 DEF Apply
    <2>2. rew'.scores = scores
      BY <2>1, RewState
    <2>3. scores[u] \in Scattered(r, rew.scores, u)
      BY <2>1
    <2>4. Scattered(r, rew.scores, u) =
            IF u \in ToSet(r.uids)
              THEN Averages(old, scaled[CHOOSE i \in 1..n : r.uids[i] = u])
              ELSE {old}
      BY <1>4, <1>7, <1>8 DEF Scattered
    <2> QED BY <2>2, <2>3, <2>4
  <1>10. \A w : w \in ToSet(r.uids) <=> \E i \in 1..n : r.uids[i] = w
    <2>1. PICK uids \in Seq(Miner) : uids = r.uids
      BY RoundParts
    <2>2. \A w : w \in ToSet(uids) <=> \E i \in 1..Len(uids) : uids[i] = w
      BY SeqMembers
    <2> QED BY <1>4, <2>1, <2>2
  <1>11. CASE u \notin ToSet(r.uids)
    <2>1. asked[u].verified \in {"unasked", "none"} /\ new = old
      BY <1>3, <1>4, <1>9, <1>10, <1>11 DEF Together
    <2> QED BY <1>2, <1>7, <1>9, <2>1
  <1>12. CASE u \in ToSet(r.uids)
    <2>1. PICK i \in 1..n : r.uids[i] = u /\ (CHOOSE j \in 1..n : r.uids[j] = u) = i
      BY <1>3, <1>4, <1>10, <1>12 DEF Together
    <2>2. new \in Averages(old, scaled[i])
      BY <1>9, <1>12, <2>1
    <2>3. /\ asked[u].verified \in {"yes", "no"}
          /\ r.rewards[i] = Reward(r.kind, r.answers[i]) /\ r.answers[i].verified = asked[u].verified
      <3>1. r.answers[i].verified \in {"yes", "no", "none"}
        <4>1. r.answers \in Seq(Answers("challenge"))
          BY RoundParts
        <4>2. r.answers[i] \in Answers("challenge")
          BY <1>4, <4>1, SeqMembers
        <4> QED BY <4>2 DEF Answers
      <3> QED BY <1>3, <1>4, <2>1, <3>1 DEF Together
    <2>4. /\ r.rewards[i] \in {-1, 0, 1}
          /\ asked[u].verified = "yes" => r.rewards[i] = 1
          /\ asked[u].verified = "no" => r.rewards[i] \in {-1, 0}
      BY <2>3 DEF Reward
    <2>5. scaled[i] = IF earned THEN r.rewards[i] ELSE NaN
      BY <1>4, <1>6, <1>8 DEF Scaled
    <2>6. r.rewards[i] # NaN
      BY <2>4, RewardsAssumption
    <2>7. /\ new = NaN <=> old = NaN \/ ~ earned
          /\ ~ (old = NaN \/ ~ earned) /\ asked[u].verified = "yes" => Risen(old, new)
          /\ ~ (old = NaN \/ ~ earned) /\ asked[u].verified = "no" => Fallen(old, new)
      <3>1. PICK reward \in {-1, 0, 1, NaN} : reward = scaled[i]
        BY <2>4, <2>5
      <3>2. new \in Averages(old, reward)
        BY <2>2, <3>1
      <3>3. /\ new = NaN <=> old = NaN \/ reward = NaN
            /\ old # NaN /\ reward = 1 => Risen(old, new)
            /\ old # NaN /\ reward \in {-1, 0} => Fallen(old, new)
        BY <3>2, AverageMoves
      <3> QED BY <2>4, <2>5, <2>6, <3>1, <3>3
    <2> QED BY <1>1, <1>2, <1>5, <1>7, <1>9, <2>3, <2>7 DEF Risen, Fallen
  <1> QED BY <1>11, <1>12

\* A score moves by the answer of its own miner, wherever miners without data were taken
\* out of the round, and scores are lost when nobody earned anything.
THEOREM OwnAnswersCount == RewSpec => OwnAnswer
  <1>1. RewInv /\ [RewNext]_rew => [rew.pc = "apply" =>
       LET earned == \E u \in Miner :
                       \/ rew.asked[u].verified = "yes"
                       \/ rew.asked[u].verified = "no" /\ rew.round.kind = "retrieve"
       IN  \A u \in Miner :
             LET asked == rew.asked[u].verified
                 old   == rew.scores[u]
                 new   == rew'.scores[u]
                 lost  == old = NaN \/ ~ earned
             IN  /\ asked \in {"unasked", "none"} => new = old
                 /\ asked \in {"yes", "no"} => (new = NaN <=> lost)
                 /\ asked = "yes" /\ ~ lost => new >= Min({old, 1})
                 /\ asked = "no" /\ ~ lost => new <= Max({old, 0})]_rew
    <2> SUFFICES ASSUME RewInv, RewNext, rew.pc = "apply"
                 PROVE  Apply
      BY ApplyOwn
    <2> QED BY DEF RewNext, Answer, Filter, SetWeights, WeightsSet, LoadScores
  <1> QED BY <1>1, RewInvHolds, PTL DEF RewSpec, OwnAnswer

-----------------------------------------------------------------------------
(* Distribution: who is asked                                              *)

\* The numbers with fewer than n smaller ones in the set.
LEMMA FirstRight ==
  ASSUME NEW S \in SUBSET Int, IsFiniteSet(S), NEW n \in Nat, n <= Cardinality(S)
  PROVE  FirstUids(S, n) \subseteq S /\ Cardinality(FirstUids(S, n)) = n
  <1>1. /\ Cardinality(S) \in Nat
        /\ \A k \in 1..Cardinality(S) : \E i \in S : Rank(S, i) = k
        /\ \A i \in S : Rank(S, i) \in 1..Cardinality(S)
        /\ \A i, j \in S : Rank(S, i) = Rank(S, j) => i = j
    BY Counted
  <1>2. \A i \in S : Cardinality({j \in S : j < i}) = Rank(S, i) - 1
    <2> TAKE i \in S
    <2>1. PICK U \in SUBSET S : U = {j \in S : j < i}
      OBVIOUS
    <2>2. {j \in S : j <= i} = U \cup {i} /\ i \notin U
      <3>1. i \in Int /\ i <= i /\ ~ (i < i) /\ \A j \in S : j <= i <=> j < i \/ j = i
        OBVIOUS
      <3> QED BY <2>1, <3>1
    <2>3. IsFiniteSet(U) /\ Cardinality(U) \in Nat
      BY FS_Subset, FS_CardinalityType
    <2>4. Rank(S, i) = Cardinality(U) + 1
      BY <2>2, <2>3, FS_AddElement DEF Rank
    <2> QED BY <2>1, <2>3, <2>4
  <1>3. PICK F \in SUBSET S : F = FirstUids(S, n) /\ \A i \in S : i \in F <=> Rank(S, i) <= n
    <2>1. \A i \in S : i \in FirstUids(S, n) <=> Rank(S, i) <= n
      BY <1>1, <1>2 DEF FirstUids
    <2> QED BY <2>1 DEF FirstUids
  <1> DEFINE f == [i \in F |-> Rank(S, i)]
  <1>4. f \in Injection(F, 1..n)
    <2>1. \A i \in F : Rank(S, i) \in 1..n
      BY <1>1, <1>3
    <2>2. \A i, j \in F : Rank(S, i) = Rank(S, j) => i = j
      BY <1>1
    <2> QED BY <2>1, <2>2 DEF Injection, IsInjective
  <1>5. \A k \in 1..n : \E i \in F : f[i] = k
    BY <1>1, <1>3
  <1>6. IsFiniteSet(1..n) /\ Cardinality(1..n) = n
    <2>1. IsFiniteSet(1..n) /\ Cardinality(1..n) = IF 1 > n THEN 0 ELSE n - 1 + 1
      BY FS_Interval
    <2> QED BY <2>1
  <1>7. f \in Surjection(F, 1..n)
    BY <1>4, <1>5 DEF Injection, Surjection
  <1> HIDE DEF f
  <1>8. Cardinality(F) = n
    BY <1>4, <1>6, <1>7, FS_Injection
  <1> QED BY <1>3, <1>8

\* The miners that are drawn: available, each once, k of them or all there are.
DrawnFrom(s, all, k) ==
  /\ Len(s) \in Nat /\ s \in Seq(all) /\ ToSet(s) \subseteq all
  /\ IsFiniteSet(ToSet(s)) /\ Cardinality(ToSet(s)) = Len(s)
  /\ Len(s) <= k
  /\ Len(s) < k => ToSet(s) = all

LEMMA DrawnMiners ==
  ASSUME NEW axons \in Metagraphs, NEW k \in Nat, NEW exclude,
         NEW s \in QueryMiners(axons, k, exclude)
  PROVE  DrawnFrom(s, AvailableUids(axons, exclude), k)
  <1>1. PICK all : all = AvailableUids(axons, exclude)
    OBVIOUS
  <1>2. IsFiniteSet(all) /\ Cardinality(all) \in Nat
    <2>1. all \in SUBSET DOMAIN axons
      BY <1>1 DEF AvailableUids
    <2>2. IsFiniteSet(DOMAIN axons)
      BY DistributionAssumption
    <2> QED BY <2>1, <2>2, FS_Subset, FS_CardinalityType
  <1>3. PICK n \in Nat : n = IF k <= Cardinality(all) THEN k ELSE Cardinality(all)
    BY <1>2
  <1>4. s \in [1..n -> all] /\ IsInjective(s)
    <2>1. Min({k, Cardinality(all)}) = n
      BY <1>2, <1>3, MinPair
    <2> QED BY <1>1, <2>1 DEF QueryMiners, PseudorandomUids
  <1>5. Len(s) = n /\ s \in Seq(all)
    BY <1>4
  <1>6. \A x : x \in ToSet(s) <=> \E i \in 1..n : s[i] = x
    BY <1>5, SeqMembers
  <1>7. PICK drawn : drawn = ToSet(s)
    OBVIOUS
  <1>8. drawn \in SUBSET all
    BY <1>4, <1>6, <1>7
  <1>9. s \in Injection(1..n, drawn) /\ s \in Surjection(1..n, drawn)
    <2>1. s \in [1..n -> drawn]
      BY <1>4, <1>6, <1>7
    <2> QED BY <1>4, <1>6, <1>7, <2>1 DEF Injection, Surjection
  <1>10. IsFiniteSet(drawn) /\ Cardinality(drawn) = n
    <2>1. IsFiniteSet(1..n) /\ Cardinality(1..n) = IF 1 > n THEN 0 ELSE n - 1 + 1
      BY FS_Interval
    <2>2. IsFiniteSet(drawn)
      BY <1>2, <1>8, FS_Subset
    <2>3. Cardinality(1..n) = Cardinality(drawn)
      BY <1>9, <2>1, <2>2, FS_Injection
    <2> QED BY <2>1, <2>2, <2>3
  <1>11. n < k => drawn = all
    BY <1>2, <1>3, <1>8, <1>10, FS_Subset
  <1>12. n <= k
    BY <1>2, <1>3
  <1> QED BY <1>1, <1>5, <1>7, <1>8, <1>10, <1>11, <1>12 DEF DrawnFrom

-----------------------------------------------------------------------------
(* Distribution: the chunks                                                *)

LEMMA Division ==
  ASSUME NEW n \in Nat, NEW d \in Nat \ {0}
  PROVE  /\ n \div d \in Nat /\ (n \div d) * d \in Nat
         /\ (n \div d) * d <= n /\ n < (n \div d) * d + d
  OBVIOUS

LEMMA ProductGrows ==
  ASSUME NEW m \in Nat, NEW n \in Nat, NEW s \in Nat
  PROVE  m * s \in Nat /\ n * s \in Nat /\ (m <= n => m * s <= n * s)
  <1>1. m * s \in Nat /\ n * s \in Nat
    OBVIOUS
  <1>2. ASSUME m <= n PROVE m * s <= n * s
    <2>1. PICK d \in Nat : n = m + d
      <3>1. n - m \in Nat /\ n = m + (n - m)
        BY <1>2
      <3> QED BY <3>1
    <2>2. (m + d) * s = m * s + d * s /\ m * s \in Nat /\ d * s \in Nat
      OBVIOUS
    <2> QED BY <2>1, <2>2
  <1> QED BY <1>1, <1>2

LEMMA NextProduct ==
  ASSUME NEW m \in Nat, NEW s \in Nat
  PROVE  (m + 1) * s = m * s + s
  OBVIOUS

LEMMA PlanConstants ==
  /\ MinChunk \in Nat \ {0} /\ MaxChunk \in Nat \ {0} /\ MaxRetries \in Nat \ {0}
  /\ MinChunk <= MaxChunk /\ Overhead \in Nat
  /\ Lengths \subseteq Nat /\ Redundancy \subseteq Nat \ {0} /\ Picks \subseteq Nat \ {0}
  BY DistributionAssumption

\* A size for the chunks of g groups.
Fits(chunk, size, g) ==
  /\ chunk \in Nat \ {0} /\ chunk <= size
  /\ size <= g * MaxChunk => chunk = size \/ chunk = size \div g \/ size <= g * chunk

\* The size of the chunks: the share of each group, unless that is too small or too large.
LEMMA ChunkSize ==
  ASSUME NEW size \in Nat, NEW n \in Nat, NEW r \in Nat \ {0}, NEW g, g = n \div r, g # 0,
         NEW chunk, chunk = OptimalChunkSize(size, n, r), chunk # 0
  PROVE  Fits(chunk, size, g)
  <1>1. g \in Nat /\ g > 0
    BY Division
  <1>2. PICK q \in Nat : q = size \div g /\ q * g <= size /\ size < q * g + g /\ q * g \in Nat
    BY <1>1, Division
  <1>c. MinChunk \in Nat \ {0} /\ MaxChunk \in Nat \ {0} /\ MinChunk <= MaxChunk
    BY PlanConstants
  <1>3. PICK ideal \in Nat : ideal = IF q <= MaxChunk THEN q ELSE MaxChunk
    BY <1>c
  <1>4. PICK share \in Nat : share = IF MinChunk >= ideal THEN MinChunk ELSE ideal
    BY <1>c
  <1>5. chunk = IF share > size THEN size ELSE share
    <2>1. Min({q, MaxChunk}) = ideal
      BY <1>c, <1>3, MinPair
    <2>2. Max({MinChunk, ideal}) = share
      BY <1>c, <1>4, MaxPair
    <2> QED BY <1>1, <1>2, <2>1, <2>2 DEF OptimalChunkSize
  <1>6. chunk \in Nat \ {0} /\ chunk <= size
    BY <1>4, <1>5
  <1>7. ASSUME size <= g * MaxChunk
        PROVE  chunk = size \/ chunk = size \div g \/ size <= g * chunk
    <2>1. q <= MaxChunk
      <3>1. SUFFICES ASSUME q > MaxChunk PROVE FALSE
        BY <1>c
      <3>2. (MaxChunk + 1) * g <= q * g
        BY <1>1, <1>c, <3>1, ProductGrows
      <3>3. (MaxChunk + 1) * g = MaxChunk * g + g
        BY <1>1, <1>c, NextProduct
      <3>4. MaxChunk * g = g * MaxChunk /\ MaxChunk * g \in Nat
        BY <1>1, <1>c
      <3> QED BY <1>1, <1>2, <1>7, <3>2, <3>3, <3>4
    <2>2. CASE q >= MinChunk
      BY <1>2, <1>3, <1>4, <1>5, <1>c, <2>1, <2>2
    <2>3. CASE q < MinChunk
      <3>1. share = MinChunk
        BY <1>3, <1>4, <1>c, <2>1, <2>3
      <3>2. (q + 1) * g <= MinChunk * g
        BY <1>1, <1>c, <2>3, ProductGrows
      <3>3. (q + 1) * g = q * g + g
        BY <1>1, NextProduct
      <3>4. MinChunk * g = g * MinChunk /\ MinChunk * g \in Nat
        BY <1>1, <1>c
      <3>5. size <= g * MinChunk
        BY <1>1, <1>2, <3>2, <3>3, <3>4
      <3> QED BY <1>5, <3>1, <3>5
    <2> QED BY <1>c, <2>2, <2>3
  <1> QED BY <1>6, <1>7 DEF Fits

\* How many chunks are planned, and how far they reach.
AllChunks(size, chunk) == (size + chunk - 1) \div chunk
Count(size, g, chunk) == Min({AllChunks(size, chunk), Max({g, size \div chunk})})

Reaches(m, size, g, chunk) ==
  /\ \A i \in 1..m : /\ (i - 1) * chunk \in Nat /\ i * chunk \in Nat
                     /\ (i - 1) * chunk < size /\ (i - 1) * chunk < i * chunk
  /\ m * chunk > size - chunk
  /\ chunk = size => m * chunk >= size
  /\ chunk = size \div g => m * chunk > size - g
  /\ size <= g * chunk => m * chunk >= size

LEMMA ChunkCount ==
  ASSUME NEW size \in Nat, NEW g \in Nat \ {0}, NEW chunk \in Nat \ {0}, chunk <= size,
         NEW m, m = Count(size, g, chunk)
  PROVE  m \in Nat \ {0} /\ Reaches(m, size, g, chunk)
  <1>1. PICK d \in Nat : d = size \div chunk /\ d * chunk <= size /\ size < d * chunk + chunk
    BY Division
  <1>2. size + chunk - 1 \in Nat
    OBVIOUS
  <1>3. PICK all \in Nat :
          /\ all = (size + chunk - 1) \div chunk
          /\ all * chunk <= size + chunk - 1 /\ size + chunk - 1 < all * chunk + chunk
    BY <1>2, Division
  <1>4. PICK most \in Nat : most = IF g >= d THEN g ELSE d
    OBVIOUS
  <1>5. m = IF all <= most THEN all ELSE most
    <2>1. Max({g, d}) = most
      BY <1>4, MaxPair
    <2>2. Min({all, most}) = IF all <= most THEN all ELSE most
      BY MinPair
    <2> QED BY <1>1, <1>3, <2>1, <2>2 DEF Count, AllChunks
  <1>6. all * chunk \in Nat /\ d * chunk \in Nat
    OBVIOUS
  <1>7. all * chunk >= size
    BY <1>3, <1>6
  <1>8. d <= all
    <2>1. SUFFICES ASSUME all + 1 <= d PROVE FALSE
      OBVIOUS
    <2>2. (all + 1) * chunk <= d * chunk /\ (all + 1) * chunk = all * chunk + chunk
      BY <2>1, ProductGrows, NextProduct
    <2> QED BY <1>1, <1>6, <1>7, <2>2
  <1>9. all >= 1
    <2>1. all = 0 => all * chunk = 0
      OBVIOUS
    <2> QED BY <1>7, <2>1
  <1>10. m \in Nat \ {0} /\ d <= m /\ m <= all
    BY <1>4, <1>5, <1>8, <1>9
  <1>11. m * chunk \in Nat /\ d * chunk <= m * chunk
    BY <1>10, ProductGrows
  <1>12. ASSUME NEW i \in 1..m
         PROVE  /\ (i - 1) * chunk \in Nat /\ i * chunk \in Nat
                /\ (i - 1) * chunk < size /\ (i - 1) * chunk < i * chunk
    <2>1. PICK j \in Nat : j = i - 1 /\ i = j + 1 /\ j + 1 <= all
      BY <1>10
    <2>2. (j + 1) * chunk <= all * chunk /\ (j + 1) * chunk = j * chunk + chunk
          /\ j * chunk \in Nat
      BY <2>1, ProductGrows, NextProduct
    <2>3. j * chunk < size
      BY <1>3, <1>6, <2>2
    <2> QED BY <2>1, <2>2, <2>3
  <1>13. m * chunk > size - chunk
    BY <1>1, <1>6, <1>11
  <1>14. ASSUME chunk = size PROVE m * chunk >= size
    <2>1. 1 * chunk <= m * chunk /\ 1 * chunk = chunk
      BY <1>10, ProductGrows
    <2> QED BY <1>11, <1>14, <2>1
  <1>15. ASSUME chunk = size \div g PROVE m * chunk > size - g
    <2>1. chunk * g <= size /\ size < chunk * g + g /\ chunk * g \in Nat
      BY <1>15, Division
    <2>2. chunk * g = g * chunk
      OBVIOUS
    <2>3. g <= all
      <3>1. SUFFICES ASSUME all + 1 <= g PROVE FALSE
        OBVIOUS
      <3>2. (all + 1) * chunk <= g * chunk /\ (all + 1) * chunk = all * chunk + chunk
        BY <3>1, ProductGrows, NextProduct
      <3> QED BY <1>6, <1>7, <2>1, <2>2, <3>2
    <2>4. g <= m
      BY <1>4, <1>5, <2>3
    <2>5. g * chunk <= m * chunk
      BY <1>10, <2>4, ProductGrows
    <2> QED BY <1>11, <2>1, <2>2, <2>5
  <1>16. ASSUME size <= g * chunk PROVE m * chunk >= size
    <2>1. all <= g
      <3>1. SUFFICES ASSUME g + 1 <= all PROVE FALSE
        OBVIOUS
      <3>2. (g + 1) * chunk <= all * chunk /\ (g + 1) * chunk = g * chunk + chunk
            /\ g * chunk \in Nat
        BY <3>1, ProductGrows, NextProduct
      <3> QED BY <1>3, <1>6, <1>16, <3>2
    <2>2. m = all
      BY <1>4, <1>5, <2>1
    <2> QED BY <1>7, <2>2
  <1> QED BY <1>10, <1>12, <1>13, <1>14, <1>15, <1>16 DEF Reaches

\* What the property PlanCovers says of the chunks of a file.
Layout(chunks, length, groups) ==
  LET size == length + Overhead
      last == chunks[Len(chunks)]
  IN  /\ chunks[1].start = 0
      /\ \A i \in 1..Len(chunks) - 1 : chunks[i].end = chunks[i + 1].start
      /\ size <= groups * MaxChunk /\ groups <= Overhead + 1 => last.end >= length
      /\ size - last.end < chunks[1].end

ChunkType(T) == [start : Nat, end : Nat, uids : SUBSET T]

\* The groups of miners, used in turn.
GroupsOf(groups, T, g, needed) ==
  /\ g # 0 /\ Len(groups) = Max({g, needed})
  /\ \A i \in 1..Len(groups) : ToSet(groups[i]) \in SUBSET T

LEMMA GroupMembers ==
  ASSUME NEW T, NEW uids \in Seq(T), NEW r \in Nat \ {0}, NEW needed \in Nat,
         NEW n \in Nat, n = Len(uids), NEW g \in Nat, g = n \div r,
         r <= Len(CompleteGroups(uids, r)),
         NEW groups, groups = ReuseGroups(PartitionUids(CompleteGroups(uids, r), r), needed)
  PROVE  GroupsOf(groups, T, g, needed)
  <1>2. g \in Nat /\ g * r <= n /\ g * r \in Nat
    BY Division
  <1>3. PICK whole : whole = CompleteGroups(uids, r)
    OBVIOUS
  <1>4. whole \in Seq(T) /\ Len(whole) = g * r
    <2>1. PICK k \in Nat : k = g * r /\ k <= n
      BY <1>2
    <2>2. SubSeq(uids, 1, k) \in Seq(T) /\ Len(SubSeq(uids, 1, k)) = k
      BY <2>1
    <2> QED BY <1>3, <2>1, <2>2 DEF CompleteGroups
  <1>5. g # 0
    <2>1. g = 0 => g * r = 0
      OBVIOUS
    <2> QED BY <1>3, <1>4, <2>1
  <1>6. (g * r) \div r = g
    BY <1>2
  <1>7. PICK parts : parts = PartitionUids(whole, r)
    OBVIOUS
  <1>8. parts = [j \in 1..g |-> SubSeq(whole, (j - 1) * r + 1, j * r)]
    BY <1>4, <1>6, <1>7 DEF PartitionUids
  <1>9. Len(parts) = g
    BY <1>2, <1>8
  <1>10. ASSUME NEW j \in 1..g PROVE parts[j] \in Seq(T)
    <2>1. PICK l \in Nat : l = j - 1 /\ j = l + 1 /\ l + 1 <= g
      BY <1>2
    <2>2. (l + 1) * r <= g * r /\ (l + 1) * r = l * r + r /\ l * r \in Nat
      BY <1>2, <2>1, ProductGrows, NextProduct
    <2>3. PICK a \in Nat, b \in Nat : a = (j - 1) * r + 1 /\ b = j * r
                                      /\ 1 <= a /\ a <= b /\ b <= g * r
      BY <1>2, <2>1, <2>2
    <2>4. SubSeq(whole, a, b) \in Seq(T)
      BY <1>4, <2>3
    <2> QED BY <1>8, <2>3, <2>4
  <1>11. PICK most \in Nat : most = Max({g, needed})
    BY <1>2, MaxPair
  <1>12. groups = [i \in 1..most |-> parts[((i - 1) % g) + 1]]
    BY <1>3, <1>7, <1>9, <1>11 DEF ReuseGroups
  <1>13. Len(groups) = most
    BY <1>12
  <1>14. ASSUME NEW i \in 1..most PROVE ToSet(groups[i]) \in SUBSET T
    <2>1. PICK j \in 1..g : j = ((i - 1) % g) + 1
      BY <1>2, <1>5
    <2>2. PICK s \in Seq(T) : s = groups[i]
      BY <1>10, <1>12, <2>1
    <2>3. \A x : x \in ToSet(s) <=> \E k \in 1..Len(s) : s[k] = x
      BY SeqMembers
    <2>4. \A k \in 1..Len(s) : s[k] \in T
      OBVIOUS
    <2> QED BY <2>2, <2>3, <2>4
  <1> QED BY <1>5, <1>11, <1>13, <1>14 DEF GroupsOf

\* Where the chunks start: at[m + 1] is where the last one would end.
Starts(at, m, size, g, chunk) ==
  /\ at \in [1..m + 1 -> Nat]
  /\ \A i \in 1..m : at[i] = (i - 1) * chunk /\ at[i + 1] = i * chunk
  /\ \A i \in 1..m : at[i] < size /\ at[i] < at[i + 1]
  /\ at[1] = 0 /\ at[2] = chunk
  /\ at[m + 1] > size - chunk
  /\ chunk = size \/ size <= g * chunk => at[m + 1] >= size
  /\ chunk = size \div g => at[m + 1] > size - g

LEMMA ChunkStarts ==
  ASSUME NEW size \in Nat, NEW g \in Nat \ {0}, NEW chunk \in Nat \ {0},
         NEW m \in Nat \ {0}, Reaches(m, size, g, chunk)
  PROVE  \E at : Starts(at, m, size, g, chunk)
  <1> DEFINE at == [i \in 1..m + 1 |-> (i - 1) * chunk]
  <1>1. \A i \in 1..m + 1 : i - 1 \in Nat /\ (i - 1) * chunk \in Nat
    <2> TAKE i \in 1..m + 1
    <2>1. PICK j \in Nat : j = i - 1
      OBVIOUS
    <2> QED BY <2>1, ProductGrows
  <1>2. at \in [1..m + 1 -> Nat]
    BY <1>1
  <1>3. \A i \in 1..m : at[i] = (i - 1) * chunk /\ at[i + 1] = i * chunk
    <2> TAKE i \in 1..m
    <2>1. i \in 1..m + 1 /\ i + 1 \in 1..m + 1 /\ (i + 1) - 1 = i
      OBVIOUS
    <2> QED BY <2>1
  <1>4. at[1] = 0 /\ at[2] = chunk
    <2>1. 1 \in 1..m /\ (1 - 1) * chunk = 0 /\ 1 * chunk = chunk /\ 1 + 1 = 2
      OBVIOUS
    <2> QED BY <1>3, <2>1
  <1>5. at[m + 1] = m * chunk
    BY <1>3
  <1> HIDE DEF at
  <1>6. \A i \in 1..m : at[i] < size /\ at[i] < at[i + 1]
    BY <1>3 DEF Reaches
  <1>7. /\ at[m + 1] > size - chunk
        /\ chunk = size \/ size <= g * chunk => at[m + 1] >= size
        /\ chunk = size \div g => at[m + 1] > size - g
    BY <1>5 DEF Reaches
  <1> QED BY <1>2, <1>3, <1>4, <1>6, <1>7 DEF Starts

\* Where the chunks end, and how far they cover the size.
Ends(to, at, m, size) ==
  /\ to \in [1..m -> Nat]
  /\ \A i \in 1..m : to[i] = IF at[i + 1] <= size THEN at[i + 1] ELSE size

LEMMA ChunkEnds ==
  ASSUME NEW size \in Nat, NEW g \in Nat \ {0}, NEW chunk \in Nat \ {0}, chunk <= size,
         NEW m \in Nat \ {0}, NEW at, Starts(at, m, size, g, chunk)
  PROVE  /\ \A i \in 1..m : at[i] \in Nat /\ at[i + 1] \in Nat
         /\ \E to : Ends(to, at, m, size)
  <1>1. \A i \in 1..m : at[i] \in Nat /\ at[i + 1] \in Nat
    <2>1. \A i \in 1..m : i \in 1..m + 1 /\ i + 1 \in 1..m + 1
      OBVIOUS
    <2> QED BY <2>1 DEF Starts
  <1> DEFINE to == [i \in 1..m |-> IF at[i + 1] <= size THEN at[i + 1] ELSE size]
  <1>2. Ends(to, at, m, size)
    BY <1>1 DEF Ends
  <1> QED BY <1>1, <1>2

\* Starts and ends that lie one after the other, and how far they reach.
Covers(at, to, m, length, size, g) ==
  /\ \A i \in 1..m : at[i] \in Nat /\ to[i] \in Nat /\ at[i] < to[i] /\ to[i] <= size
  /\ at[1] = 0 /\ \A i \in 1..m - 1 : to[i] = at[i + 1]
  /\ size - to[m] < to[1]
  /\ size <= g * MaxChunk /\ g <= Overhead + 1 => to[m] >= length

LEMMA ChunksCover ==
  ASSUME NEW size \in Nat, NEW length \in Nat, size = length + Overhead,
         NEW g \in Nat \ {0}, NEW chunk, Fits(chunk, size, g),
         NEW m \in Nat \ {0}, NEW at, Starts(at, m, size, g, chunk),
         NEW to, Ends(to, at, m, size)
  PROVE  Covers(at, to, m, length, size, g)
  <1>1. chunk \in Nat \ {0} /\ chunk <= size
    BY DEF Fits
  <1>2. \A i \in 1..m : at[i] \in Nat /\ at[i + 1] \in Nat
    BY <1>1, ChunkEnds
  <1>3. ASSUME NEW i \in 1..m
        PROVE  at[i] \in Nat /\ to[i] \in Nat /\ at[i] < to[i] /\ to[i] <= size
    <2>1. PICK x \in Nat, y \in Nat : x = at[i] /\ y = at[i + 1]
      BY <1>2
    <2>2. x < size /\ x < y
      BY <2>1 DEF Starts
    <2>3. to[i] = IF y <= size THEN y ELSE size
      BY <2>1 DEF Ends
    <2> QED BY <2>1, <2>2, <2>3
  <1>4. ASSUME NEW i \in 1..m - 1 PROVE to[i] = at[i + 1]
    <2>1. i \in 1..m /\ i + 1 \in 1..m
      OBVIOUS
    <2>2. PICK y \in Nat : y = at[i + 1]
      BY <1>2, <2>1
    <2>3. y < size
      BY <2>1, <2>2 DEF Starts
    <2>4. to[i] = IF y <= size THEN y ELSE size
      BY <2>1, <2>2 DEF Ends
    <2> QED BY <2>2, <2>3, <2>4
  <1>5. m \in 1..m /\ 1 \in 1..m
    OBVIOUS
  <1>6. PICK top \in Nat : top = at[m + 1]
    BY <1>2, <1>5
  <1>7. to[m] = IF top <= size THEN top ELSE size
    BY <1>5, <1>6 DEF Ends
  <1>8. top > size - chunk
    BY <1>6 DEF Starts
  <1>9. at[1] = 0 /\ to[1] = chunk
    <2>1. at[1] = 0 /\ at[1 + 1] = chunk
      BY DEF Starts
    <2>2. to[1] = IF at[1 + 1] <= size THEN at[1 + 1] ELSE size
      BY <1>5 DEF Ends
    <2> QED BY <1>1, <2>1, <2>2
  <1>10. size - to[m] < to[1]
    BY <1>1, <1>7, <1>8, <1>9
  <1>11. ASSUME size <= g * MaxChunk, g <= Overhead + 1 PROVE to[m] >= length
    <2>1. Overhead \in Nat
      BY PlanConstants
    <2>2. CASE chunk = size \/ size <= g * chunk
      <3>1. top >= size
        BY <1>6, <2>2 DEF Starts
      <3> QED BY <1>7, <2>1, <3>1
    <2>3. CASE chunk = size \div g
      <3>1. top > size - g
        BY <1>6, <2>3 DEF Starts
      <3> QED BY <1>7, <1>11, <2>1, <3>1
    <2> QED BY <1>11, <2>2, <2>3 DEF Fits
  <1> QED BY <1>3, <1>4, <1>9, <1>10, <1>11 DEF Covers

\* The ranges of calculate_chunk_indices.
Ranges(indices, all, m, at, to) ==
  /\ Len(indices) = all
  /\ \A i \in 1..m : indices[i].start = at[i] /\ indices[i].end = to[i]

LEMMA IndicesAre ==
  ASSUME NEW size \in Nat, NEW g \in Nat \ {0}, NEW chunk \in Nat \ {0}, chunk <= size,
         NEW all \in Nat, all = AllChunks(size, chunk),
         NEW m \in Nat \ {0}, m <= all, NEW at, Starts(at, m, size, g, chunk),
         NEW to, Ends(to, at, m, size), NEW indices, indices = ChunkIndices(size, chunk)
  PROVE  Ranges(indices, all, m, at, to)
  <1>1. indices = [i \in 1..all |-> [start |-> (i - 1) * chunk, end |-> Min({i * chunk, size})]]
    BY DEF ChunkIndices, AllChunks
  <1>2. Len(indices) = all
    BY <1>1
  <1>3. ASSUME NEW i \in 1..m PROVE indices[i].start = at[i] /\ indices[i].end = to[i]
    <2>1. i \in 1..all
      OBVIOUS
    <2>2. PICK next \in Nat : next = at[i + 1]
      BY ChunkEnds
    <2>3. Min({next, size}) = IF next <= size THEN next ELSE size
      BY MinPair
    <2>4. (i - 1) * chunk = at[i] /\ i * chunk = next
      BY <2>2 DEF Starts
    <2>5. to[i] = Min({next, size})
      BY <2>2, <2>3 DEF Ends
    <2>6. indices[i] = [start |-> (i - 1) * chunk, end |-> Min({i * chunk, size})]
      BY <1>1, <2>1
    <2>7. indices[i] = [start |-> at[i], end |-> to[i]]
      BY <2>4, <2>5, <2>6
    <2> QED BY <2>7
  <1> QED BY <1>2, <1>3 DEF Ranges

\* What is said of a plan.
PlanOf(chunks, T, length, size, g) ==
  /\ chunks \in Seq(ChunkType(T)) /\ Len(chunks) # 0
  /\ \A i \in 1..Len(chunks) : chunks[i].start < chunks[i].end /\ chunks[i].end <= size
  /\ Layout(chunks, length, g)

Placed(indices, groups) ==
  [i \in 1..Min({Len(indices), Len(groups)}) |->
     [start |-> indices[i].start, end |-> indices[i].end, uids |-> ToSet(groups[i])]]

Cut(m, at, to, group) ==
  [i \in 1..m |-> [start |-> at[i], end |-> to[i], uids |-> group[i]]]

LEMMA CoveringPlan ==
  ASSUME NEW T, NEW length \in Nat, NEW size \in Nat, size = length + Overhead, NEW g,
         NEW m \in Nat \ {0}, NEW at, NEW to, Covers(at, to, m, length, size, g),
         NEW group \in [1..m -> SUBSET T], NEW chunks, chunks = Cut(m, at, to, group)
  PROVE  PlanOf(chunks, T, length, size, g)
  <1>1. \A i \in 1..m : at[i] \in Nat /\ to[i] \in Nat /\ at[i] < to[i] /\ to[i] <= size
    BY DEF Covers
  <1>0. \A i \in 1..m : chunks[i] = [start |-> at[i], end |-> to[i], uids |-> group[i]]
    BY DEF Cut
  <1>2. \A i \in 1..m : chunks[i] \in ChunkType(T)
    <2> TAKE i \in 1..m
    <2>1. PICK x \in Nat, y \in Nat : x = at[i] /\ y = to[i]
      BY <1>1
    <2>2. PICK u \in SUBSET T : u = group[i]
      OBVIOUS
    <2>3. chunks[i] = [start |-> x, end |-> y, uids |-> u]
      BY <1>0, <2>1, <2>2
    <2> QED BY <2>3 DEF ChunkType
  <1>3. chunks \in Seq(ChunkType(T)) /\ Len(chunks) = m
    <2>1. chunks \in [1..m -> ChunkType(T)]
      BY <1>2 DEF Cut
    <2> QED BY <2>1
  <1>4. \A i \in 1..m : chunks[i].start = at[i] /\ chunks[i].end = to[i]
    <2> TAKE i \in 1..m
    <2>1. PICK x, y, u : x = at[i] /\ y = to[i] /\ u = group[i]
      OBVIOUS
    <2>2. chunks[i] = [start |-> x, end |-> y, uids |-> u]
      BY <1>0, <2>1
    <2> QED BY <2>1, <2>2
  <1>5. \A i \in 1..m : chunks[i].start < chunks[i].end /\ chunks[i].end <= size
    BY <1>1, <1>4
  <1>6. m \in 1..m /\ 1 \in 1..m
    OBVIOUS
  <1>7. chunks[1].start = 0
    BY <1>4, <1>6 DEF Covers
  <1>8. \A i \in 1..m - 1 : chunks[i].end = chunks[i + 1].start
    <2> TAKE i \in 1..m - 1
    <2>1. i \in 1..m /\ i + 1 \in 1..m
      OBVIOUS
    <2>2. to[i] = at[i + 1]
      BY DEF Covers
    <2> QED BY <1>4, <2>1, <2>2
  <1>9. size - chunks[m].end < chunks[1].end
    BY <1>4, <1>6 DEF Covers
  <1>10. size <= g * MaxChunk /\ g <= Overhead + 1 => chunks[m].end >= length
    BY <1>4, <1>6 DEF Covers
  <1> HIDE DEF Covers
  <1>11. Layout(chunks, length, g)
    BY <1>3, <1>7, <1>8, <1>9, <1>10 DEF Layout
  <1> QED BY <1>3, <1>5, <1>11 DEF PlanOf

\* The chunks of a size, in as many places as there are groups.
LEMMA PlacedChunks ==
  ASSUME NEW T, NEW length \in Nat, NEW size \in Nat, size = length + Overhead,
         NEW g \in Nat \ {0}, NEW chunk \in Nat \ {0}, Fits(chunk, size, g),
         NEW d \in Nat, d = size \div chunk, NEW groups, GroupsOf(groups, T, g, d),
         NEW indices, indices = ChunkIndices(size, chunk)
  PROVE  PlanOf(Placed(indices, groups), T, length, size, g)
  <1>0. chunk <= size
    BY DEF Fits
  <1>2. PICK all \in Nat : all = AllChunks(size, chunk)
    <2>1. PICK top \in Nat : top = size + chunk - 1
      BY <1>0
    <2> QED BY <2>1, Division DEF AllChunks
  <1>3. PICK most \in Nat : most = Max({g, d})
    <2>1. Max({g, d}) = IF g >= d THEN g ELSE d
      BY MaxPair
    <2> QED BY <2>1
  <1>4. Len(groups) = most
    BY <1>3 DEF GroupsOf
  <1>5. PICK m \in Nat : m = Min({all, most}) /\ m <= all /\ m <= most
    <2>1. Min({all, most}) = IF all <= most THEN all ELSE most
      BY MinPair
    <2> QED BY <2>1
  <1>6. m = Count(size, g, chunk)
    BY <1>2, <1>3, <1>5 DEF Count
  <1>7. m \in Nat \ {0} /\ Reaches(m, size, g, chunk)
    BY <1>0, <1>6, ChunkCount
  <1>8. PICK at : Starts(at, m, size, g, chunk)
    BY <1>0, <1>7, ChunkStarts
  <1>9. PICK to : Ends(to, at, m, size)
    BY <1>0, <1>7, <1>8, ChunkEnds
  <1>11. Ranges(indices, all, m, at, to)
    BY <1>0, <1>2, <1>5, <1>7, <1>8, <1>9, IndicesAre
  <1>12. Covers(at, to, m, length, size, g)
    BY <1>7, <1>8, <1>9, ChunksCover
  <1> DEFINE group == [i \in 1..m |-> ToSet(groups[i])]
  <1>13. group \in [1..m -> SUBSET T]
    <2>1. \A i \in 1..m : i \in 1..Len(groups)
      BY <1>4, <1>5
    <2> QED BY <2>1 DEF GroupsOf
  <1>14. Placed(indices, groups) = Cut(m, at, to, group)
    <2>1. Min({Len(indices), Len(groups)}) = m
      BY <1>4, <1>5, <1>11 DEF Ranges
    <2>2. Placed(indices, groups)
            = [i \in 1..m |-> [start |-> indices[i].start, end |-> indices[i].end,
                               uids |-> ToSet(groups[i])]]
      BY <2>1 DEF Placed
    <2> QED BY <1>11, <2>2 DEF Ranges, Cut
  <1> HIDE DEF group
  <1> QED BY <1>7, <1>12, <1>13, <1>14, CoveringPlan

\* The chunks that are planned.
LEMMA PlannedChunks ==
  ASSUME NEW T, NEW uids \in Seq(T), NEW r \in Nat \ {0}, NEW length \in Nat,
         NEW n \in Nat, n = Len(uids), NEW g \in Nat, g = n \div r,
         r <= Len(CompleteGroups(uids, r)),
         NEW size \in Nat, size = length + Overhead,
         NEW chunk, chunk = OptimalChunkSize(size, n, r), chunk # 0
  PROVE  PlanOf(ChunkDistribution(size, chunk, r, uids), T, length, size, g)
  <1>1. PICK grouped : grouped = PartitionUids(CompleteGroups(uids, r), r)
    OBVIOUS
  <1>2. g # 0
    <2>1. PICK needed \in Nat : TRUE
      OBVIOUS
    <2>2. PICK groups : groups = ReuseGroups(grouped, needed)
      OBVIOUS
    <2>3. GroupsOf(groups, T, g, needed)
      BY <1>1, <2>2, GroupMembers
    <2> QED BY <2>3 DEF GroupsOf
  <1>3. PICK c \in Nat \ {0} : c = chunk /\ Fits(c, size, g)
    <2>1. Fits(chunk, size, g)
      BY <1>2, ChunkSize
    <2> QED BY <2>1 DEF Fits
  <1>4. PICK needed \in Nat : needed = size \div c
    BY <1>3, Division
  <1>5. PICK groups : groups = ReuseGroups(grouped, needed)
    OBVIOUS
  <1>6. GroupsOf(groups, T, g, needed)
    BY <1>1, <1>5, GroupMembers
  <1>7. PICK indices : indices = ChunkIndices(size, c)
    OBVIOUS
  <1>8. ChunkDistribution(size, chunk, r, uids) = Placed(indices, groups)
    BY <1>1, <1>3, <1>4, <1>5, <1>7 DEF ChunkDistribution, Placed
  <1>9. PlanOf(Placed(indices, groups), T, length, size, g)
    BY <1>2, <1>3, <1>4, <1>6, <1>7, PlacedChunks
  <1> QED BY <1>8, <1>9

-----------------------------------------------------------------------------
(* Distribution: the invariant of the calls                                *)

\* A plan for a file.  The layout of its chunks stays what it was when they were cut,
\* the miners of a chunk are known, and the chunks for which enough miners answered
\* have been left behind.
StoreOK(p) ==
  /\ p \in StoreCall
  /\ p.pc \in {"plan", "raised"} =>
       p.chunks = <<>> /\ p.i = 1 /\ p.good = {} /\ p.answered = {} /\ p.enough = {}
  /\ p.pc \in {"ping", "done"} =>
       /\ PlanOf(p.chunks, DOMAIN p.axons, p.length, p.length + Overhead, p.groups)
       /\ p.i \in 1..Len(p.chunks) /\ p.enough \subseteq 1..Len(p.chunks)
       /\ p.good \subseteq p.answered /\ p.good \subseteq DOMAIN p.axons
       /\ p.pc = "ping" => p.enough \subseteq 1..p.i - 1
       /\ \A i \in p.enough : /\ Cardinality(p.chunks[i].uids) = p.r
                              /\ p.chunks[i].uids \subseteq p.answered

\* What a search has found out, up to the pings that are under way.
Thorough(axons, asked, n) ==
  AvailableUids(axons, {}) \subseteq asked \/ Cardinality(asked) >= n

\* A search for miners.
PickOK(p) ==
  /\ p \in PickCall
  /\ p.uids \cup p.good \cup p.failed \subseteq DOMAIN p.axons
  /\ p.pc = "pick" => Thorough(p.axons, p.good \cup p.failed \cup p.uids, p.retries * p.k)
  /\ p.pc = "picked" /\ Cardinality(p.good) < p.k =>
       Thorough(p.axons, p.good \cup p.failed, (MaxRetries - 1) * p.k)

PlanInv == plan = Idle \/ StoreOK(plan) \/ PickOK(plan)

LEMMA KnownUids ==
  ASSUME NEW axons \in Metagraphs
  PROVE  DOMAIN axons \in SUBSET Uids /\ IsFiniteSet(DOMAIN axons) /\ DOMAIN axons \in SUBSET Int
  BY DistributionAssumption DEF Uids

LEMMA AvailableKnown ==
  ASSUME NEW axons, NEW exclude
  PROVE  AvailableUids(axons, exclude) = AvailableUids(axons, {}) \ exclude
         /\ AvailableUids(axons, exclude) \subseteq DOMAIN axons
  BY DEF AvailableUids

\* Miners that are drawn among those not asked yet make a search more thorough.
LEMMA MoreAsked ==
  ASSUME NEW axons \in Metagraphs, NEW k \in Nat, NEW asked \in SUBSET DOMAIN axons,
         NEW n \in Nat, Thorough(axons, asked, n),
         NEW new \in QueryMiners(axons, k, asked)
  PROVE  Thorough(axons, asked \cup ToSet(new), n + k)
  <1>1. PICK all : all = AvailableUids(axons, {})
    OBVIOUS
  <1>2. PICK drawn, size :
          /\ drawn = ToSet(new) /\ size \in Nat
          /\ drawn \subseteq all \ asked /\ IsFiniteSet(drawn) /\ Cardinality(drawn) = size
          /\ size < k => drawn = all \ asked
          /\ size <= k
    <2>1. PICK left : left = AvailableUids(axons, asked) /\ left = all \ asked
      BY <1>1, AvailableKnown
    <2>2. DrawnFrom(new, left, k)
      BY <2>1, DrawnMiners
    <2>3. PICK size \in Nat : size = Len(new)
      BY <2>2 DEF DrawnFrom
    <2>4. PICK drawn : drawn = ToSet(new)
      OBVIOUS
    <2> QED BY <2>1, <2>2, <2>3, <2>4 DEF DrawnFrom
  <1>3. CASE all \subseteq asked
    BY <1>1, <1>3 DEF Thorough
  <1>4. CASE size < k
    <2>1. all \subseteq asked \cup drawn
      BY <1>2, <1>4
    <2> QED BY <1>1, <1>2, <2>1 DEF Thorough
  <1>5. CASE ~ (all \subseteq asked) /\ size = k
    <2>1. IsFiniteSet(asked) /\ Cardinality(asked) \in Nat
      BY KnownUids, FS_Subset, FS_CardinalityType
    <2>2. Cardinality(asked) >= n
      BY <1>1, <1>5 DEF Thorough
    <2>3. asked \cap drawn = {} /\ Cardinality({}) = 0
      BY <1>2, FS_EmptySet
    <2>4. Cardinality(asked \cup drawn)
            = Cardinality(asked) + Cardinality(drawn) - Cardinality(asked \cap drawn)
      BY <1>2, <2>1, FS_Union
    <2>5. Cardinality(asked \cup drawn) >= n + k
      <3>1. PICK m \in Nat : m = Cardinality(asked) /\ m >= n
        BY <2>1, <2>2
      <3>2. Cardinality(asked \cup drawn) = m + k - 0
        BY <1>2, <1>5, <2>3, <2>4, <3>1
      <3> QED BY <3>1, <3>2
    <2> QED BY <1>2, <2>5 DEF Thorough
  <1> QED BY <1>2, <1>3, <1>4, <1>5

LEMMA PickStep == PlanInv /\ Pick => PlanInv'
  <1> SUFFICES ASSUME Pick PROVE PlanInv'
    OBVIOUS
  <1>1. PICK axons \in Metagraphs, k \in Picks : \E exclude \in SUBSET DOMAIN axons :
          \E uids \in QueryMiners(axons, k, exclude) :
            plan' = [pc |-> "pick", axons |-> axons, k |-> k, uids |-> ToSet(uids),
                     good |-> {}, failed |-> {}, retries |-> 0]
    BY DEF Pick
  <1>2. PICK exclude \in SUBSET DOMAIN axons : \E uids \in QueryMiners(axons, k, exclude) :
            plan' = [pc |-> "pick", axons |-> axons, k |-> k, uids |-> ToSet(uids),
                     good |-> {}, failed |-> {}, retries |-> 0]
    BY <1>1
  <1>3. PICK uids \in QueryMiners(axons, k, exclude) :
            plan' = [pc |-> "pick", axons |-> axons, k |-> k, uids |-> ToSet(uids),
                     good |-> {}, failed |-> {}, retries |-> 0]
    BY <1>2
  <1>4. k \in Nat \ {0} /\ MaxRetries \in Nat \ {0}
    BY PlanConstants
  <1>5. PICK drawn : drawn = ToSet(uids)
    OBVIOUS
  <1>6. drawn \in SUBSET DOMAIN axons /\ IsFiniteSet(drawn) /\ Cardinality(drawn) \in Nat
    <2>1. DrawnFrom(uids, AvailableUids(axons, exclude), k)
      BY <1>4, DrawnMiners
    <2> QED BY <1>5, <2>1, AvailableKnown, FS_CardinalityType DEF DrawnFrom
  <1>7. DOMAIN axons \in SUBSET Uids
    BY KnownUids
  <1>8. PICK q : q = [pc |-> "pick", axons |-> axons, k |-> k, uids |-> drawn,
                      good |-> {}, failed |-> {}, retries |-> 0]
    OBVIOUS
  <1>9. q \in PickCall
    BY <1>4, <1>6, <1>7, <1>8 DEF PickCall
  <1>10. Thorough(axons, drawn, 0)
    BY <1>6 DEF Thorough
  <1>11. 0 * k = 0 /\ {} \cup {} \cup drawn = drawn
    BY <1>4
  <1>12. PickOK(q)
    BY <1>6, <1>8, <1>9, <1>10, <1>11 DEF PickOK
  <1>13. plan' = q
    BY <1>3, <1>5, <1>8
  <1> QED BY <1>12, <1>13 DEF PlanInv

LEMMA PlanKinds ==
  /\ Idle.pc = "idle"
  /\ \A p : StoreOK(p) => p.pc \in {"plan", "raised", "ping", "done"}
  /\ \A p : PickOK(p) => p.pc \in {"pick", "picked"}
  <1>1. Idle.pc = "idle"
    BY DEF Idle
  <1>2. \A p : p \in StoreCall => p.pc \in {"plan", "raised", "ping", "done"}
    BY DEF StoreCall
  <1>3. \A p : p \in PickCall => p.pc \in {"pick", "picked"}
    BY DEF PickCall
  <1> QED BY <1>1, <1>2, <1>3 DEF StoreOK, PickOK

\* A search is over: enough miners answered, or this was the last round.
SearchOver(p, good) == Cardinality(good) >= p.k \/ p.retries + 1 = MaxRetries

NextRound(p, good, failed, new) ==
  [p EXCEPT !.good = good, !.failed = failed, !.uids = ToSet(new), !.retries = p.retries + 1]

\* What is known of a search when the answers to a round of pings are in.
Searched(p, good, failed, axons, k, n, asked) ==
  /\ p \in PickCall /\ p.uids \in SUBSET DOMAIN axons
  /\ axons = p.axons /\ k = p.k /\ n = p.retries /\ n < MaxRetries
  /\ asked = good \cup failed
  /\ good \in SUBSET DOMAIN axons /\ failed \in SUBSET DOMAIN axons
  /\ Thorough(axons, asked, n * k) /\ n * k \in Nat

LEMMA SearchedWell ==
  ASSUME NEW p, PickOK(p), p.pc = "pick", NEW up \in SUBSET p.uids,
         NEW good, good = p.good \cup up, NEW failed, failed = p.failed \cup (p.uids \ up)
  PROVE  \E axons \in Metagraphs, k \in Nat \ {0}, n \in Nat :
           \E asked \in SUBSET DOMAIN axons : Searched(p, good, failed, axons, k, n, asked)
  <1>1. /\ p \in PickCall /\ p.axons \in Metagraphs /\ p.k \in Picks
        /\ p.uids \in SUBSET DOMAIN p.axons /\ p.good \in SUBSET DOMAIN p.axons
        /\ p.failed \in SUBSET DOMAIN p.axons /\ p.retries \in 0..MaxRetries - 1
    BY DEF PickOK, PickCall
  <1>2. PICK axons \in Metagraphs, k \in Nat \ {0}, n \in Nat :
          axons = p.axons /\ k = p.k /\ n = p.retries /\ n < MaxRetries
    <2>1. PICK k \in Nat \ {0} : k = p.k
      BY <1>1, PlanConstants
    <2>2. PICK n \in Nat : n = p.retries /\ n < MaxRetries
      BY <1>1, PlanConstants
    <2> QED BY <1>1, <2>1, <2>2
  <1>3. PICK asked \in SUBSET DOMAIN axons :
          asked = good \cup failed /\ asked = p.good \cup p.failed \cup p.uids
    BY <1>1, <1>2
  <1>4. good \in SUBSET DOMAIN axons /\ failed \in SUBSET DOMAIN axons
    BY <1>3
  <1>5. Thorough(axons, asked, n * k) /\ n * k \in Nat
    BY <1>2, <1>3, ProductGrows DEF PickOK
  <1>6. Searched(p, good, failed, axons, k, n, asked)
    BY <1>1, <1>2, <1>3, <1>4, <1>5 DEF Searched
  <1> QED BY <1>6

LEMMA SearchEnds ==
  ASSUME NEW p, PickOK(p), p.pc = "pick", NEW up \in SUBSET p.uids,
         NEW good, good = p.good \cup up, NEW failed, failed = p.failed \cup (p.uids \ up),
         SearchOver(p, good),
         NEW q, q = [p EXCEPT !.good = good, !.failed = failed, !.pc = "picked"]
  PROVE  PickOK(q)
  <1>1. PICK axons \in Metagraphs, k \in Nat \ {0}, m \in Nat :
          \E asked \in SUBSET DOMAIN axons : Searched(p, good, failed, axons, k, m, asked)
    BY SearchedWell
  <1>2. PICK asked \in SUBSET DOMAIN axons : Searched(p, good, failed, axons, k, m, asked)
    BY <1>1
  <1>3. MaxRetries \in Nat \ {0} /\ DOMAIN axons \in SUBSET Uids
    BY PlanConstants, KnownUids
  <1>4. /\ q.pc = "picked" /\ q.axons = axons /\ q.k = k /\ q.good = good /\ q.failed = failed
        /\ q.uids = p.uids
    BY <1>2 DEF PickCall, Searched
  <1>5. q \in PickCall
    BY <1>2, <1>3 DEF PickCall, Searched
  <1>6. ASSUME Cardinality(good) < k PROVE Thorough(axons, asked, (MaxRetries - 1) * k)
    <2>1. IsFiniteSet(good) /\ Cardinality(good) \in Nat
      BY <1>2, KnownUids, FS_Subset, FS_CardinalityType DEF Searched
    <2>2. m = MaxRetries - 1
      BY <1>2, <1>3, <1>6, <2>1 DEF Searched, SearchOver
    <2> QED BY <1>2, <2>2 DEF Searched
  <1> QED BY <1>2, <1>4, <1>5, <1>6 DEF PickOK, Searched

LEMMA SearchGoesOn ==
  ASSUME NEW p, PickOK(p), p.pc = "pick", NEW up \in SUBSET p.uids,
         NEW good, good = p.good \cup up, NEW failed, failed = p.failed \cup (p.uids \ up),
         ~ SearchOver(p, good), NEW new \in QueryMiners(p.axons, p.k, good \cup failed),
         NEW q, q = NextRound(p, good, failed, new)
  PROVE  PickOK(q)
  <1>1. PICK axons \in Metagraphs, k \in Nat \ {0}, m \in Nat :
          \E asked \in SUBSET DOMAIN axons : Searched(p, good, failed, axons, k, m, asked)
    BY SearchedWell
  <1>2. PICK asked \in SUBSET DOMAIN axons : Searched(p, good, failed, axons, k, m, asked)
    BY <1>1
  <1>3. MaxRetries \in Nat \ {0} /\ DOMAIN axons \in SUBSET Uids
    BY PlanConstants, KnownUids
  <1>4. PICK drawn : drawn = ToSet(new)
    OBVIOUS
  <1>5. drawn \in SUBSET DOMAIN axons
    <2>1. DrawnFrom(new, AvailableUids(axons, asked), k)
      BY <1>2, DrawnMiners DEF Searched
    <2> QED BY <1>4, <2>1, AvailableKnown DEF DrawnFrom
  <1>6. /\ q.pc = "pick" /\ q.axons = axons /\ q.k = k /\ q.good = good /\ q.failed = failed
        /\ q.uids = drawn /\ q.retries = m + 1
    BY <1>2, <1>4 DEF PickCall, Searched, NextRound
  <1>7. m + 1 \in 0..MaxRetries - 1
    BY <1>2, <1>3 DEF Searched, SearchOver
  <1>8. q \in PickCall
    BY <1>2, <1>3, <1>4, <1>5, <1>7 DEF PickCall, Searched, NextRound
  <1>9. Thorough(axons, asked \cup drawn, (m + 1) * k)
    <2>1. PICK reached \in Nat : reached = m * k
      BY <1>2 DEF Searched
    <2>2. Thorough(axons, asked \cup drawn, reached + k)
      BY <1>2, <1>4, <2>1, MoreAsked DEF Searched
    <2>3. (m + 1) * k = reached + k
      BY <2>1, NextProduct
    <2> QED BY <2>2, <2>3
  <1>10. q.uids \cup q.good \cup q.failed \subseteq DOMAIN q.axons
    BY <1>2, <1>5, <1>6 DEF Searched
  <1>11. Thorough(q.axons, q.good \cup q.failed \cup q.uids, q.retries * q.k)
    BY <1>2, <1>6, <1>9 DEF Searched
  <1> QED BY <1>6, <1>8, <1>10, <1>11 DEF PickOK

LEMMA PickPingStep == PlanInv /\ PickPing => PlanInv'
  <1> SUFFICES ASSUME PlanInv, PickPing PROVE PlanInv'
    OBVIOUS
  <1>1. PICK p : p = plan
    OBVIOUS
  <1>2. p.pc = "pick" /\ PickOK(p)
    BY <1>1, PlanKinds DEF PickPing, PlanInv
  <1>3. PICK up \in SUBSET plan.uids :
          LET good   == plan.good \cup up
              failed == plan.failed \cup (plan.uids \ up)
              q      == [plan EXCEPT !.good = good, !.failed = failed]
          IN  IF Cardinality(good) >= plan.k \/ plan.retries + 1 = MaxRetries
                THEN plan' = [q EXCEPT !.pc = "picked"]
                ELSE \E new \in QueryMiners(plan.axons, plan.k, good \cup failed) :
                       plan' = [q EXCEPT !.uids = ToSet(new), !.retries = @ + 1]
    BY DEF PickPing
  <1>4. PICK good, failed : good = p.good \cup up /\ failed = p.failed \cup (p.uids \ up)
    OBVIOUS
  <1>5. PICK q, kept : q = plan' /\ kept = [p EXCEPT !.good = good, !.failed = failed]
    OBVIOUS
  <1>6. IF SearchOver(p, good)
          THEN q = [kept EXCEPT !.pc = "picked"]
          ELSE \E new \in QueryMiners(p.axons, p.k, good \cup failed) :
                 q = [kept EXCEPT !.uids = ToSet(new), !.retries = @ + 1]
    BY <1>1, <1>3, <1>4, <1>5 DEF SearchOver
  <1>7. kept.retries = p.retries
    BY <1>2, <1>5 DEF PickOK, PickCall
  <1>8. up \in SUBSET p.uids
    BY <1>1
  <1>9. CASE SearchOver(p, good)
    <2>1. q = [p EXCEPT !.good = good, !.failed = failed, !.pc = "picked"]
      BY <1>5, <1>6, <1>9
    <2>2. PickOK(q)
      BY <1>2, <1>4, <1>8, <1>9, <2>1, SearchEnds
    <2> QED BY <1>5, <2>2 DEF PlanInv
  <1>10. CASE ~ SearchOver(p, good)
    <2>1. PICK new \in QueryMiners(p.axons, p.k, good \cup failed) :
            q = [kept EXCEPT !.uids = ToSet(new), !.retries = @ + 1]
      BY <1>6, <1>10
    <2>2. q = NextRound(p, good, failed, new)
      BY <1>5, <1>7, <2>1 DEF NextRound
    <2>3. PickOK(q)
      BY <1>2, <1>4, <1>8, <1>10, <2>2, SearchGoesOn
    <2> QED BY <1>5, <2>3 DEF PlanInv
  <1> QED BY <1>9, <1>10

LEMMA AskStep == PlanInv /\ Ask => PlanInv'
  <1> SUFFICES ASSUME Ask PROVE PlanInv'
    OBVIOUS
  <1>1. PICK axons \in Metagraphs, length \in Lengths, r \in Redundancy, k \in Picks :
          \E exclude \in SUBSET DOMAIN axons : Begin("plan", axons, length, r, k, exclude)
    BY DEF Ask
  <1>2. PICK exclude \in SUBSET DOMAIN axons : Begin("plan", axons, length, r, k, exclude)
    BY <1>1
  <1>3. PICK q : q = plan'
    OBVIOUS
  <1>4. q = [pc |-> "plan", axons |-> axons, length |-> length, r |-> r, k |-> k,
             exclude |-> exclude, chunks |-> <<>>, groups |-> 0, i |-> 1,
             good |-> {}, retries |-> 0, answered |-> {}, enough |-> {}]
    BY <1>2, <1>3 DEF Begin
  <1>5. q \in StoreCall
    <2>1. 0 \in 0..MaxRetries - 1
      BY PlanConstants
    <2>2. exclude \in SUBSET Uids
      BY KnownUids
    <2> QED BY <1>4, <2>1, <2>2 DEF StoreCall
  <1>6. StoreOK(q)
    BY <1>4, <1>5 DEF StoreOK
  <1> QED BY <1>3, <1>6 DEF PlanInv

LEMMA SeqWider ==
  ASSUME NEW S, NEW T, S \subseteq T, NEW s \in Seq(S)
  PROVE  s \in Seq(T) /\ Len(s) \in Nat
  OBVIOUS

LEMMA PlanStep == PlanInv /\ Plan => PlanInv'
  <1> SUFFICES ASSUME PlanInv, Plan PROVE PlanInv'
    OBVIOUS
  <1>1. PICK p : p = plan
    OBVIOUS
  <1>2. p.pc = "plan" /\ StoreOK(p)
    BY <1>1, PlanKinds DEF Plan, PlanInv
  <1>3. PICK uids \in QueryMiners(p.axons, p.k, p.exclude) :
          LET size  == p.length + Overhead
              chunk == OptimalChunkSize(size, Len(uids), p.r)
          IN  plan' =
                IF chunk = 0 \/ p.r > Len(CompleteGroups(uids, p.r))
                  THEN [p EXCEPT !.pc = "raised"]
                  ELSE [p EXCEPT !.pc = "ping", !.groups = Len(uids) \div p.r,
                          !.chunks = ChunkDistribution(size, chunk, p.r, uids)]
    BY <1>1 DEF Plan
  <1>4. /\ p \in StoreCall /\ p.axons \in Metagraphs
        /\ p.chunks = <<>> /\ p.i = 1 /\ p.good = {} /\ p.answered = {} /\ p.enough = {}
    BY <1>2 DEF StoreOK, StoreCall
  <1>5. PICK length \in Nat, r \in Nat \ {0}, k \in Nat :
          length = p.length /\ r = p.r /\ k = p.k
    <2>1. p.length \in Nat /\ p.r \in Nat \ {0} /\ p.k \in Nat
      BY <1>4, PlanConstants DEF StoreCall
    <2> QED BY <2>1
  <1>6. PICK T \in SUBSET Uids : T = DOMAIN p.axons
    BY <1>4, KnownUids
  <1>7. PICK n \in Nat : n = Len(uids) /\ uids \in Seq(T)
    <2>1. DrawnFrom(uids, AvailableUids(p.axons, p.exclude), k)
      BY <1>3, <1>4, <1>5, DrawnMiners
    <2>2. AvailableUids(p.axons, p.exclude) \subseteq T
      BY <1>6, AvailableKnown
    <2> QED BY <2>1, <2>2 DEF DrawnFrom
  <1>8. PICK size \in Nat : size = length + Overhead
    BY PlanConstants
  <1>9. PICK chunk : chunk = OptimalChunkSize(size, n, r)
    OBVIOUS
  <1>10. PICK g \in Nat : g = n \div r
    BY Division
  <1>11. PICK q : q = plan'
    OBVIOUS
  <1>12. CASE chunk = 0 \/ r > Len(CompleteGroups(uids, r))
    <2>1. q = [p EXCEPT !.pc = "raised"]
      BY <1>3, <1>5, <1>7, <1>8, <1>9, <1>11, <1>12
    <2>2. q \in StoreCall
      BY <1>4, <2>1 DEF StoreCall
    <2>3. /\ q.pc = "raised" /\ q.chunks = <<>> /\ q.i = 1 /\ q.good = {} /\ q.answered = {}
          /\ q.enough = {}
      BY <1>4, <2>1 DEF StoreCall
    <2>4. StoreOK(q)
      BY <2>2, <2>3 DEF StoreOK
    <2> QED BY <1>11, <2>4 DEF PlanInv
  <1>13. CASE ~ (chunk = 0 \/ r > Len(CompleteGroups(uids, r)))
    <2>1. PICK chunks : chunks = ChunkDistribution(size, chunk, r, uids)
      OBVIOUS
    <2>2. PlanOf(chunks, T, length, size, g)
      <3>1. CompleteGroups(uids, r) \in Seq(T)
        BY <1>7, <1>10, Division DEF CompleteGroups
      <3>2. r <= Len(CompleteGroups(uids, r))
        BY <1>13, <3>1
      <3> QED BY <1>7, <1>8, <1>9, <1>10, <1>13, <2>1, <3>2, PlannedChunks
    <2>3. q = [p EXCEPT !.pc = "ping", !.groups = g, !.chunks = chunks]
      BY <1>3, <1>5, <1>7, <1>8, <1>9, <1>10, <1>11, <1>13, <2>1
    <2>4. chunks \in Seq([start : Nat, end : Nat, uids : SUBSET Uids]) /\ Len(chunks) \in Nat \ {0}
      <3>1. ChunkType(T) \subseteq [start : Nat, end : Nat, uids : SUBSET Uids]
        BY DEF ChunkType
      <3>2. chunks \in Seq(ChunkType(T)) /\ Len(chunks) # 0
        BY <2>2 DEF PlanOf
      <3> HIDE DEF ChunkType
      <3> QED BY <3>1, <3>2, SeqWider
    <2>5. q \in StoreCall
      BY <1>4, <2>3, <2>4 DEF StoreCall
    <2>6. /\ q.pc = "ping" /\ q.chunks = chunks /\ q.i = 1 /\ q.good = {} /\ q.answered = {}
          /\ q.enough = {} /\ q.groups = g /\ q.axons = p.axons /\ q.length = length
      BY <1>4, <1>5, <2>3 DEF StoreCall
    <2>7. 1 \in 1..Len(chunks)
      BY <2>4
    <2>8. PlanOf(q.chunks, DOMAIN q.axons, q.length, q.length + Overhead, q.groups)
      BY <1>6, <1>8, <2>2, <2>6
    <2>9. StoreOK(q)
      BY <2>5, <2>6, <2>7, <2>8 DEF StoreOK
    <2> QED BY <1>11, <2>9 DEF PlanInv
  <1> QED BY <1>12, <1>13

\* A chunk gets other miners.
WithUids(chunks, j, uids) == [chunks EXCEPT ![j].uids = uids]

LEMMA OtherMiners ==
  ASSUME NEW T, NEW length, NEW size, NEW g, NEW chunks, PlanOf(chunks, T, length, size, g),
         NEW j \in 1..Len(chunks), NEW uids \in SUBSET T,
         NEW new, new = WithUids(chunks, j, uids)
  PROVE  /\ PlanOf(new, T, length, size, g)
         /\ Len(new) = Len(chunks) /\ new[j].uids = uids
         /\ \A i \in 1..Len(chunks) : i # j => new[i] = chunks[i]
  <1>1. PICK n \in Nat \ {0} : n = Len(chunks) /\ chunks \in [1..n -> ChunkType(T)]
    BY DEF PlanOf
  <1>2. ASSUME NEW i \in 1..n
        PROVE  /\ new[i] \in ChunkType(T)
               /\ new[i].start = chunks[i].start /\ new[i].end = chunks[i].end
               /\ i = j => new[i].uids = uids
               /\ i # j => new[i] = chunks[i]
    <2>1. PICK c \in ChunkType(T) : c = chunks[i]
      BY <1>1
    <2>2. CASE i = j
      <3>1. new[i] = [c EXCEPT !.uids = uids]
        BY <1>1, <2>1, <2>2 DEF WithUids
      <3> QED BY <2>1, <2>2, <3>1 DEF ChunkType
    <2>3. CASE i # j
      <3>1. new[i] = c
        BY <1>1, <2>1, <2>3 DEF WithUids
      <3> QED BY <2>1, <2>3, <3>1
    <2> QED BY <2>2, <2>3
  <1>3. new \in [1..n -> ChunkType(T)]
    BY <1>1, <1>2 DEF WithUids
  <1>4. new \in Seq(ChunkType(T)) /\ Len(new) = n
    BY <1>3, FunctionSeq
  <1>5. n \in 1..n /\ 1 \in 1..n /\ \A i \in 1..n - 1 : i \in 1..n /\ i + 1 \in 1..n
    OBVIOUS
  <1>6. Layout(chunks, length, g) => Layout(new, length, g)
    <2> SUFFICES ASSUME Layout(chunks, length, g) PROVE Layout(new, length, g)
      OBVIOUS
    <2>1. new[1].start = chunks[1].start /\ new[1].end = chunks[1].end
          /\ new[n].end = chunks[n].end
      BY <1>2, <1>5
    <2>2. \A i \in 1..n - 1 : new[i].end = chunks[i].end /\ new[i + 1].start = chunks[i + 1].start
      BY <1>2, <1>5
    <2> QED BY <1>1, <1>4, <2>1, <2>2 DEF Layout
  <1>7. \A i \in 1..n : new[i].start < new[i].end /\ new[i].end <= size
    BY <1>1, <1>2 DEF PlanOf
  <1>8. PlanOf(new, T, length, size, g)
    BY <1>1, <1>4, <1>6, <1>7 DEF PlanOf
  <1> QED BY <1>1, <1>2, <1>4, <1>8

\* The pings of a chunk are over, or about to be repeated.
Pinging(p) ==
  /\ p \in StoreCall /\ p.pc = "ping"
  /\ PlanOf(p.chunks, DOMAIN p.axons, p.length, p.length + Overhead, p.groups)
  /\ p.i \in 1..Len(p.chunks) /\ p.enough \subseteq 1..p.i
  /\ p.good \subseteq p.answered /\ p.good \subseteq DOMAIN p.axons
  /\ \A i \in p.enough : /\ Cardinality(p.chunks[i].uids) = p.r
                         /\ p.chunks[i].uids \subseteq p.answered

LEMMA NextChunkOK ==
  ASSUME NEW p, Pinging(p), NEW n, NEW q,
         q = NextChunk([p EXCEPT !.retries = n]) \/ q = NextChunk(p)
  PROVE  StoreOK(q)
  <1>1. p \in StoreCall /\ p.pc = "ping" /\ p.i \in Nat \ {0}
    BY DEF Pinging, StoreCall
  <1>2. PICK m \in Nat : m = Len(p.chunks)
    BY <1>1 DEF StoreCall
  <1>3. PICK pc, next : /\ pc = (IF p.i = m THEN "done" ELSE "ping")
                        /\ next = (IF p.i = m THEN 1 ELSE p.i + 1)
    OBVIOUS
  <1>4. q = [p EXCEPT !.pc = pc, !.i = next, !.good = {}, !.retries = 0]
    BY <1>1, <1>2, <1>3 DEF NextChunk, StoreCall
  <1>5. next \in 1..m /\ (pc = "ping" => next = p.i + 1) /\ pc \in {"ping", "done"}
    BY <1>1, <1>2, <1>3 DEF Pinging
  <1>6. q \in StoreCall
    <2>1. 0 \in 0..MaxRetries - 1
      BY PlanConstants
    <2>2. next \in Nat \ {0}
      BY <1>2, <1>5
    <2> QED BY <1>1, <1>4, <1>5, <2>1, <2>2 DEF StoreCall
  <1>7. /\ q.pc = pc /\ q.i = next /\ q.good = {} /\ q.chunks = p.chunks /\ q.enough = p.enough
        /\ q.answered = p.answered /\ q.r = p.r /\ q.axons = p.axons /\ q.length = p.length
        /\ q.groups = p.groups
    BY <1>1, <1>4 DEF StoreCall
  <1>8. p.enough \subseteq 1..m /\ (pc = "ping" => p.enough \subseteq 1..next - 1)
    BY <1>1, <1>2, <1>5 DEF Pinging
  <1>9. PlanOf(q.chunks, DOMAIN q.axons, q.length, q.length + Overhead, q.groups)
    BY <1>7 DEF Pinging
  <1>10. \A i \in q.enough : /\ Cardinality(q.chunks[i].uids) = q.r
                             /\ q.chunks[i].uids \subseteq q.answered
    BY <1>7 DEF Pinging
  <1> QED BY <1>2, <1>5, <1>6, <1>7, <1>8, <1>9, <1>10 DEF StoreOK

\* A ping is under way, and its chunk has not been counted yet.
LEMMA PingedPlan ==
  ASSUME NEW p, StoreOK(p), p.pc = "ping", NEW up \in SUBSET p.chunks[p.i].uids
  PROVE  /\ Pinging(p) /\ p.enough \subseteq 1..p.i - 1
         /\ p.good \cup up \in SUBSET DOMAIN p.axons
         /\ p.r \in Nat \ {0} /\ p.axons \in Metagraphs
  <1>1. Pinging(p) /\ p.enough \subseteq 1..p.i - 1
    <2>1. p.i \in Nat /\ p.enough \subseteq 1..p.i - 1 /\ p \in StoreCall
      BY DEF StoreOK, StoreCall
    <2>2. p.enough \subseteq 1..p.i
      BY <2>1
    <2> QED BY <2>1, <2>2 DEF StoreOK, Pinging
  <1>2. p.good \cup up \in SUBSET DOMAIN p.axons
    <2>1. PICK T, n, chunks : T = DOMAIN p.axons /\ n = p.i /\ chunks = p.chunks
      OBVIOUS
    <2>2. chunks \in Seq(ChunkType(T)) /\ n \in 1..Len(chunks)
      BY <1>1, <2>1 DEF Pinging, PlanOf
    <2>3. PICK c \in ChunkType(T) : c = chunks[n]
      BY <2>2
    <2>4. c.uids \in SUBSET T
      BY DEF ChunkType
    <2> QED BY <1>1, <2>1, <2>3, <2>4 DEF Pinging
  <1>3. p.r \in Nat \ {0} /\ p.axons \in Metagraphs
    BY PlanConstants DEF StoreOK, StoreCall
  <1> QED BY <1>1, <1>2, <1>3

\* Other miners for the chunk that is pinged, and what is known of their answers.
LEMMA PingedOthers ==
  ASSUME NEW p, Pinging(p), p.enough \subseteq 1..p.i - 1,
         NEW uids \in SUBSET DOMAIN p.axons, NEW chunks, chunks = WithUids(p.chunks, p.i, uids),
         NEW good \in SUBSET DOMAIN p.axons, NEW answered \in SUBSET Uids,
         good \subseteq answered, p.answered \subseteq answered,
         NEW enough, enough \subseteq p.enough \cup {p.i},
         p.i \in enough => Cardinality(uids) = p.r /\ uids \subseteq answered,
         NEW q, q = [p EXCEPT !.chunks = chunks, !.answered = answered, !.good = good,
                              !.enough = enough]
  PROVE  Pinging(q)
  <1>1. p \in StoreCall /\ p.pc = "ping" /\ p.i \in Nat \ {0} /\ p.axons \in Metagraphs
    BY DEF Pinging, StoreCall
  <1>2. PICK T, j, old, size, g, length :
          T = DOMAIN p.axons /\ j = p.i /\ old = p.chunks /\ length = p.length
          /\ size = p.length + Overhead /\ g = p.groups
    OBVIOUS
  <1>3. PlanOf(old, T, length, size, g) /\ j \in 1..Len(old)
    BY <1>2 DEF Pinging
  <1>4. /\ PlanOf(chunks, T, length, size, g) /\ Len(chunks) = Len(old)
        /\ chunks[j].uids = uids /\ \A i \in 1..Len(old) : i # j => chunks[i] = old[i]
    BY <1>2, <1>3, OtherMiners
  <1>5. T \in SUBSET Uids
    BY <1>1, <1>2, KnownUids
  <1>6. PICK wide : wide = [start : Nat, end : Nat, uids : SUBSET Uids]
    OBVIOUS
  <1>7. chunks \in Seq(wide)
    <2>1. ChunkType(T) \subseteq wide
      BY <1>5, <1>6 DEF ChunkType
    <2>2. chunks \in Seq(ChunkType(T))
      BY <1>4 DEF PlanOf
    <2> QED BY <2>1, <2>2, SeqWider
  <1>8. enough \subseteq 1..j /\ enough \in SUBSET Nat
    BY <1>1, <1>2
  <1>9. q \in StoreCall
    <2>1. good \in SUBSET Uids
      BY <1>2, <1>5
    <2> QED BY <1>1, <1>6, <1>7, <1>8, <2>1 DEF StoreCall
  <1>10. /\ q.pc = "ping" /\ q.i = j /\ q.good = good /\ q.chunks = chunks /\ q.enough = enough
         /\ q.answered = answered /\ q.r = p.r /\ q.axons = p.axons /\ q.length = length
         /\ q.groups = g
    BY <1>1, <1>2 DEF StoreCall
  <1>11. \A i \in enough : Cardinality(chunks[i].uids) = p.r /\ chunks[i].uids \subseteq answered
    <2> TAKE i \in enough
    <2>1. CASE i = j
      BY <1>2, <1>4, <2>1
    <2>2. CASE i # j
      <3>1. i \in p.enough /\ i \in 1..Len(old)
        BY <1>1, <1>2, <1>3, <2>2
      <3>2. chunks[i] = old[i]
        BY <1>4, <2>2, <3>1
      <3>3. Cardinality(old[i].uids) = p.r /\ old[i].uids \subseteq p.answered
        BY <1>2, <3>1 DEF Pinging
      <3> QED BY <3>2, <3>3
    <2> QED BY <2>1, <2>2
  <1>12. PlanOf(q.chunks, DOMAIN q.axons, q.length, q.length + Overhead, q.groups)
    BY <1>2, <1>4, <1>10
  <1> QED BY <1>2, <1>3, <1>4, <1>8, <1>9, <1>10, <1>11, <1>12 DEF Pinging

LEMMA StillPinging ==
  ASSUME NEW m, Pinging(m), m.enough \subseteq 1..m.i - 1, NEW l \in StoreCall,
         l.pc = m.pc, l.i = m.i, l.good = m.good, l.chunks = m.chunks,
         l.enough = m.enough, l.answered = m.answered, l.r = m.r, l.axons = m.axons,
         l.length = m.length, l.groups = m.groups
  PROVE  StoreOK(l)
  <1>1. l.enough \subseteq 1..Len(l.chunks)
    <2>1. Len(m.chunks) \in Nat /\ m.i \in 1..Len(m.chunks)
      BY DEF Pinging, StoreCall
    <2>2. \A n, i \in Nat : i <= n => 1..i - 1 \subseteq 1..n
      OBVIOUS
    <2>3. 1..m.i - 1 \subseteq 1..Len(m.chunks)
      BY <2>1, <2>2
    <2> QED BY <2>3
  <1>2. PlanOf(l.chunks, DOMAIN l.axons, l.length, l.length + Overhead, l.groups)
    BY DEF Pinging
  <1>3. \A i \in l.enough : /\ Cardinality(l.chunks[i].uids) = l.r
                            /\ l.chunks[i].uids \subseteq l.answered
    BY DEF Pinging
  <1>4. l.i \in 1..Len(l.chunks) /\ l.pc = "ping" /\ l.good \subseteq l.answered
        /\ l.good \subseteq DOMAIN l.axons /\ l.enough \subseteq 1..l.i - 1
    BY DEF Pinging
  <1> QED BY <1>1, <1>2, <1>3, <1>4 DEF StoreOK

LEMMA PingChunkStep == PlanInv /\ PingChunk => PlanInv'
  <1> SUFFICES ASSUME PlanInv, PingChunk PROVE PlanInv'
    OBVIOUS
  <1>1. PICK p : p = plan
    OBVIOUS
  <1>2. p.pc = "ping" /\ StoreOK(p)
    BY <1>1, PlanKinds DEF PingChunk, PlanInv
  <1>3. PICK up \in SUBSET p.chunks[p.i].uids :
          LET good     == p.good \cup up
              answered == p.answered \cup up
          IN  IF Cardinality(good) >= p.r
                THEN plan' = NextChunk([p EXCEPT
                       !.chunks[p.i].uids = FirstUids(good, p.r),
                       !.answered = answered, !.enough = @ \cup {p.i}])
                ELSE \E new \in QueryMiners(p.axons, p.r, good) :
                       LET q == [p EXCEPT !.chunks[p.i].uids = ToSet(new),
                                          !.answered = answered,
                                          !.good = good, !.retries = @ + 1]
                       IN  plan' = IF q.retries < MaxRetries THEN q ELSE NextChunk(q)
    BY <1>1 DEF PingChunk
  <1>4. /\ Pinging(p) /\ p.enough \subseteq 1..p.i - 1
        /\ p.good \cup up \in SUBSET DOMAIN p.axons
        /\ p.r \in Nat \ {0} /\ p.axons \in Metagraphs
    BY <1>2, PingedPlan
  <1>5. PICK good, answered, r :
          /\ good = p.good \cup up /\ answered = p.answered \cup up /\ r = p.r
          /\ good \in SUBSET DOMAIN p.axons
    BY <1>4
  <1>a. good \in SUBSET DOMAIN p.axons
    BY <1>5
  <1>6. /\ p \in StoreCall /\ answered \in SUBSET Uids
        /\ good \subseteq answered /\ p.answered \subseteq answered
        /\ p.good \subseteq p.answered /\ p.good \in SUBSET DOMAIN p.axons
    <2>1. p \in StoreCall /\ p.good \subseteq p.answered
      BY <1>4 DEF Pinging
    <2>2. p.answered \in SUBSET Uids
      BY <2>1 DEF StoreCall
    <2>3. DOMAIN p.axons \in SUBSET Uids
      BY <1>4, KnownUids
    <2> QED BY <1>5, <2>1, <2>2, <2>3
  <1>7. PICK q : q = plan'
    OBVIOUS
  <1>8. CASE Cardinality(good) >= r
    <2>1. PICK first : first = FirstUids(good, r)
      OBVIOUS
    <2>2. first \subseteq good /\ Cardinality(first) = r
      <3>1. good \in SUBSET Int /\ IsFiniteSet(good)
        BY <1>4, <1>a, KnownUids, FS_Subset
      <3> QED BY <1>4, <1>5, <1>8, <2>1, <3>1, FirstRight
    <2>3. PICK chunks, enough : chunks = WithUids(p.chunks, p.i, first)
                                /\ enough = p.enough \cup {p.i}
      OBVIOUS
    <2>4. PICK m : m = [p EXCEPT !.chunks = chunks, !.answered = answered, !.good = p.good,
                                 !.enough = enough]
      OBVIOUS
    <2>5. Pinging(m)
      <3>1. first \in SUBSET DOMAIN p.axons /\ first \subseteq answered
            /\ p.good \subseteq answered
        BY <1>6, <1>a, <2>2
      <3> QED BY <1>4, <1>5, <1>6, <2>2, <2>3, <2>4, <3>1, PingedOthers
    <2>6. q = NextChunk([p EXCEPT !.chunks[p.i].uids = first, !.answered = answered,
                                  !.enough = @ \cup {p.i}])
      BY <1>3, <1>5, <1>7, <1>8, <2>1
    <2>7. m = [p EXCEPT !.chunks[p.i].uids = first, !.answered = answered,
                        !.enough = @ \cup {p.i}]
      BY <1>6, <2>3, <2>4 DEF StoreCall, WithUids
    <2>8. StoreOK(q)
      BY <2>5, <2>6, <2>7, NextChunkOK
    <2> QED BY <1>7, <2>8 DEF PlanInv
  <1>9. CASE ~ (Cardinality(good) >= r)
    <2>1. PICK new \in QueryMiners(p.axons, r, good) :
            LET l == [p EXCEPT !.chunks[p.i].uids = ToSet(new), !.answered = answered,
                               !.good = good, !.retries = @ + 1]
            IN  q = IF l.retries < MaxRetries THEN l ELSE NextChunk(l)
      BY <1>3, <1>5, <1>7, <1>9
    <2>2. PICK drawn : drawn = ToSet(new)
      OBVIOUS
    <2>3. drawn \in SUBSET DOMAIN p.axons
      <3>1. DrawnFrom(new, AvailableUids(p.axons, good), r)
        BY <1>4, <1>5, DrawnMiners
      <3> QED BY <2>2, <3>1, AvailableKnown DEF DrawnFrom
    <2>4. PICK chunks, enough : chunks = WithUids(p.chunks, p.i, drawn) /\ enough = p.enough
      OBVIOUS
    <2>5. PICK m : m = [p EXCEPT !.chunks = chunks, !.answered = answered, !.good = good,
                                 !.enough = enough]
      OBVIOUS
    <2>6. Pinging(m) /\ m.enough \subseteq 1..m.i - 1
      <3>1. ~ (p.i \in enough)
        BY <1>4, <1>6, <2>4 DEF StoreCall
      <3>2. Pinging(m)
        BY <1>4, <1>6, <1>a, <2>3, <2>4, <2>5, <3>1, PingedOthers
      <3>3. m.enough = p.enough /\ m.i = p.i
        BY <1>6, <2>4, <2>5 DEF StoreCall
      <3> QED BY <1>4, <3>2, <3>3
    <2>7. PICK n : n = p.retries + 1
      OBVIOUS
    <2>8. PICK l : l = [m EXCEPT !.retries = n]
      OBVIOUS
    <2>9. l = [p EXCEPT !.chunks[p.i].uids = drawn, !.answered = answered,
                        !.good = good, !.retries = @ + 1]
      BY <1>6, <2>4, <2>5, <2>7, <2>8 DEF StoreCall, WithUids
    <2>10. q = IF l.retries < MaxRetries THEN l ELSE NextChunk(l)
      BY <2>1, <2>2, <2>9
    <2>11. CASE q = NextChunk(l)
      <3>1. StoreOK(q)
        BY <2>6, <2>8, <2>11, NextChunkOK
      <3> QED BY <1>7, <3>1 DEF PlanInv
    <2>12. CASE q = l /\ l.retries < MaxRetries
      <3>1. m \in StoreCall
        BY <2>6 DEF Pinging
      <3>2. l.retries = n
        BY <2>8, <3>1 DEF StoreCall
      <3>3. n \in 0..MaxRetries - 1
        <4>1. p.retries \in 0..MaxRetries - 1
          BY <1>6 DEF StoreCall
        <4> QED BY <2>7, <2>12, <3>2, <4>1, PlanConstants
      <3>4. l \in StoreCall
        BY <2>8, <3>1, <3>3 DEF StoreCall
      <3>5. /\ l.pc = m.pc /\ l.i = m.i /\ l.good = m.good /\ l.chunks = m.chunks
            /\ l.enough = m.enough /\ l.answered = m.answered /\ l.r = m.r /\ l.axons = m.axons
            /\ l.length = m.length /\ l.groups = m.groups
        BY <2>8, <3>1 DEF StoreCall
      <3>6. StoreOK(l)
        BY <2>6, <3>4, <3>5, StillPinging
      <3> QED BY <1>7, <2>12, <3>6 DEF PlanInv
    <2> QED BY <2>10, <2>11, <2>12
  <1> QED BY <1>8, <1>9

LEMMA EndCallStep == PlanInv /\ EndCall => PlanInv'
  BY DEF EndCall, PlanInv

LEMMA PlanInvHolds == PlanSpec => []PlanInv
  <1>1. PlanInit => PlanInv
    BY DEF PlanInit, PlanInv
  <1>2. PlanInv /\ [PlanNext]_plan => PlanInv'
    <2>1. ASSUME PlanInv, UNCHANGED plan PROVE PlanInv'
      BY <2>1 DEF PlanInv
    <2> QED
      BY <2>1, AskStep, PlanStep, PingChunkStep, PickStep, PickPingStep, EndCallStep
      DEF PlanNext
  <1> QED BY <1>1, <1>2, PTL DEF PlanSpec

\* A call keeps the types of what it knows, and the chunks lie within the size.
THEOREM PlanTypes == PlanSpec => []PlanTypeOK
  <1>1. PlanInv => PlanTypeOK
    <2> SUFFICES ASSUME NEW p, StoreOK(p)
                 PROVE  /\ p \in StoreCall
                        /\ \A i \in 1..Len(p.chunks) :
                             /\ p.chunks[i].start < p.chunks[i].end
                             /\ p.chunks[i].end <= p.length + Overhead
                        /\ p.enough \subseteq 1..Len(p.chunks)
      BY DEF PlanInv, PlanTypeOK, PickOK, Size
    <2>1. p \in StoreCall
      BY DEF StoreOK
    <2>2. CASE p.pc \in {"plan", "raised"}
      <3>1. p.chunks = <<>> /\ p.enough = {}
        BY <2>2 DEF StoreOK
      <3> QED BY <2>1, <3>1
    <2>3. CASE p.pc \in {"ping", "done"}
      BY <2>1, <2>3 DEF StoreOK, PlanOf
    <2> QED BY <2>2, <2>3, PlanKinds
  <1> QED BY <1>1, PlanInvHolds, PTL

LEMMA PlannedOK ==
  ASSUME PlanInv, Planned
  PROVE  /\ plan \in StoreCall
         /\ PlanOf(plan.chunks, DOMAIN plan.axons, plan.length, plan.length + Overhead,
                   plan.groups)
         /\ \A i \in plan.enough : /\ Cardinality(plan.chunks[i].uids) = plan.r
                                   /\ plan.chunks[i].uids \subseteq plan.answered
  <1>1. plan.pc \in {"ping", "done"}
    BY DEF Planned
  <1>2. StoreOK(plan)
    BY <1>1, PlanKinds DEF PlanInv
  <1> QED BY <1>1, <1>2 DEF StoreOK

\* The chunks of every plan lie one after the other from the first byte on, and reach the
\* end of a file that fits in its groups of miners, whatever the sizes of chunks, the
\* metagraph and the answers to the pings.
THEOREM ChunksCoverFile == PlanSpec => []PlanCovers
  <1>1. PlanInv => PlanCovers
    <2> SUFFICES ASSUME PlanInv, Planned
                 PROVE  LET last == Last(plan.chunks)
                        IN  /\ plan.chunks[1].start = 0
                            /\ \A i \in 1..Len(plan.chunks) - 1 :
                                 plan.chunks[i].end = plan.chunks[i + 1].start
                            /\ Size <= plan.groups * MaxChunk /\ plan.groups <= Overhead + 1
                                 => last.end >= plan.length
                            /\ Size - last.end < plan.chunks[1].end
      BY DEF PlanCovers
    <2>1. Layout(plan.chunks, plan.length, plan.groups)
      BY PlannedOK DEF PlanOf
    <2> QED BY <2>1 DEF Layout, Last, Size
  <1> QED BY <1>1, PlanInvHolds, PTL

\* A chunk that enough miners answered for gets as many miners as were asked for, all of
\* them among those that answered.
THEOREM PingedHaveAnswered == PlanSpec => []PingedAnswered
  <1>1. PlanInv => PingedAnswered
    BY PlannedOK DEF PingedAnswered
  <1> QED BY <1>1, PlanInvHolds, PTL

\* A search gives up only after it asked every available miner, or k new miners in each
\* round but the first.
THEOREM PicksAreThorough == PlanSpec => []PickThorough
  <1>1. PlanInv => PickThorough
    <2> SUFFICES ASSUME PlanInv, plan.pc = "picked", Cardinality(plan.good) < plan.k
                 PROVE  Thorough(plan.axons, plan.good \cup plan.failed,
                                 (MaxRetries - 1) * plan.k)
      BY DEF PickThorough, Thorough
    <2>1. PickOK(plan)
      BY PlanKinds DEF PlanInv
    <2> QED BY <2>1 DEF PickOK
  <1> QED BY <1>1, PlanInvHolds, PTL

-----------------------------------------------------------------------------
(* The components together                                                 *)

\* What one component at a time does is what each of them does by itself: the specification
\* of MCSequential implements those of its five components.
THEOREM OneAtATime == Spec => PlanSpec /\ TreeSpec /\ RewSpec /\ GateSpec /\ ClientSpec
  <1>1. Init => PlanInit /\ TreeInit /\ RewInit /\ GateInit /\ ClientInit
    BY DEF Init
  <1>2. [Next]_vars => [PlanNext]_plan
    BY DEF Next, vars
  <1>3. [Next]_vars => [TreeNext]_tree
    BY DEF Next, vars
  <1>4. [Next]_vars => [RewNext]_rew
    BY DEF Next, vars
  <1>5. [Next]_vars => [GateNext]_gate
    BY DEF Next, vars
  <1>6. [Next]_vars => [ClientNext]_client
    BY DEF Next, vars
  <1> QED BY <1>1, <1>2, <1>3, <1>4, <1>5, <1>6, PTL
          DEF Spec, PlanSpec, TreeSpec, RewSpec, GateSpec, ClientSpec

\* The plans of chunks, the tree, the scores, the limits on rates and the processes of a
\* user have their types at the same time.
THEOREM SequentialTypes == Spec => []TypeOK
  <1>1. PlanTypeOK /\ TreeTypeOK /\ RewTypeOK /\ GateTypeOK /\ ClientTypeOK => TypeOK
    BY DEF TypeOK
  <1> QED BY <1>1, OneAtATime, PlanTypes, TreeTypes, RewardTypes, GateTypes, ClientTypes, PTL
=============================================================================
