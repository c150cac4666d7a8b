------------------------------ MODULE Admission ------------------------------
(***************************************************************************)
(* Who may call a miner (the blacklist and priority functions of           *)
(* neurons/miner.py and RateLimiter) and an API node (neurons/api.py).     *)
(*                                                                         *)
(* The axon calls the blacklist function of a request, then its priority   *)
(* function, then the handler; other requests come in between.  The miner  *)
(* reads the metagraph when it starts, the API node in a loop of its own.  *)
(***************************************************************************)
EXTENDS Integers, Sequences, FiniteSets, SequencesExt, FiniteSetsExt

CONSTANTS
  Caller,
  Hotkeys,                     \* callers that may be registered
  Blacklist, Whitelist,        \* of the miner
  MaxRequests,                 \* max_requests_per_window
  TimeWindow,                  \* rate_limit_window, as RateLimiter takes it: in seconds
  ApiBlacklist, ApiWhitelist,
  OpenAccess,
  MaxNow                       \* bound: the clock (time.time), in seconds

\* What becomes of a request.
Outcomes == {"none", "refused", "admitted", "raised", "api raised", "served"}

ASSUME AdmissionAssumption ==
  /\ Caller \cap Outcomes = {}
  /\ Hotkeys \cup Blacklist \cup Whitelist \cup ApiBlacklist \cup ApiWhitelist \subseteq Caller
  /\ MaxRequests \in Nat \ {0} /\ TimeWindow \in Nat /\ MaxNow \in Nat
  /\ OpenAccess \in BOOLEAN

VARIABLE gate

Requests == {"store", "retrieve", "delete"}
NoTimes == [c \in Caller |-> <<>>]
NobodyWaits == [c \in Caller |-> "no"]

-----------------------------------------------------------------------------
(* Miner                                                                   *)

\* A bug: requests at the edge of the window are dropped.
InWindow_Edge(requests, now) ==
  LET recent == {i \in 1..Len(requests) : now - requests[i] < TimeWindow}
  IN  IF recent = {} THEN <<>> ELSE SubSeq(requests, Min(recent), Len(requests))

\* RateLimiter.is_allowed, first part: requests are taken out on the left up to the
\* first that is in the window.
InWindow(requests, now) ==
  LET recent == {i \in 1..Len(requests) : now - requests[i] <= TimeWindow}
  IN  IF recent = {} THEN <<>> ELSE SubSeq(requests, Min(recent), Len(requests))

StartMiner ==
  /\ gate.miner = "off"
  /\ gate' = [gate EXCEPT !.miner = "axon", !.metagraph = gate.chain]

\* The axon serves before __init__ has made the rate limiters.
EndInit ==
  /\ gate.miner = "axon"
  /\ gate' = [gate EXCEPT !.miner = "on", !.limiters = NoTimes, !.let = NoTimes]

\* Rate limiters are in memory only.
StopMiner ==
  /\ gate.miner # "off"
  /\ gate' = [gate EXCEPT !.miner = "off", !.waits = NobodyWaits,
                          !.limiters = NoTimes, !.let = NoTimes, !.last = "none"]

\* RateLimiter.is_allowed.
RateLimit(caller) ==
  LET recent == InWindow(gate.limiters[caller], gate.now)
  IN  IF Len(recent) < MaxRequests
        THEN [allowed |-> TRUE, requests |-> Append(recent, gate.now)]
        ELSE [allowed |-> FALSE, requests |-> recent]

\* store_blacklist_fn, challenge_blacklist_fn and retrieve_blacklist_fn.
Blacklisted(caller) ==
  /\ gate.miner # "off"
  /\ gate.waits[caller] = "no"
  /\ CASE caller \in Blacklist -> gate' = [gate EXCEPT !.last = "refused"]
       [] caller \in Whitelist \ Blacklist ->
            gate' = [gate EXCEPT !.waits[caller] = "miner", !.last = "admitted"]
       [] OTHER ->
            IF gate.miner = "axon" THEN gate' = [gate EXCEPT !.last = "raised"]
            ELSE LET limit == RateLimit(caller)
                     known == caller \in gate.metagraph
                 IN  gate' = [gate EXCEPT
                       !.limiters[caller] = limit.requests,
                       !.let[caller]   = IF limit.allowed THEN Append(@, gate.now) ELSE @,
                       !.waits[caller] = IF limit.allowed /\ known THEN "miner" ELSE "no",
                       !.last = IF ~ limit.allowed THEN caller
                                ELSE IF known THEN "admitted" ELSE "refused"]

\* store_priority_fn, challenge_priority_fn and retrieve_priority_fn: hotkeys.index
\* raises for a caller on the whitelist that is not in the metagraph.
Priority(caller) ==
  /\ gate.waits[caller] = "miner"
  /\ gate' = [gate EXCEPT !.waits[caller] = "no",
                          !.last = IF caller \in gate.metagraph THEN "served" ELSE "raised"]

-----------------------------------------------------------------------------
(* API node                                                                *)

\* store_blacklist, retrieve_blacklist, delete_blacklist: only the first looks at the
\* blacklist.
ApiRefuses(request, caller) ==
  /\ ~ OpenAccess
  /\ \/ request = "store" /\ caller \in ApiBlacklist
     \/ caller \notin ApiWhitelist

ApiAsk(request, caller) ==
  /\ gate.waits[caller] = "no"
  /\ gate' = [gate EXCEPT
       !.waits[caller] = IF ApiRefuses(request, caller) THEN "no" ELSE "api",
       !.last = IF ApiRefuses(request, caller) THEN "refused" ELSE "admitted"]

\* store_priority, retrieve_priority, delete_priority return.
ApiHasPriority(caller) ==
  OpenAccess \/ caller \in ApiWhitelist \/ caller \in gate.apiMetagraph

ApiPriority(caller) ==
  /\ gate.waits[caller] = "api"
  /\ gate' = [gate EXCEPT !.waits[caller] = "no",
                          !.last = IF ApiHasPriority(caller) THEN "served" ELSE "api raised"]

\* A round of run; an exception ends the loop.
ApiRefresh ==
  /\ gate.apiLoop
  /\ \/ gate.apiMetagraph # gate.chain
        /\ gate' = [gate EXCEPT !.apiMetagraph = gate.chain, !.last = "none"]
     \/ gate' = [gate EXCEPT !.apiLoop = FALSE, !.last = "none"]

-----------------------------------------------------------------------------
(* Environment                                                             *)

\* A hotkey is registered on the chain, or replaced.
ChangeChain ==
  \E caller \in Hotkeys :
    gate' = [gate EXCEPT !.last = "none",
               !.chain = IF caller \in @ THEN @ \ {caller} ELSE @ \cup {caller}]

PassTime ==
  /\ gate.now < MaxNow
  /\ gate' = [gate EXCEPT !.now = @ + 1, !.last = "none"]

-----------------------------------------------------------------------------
(* Specification                                                           *)

GateInit ==
  gate = [miner |-> "off", now |-> 0, chain |-> {}, metagraph |-> {}, apiMetagraph |-> {},
          apiLoop |-> TRUE, limiters |-> NoTimes, waits |-> NobodyWaits,
          let  |-> NoTimes,   \* history: when the limiter let a request pass
          last |-> "none"]    \* history: what became of the last request, or who was limited

GateNext ==
  \/ StartMiner \/ EndInit \/ StopMiner \/ ApiRefresh \/ ChangeChain \/ PassTime
  \/ \E caller \in Caller :
       \/ Blacklisted(caller) \/ Priority(caller) \/ ApiPriority(caller)
       \/ \E request \in Requests : ApiAsk(request, caller)

GateSpec == GateInit /\ [][GateNext]_gate

-----------------------------------------------------------------------------
(* Properties                                                              *)

Times == Seq(0..MaxNow)

Gate ==
  [miner : {"off", "axon", "on"}, now : 0..MaxNow, apiLoop : BOOLEAN,
   chain : SUBSET Caller, metagraph : SUBSET Caller, apiMetagraph : SUBSET Caller,
   limiters : [Caller -> Times], waits : [Caller -> {"no", "miner", "api"}],
   let : [Caller -> Times], last : Outcomes \cup Caller]

GateTypeOK ==
  /\ gate \in Gate
  /\ \A c \in Caller : Len(gate.limiters[c]) <= MaxRequests

\* RateLimiter lets exactly the right requests pass: a caller has at most MaxRequests
\* in any TimeWindow seconds, wherever they start, and who is refused has had that many
\* in the last TimeWindow seconds: refused requests, those at its edge and those of other
\* callers do not count.  In seconds, not blocks: config.py:140 calls the window one of
\* blocks, and miner.py:371 tells the caller so, but utils.py:333 subtracts time.time().
LetBetween(c, start, end) ==
  Cardinality({i \in 1..Len(gate.let[c]) : start <= gate.let[c][i] /\ gate.let[c][i] <= end})

RateExact ==
  \A c \in Caller :
    /\ \A start \in 0..MaxNow : LetBetween(c, start, start + TimeWindow) <= MaxRequests
    /\ gate.last = c => LetBetween(c, gate.now - TimeWindow, gate.now) = MaxRequests
=============================================================================
