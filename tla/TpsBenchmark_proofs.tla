------------------------ MODULE TpsBenchmark_proofs ------------------------
(***************************************************************************)
(* Proofs about the throughput benchmark (TpsBenchmark), for every limit,  *)
(* every pair of rate factors and any number of unread blocks.             *)
(***************************************************************************)
EXTENDS TpsBenchmark, FiniteSetTheorems, TLAPS

(* Requests.                                                               *)

Statuses == {"unsent", "queued", "active", "witnessed", "dropped"}

(* The counters behind the batches.                                        *)
BatchInv ==
  /\ status \in [Numbers -> Statuses]
  /\ sent \in 0..Limit
  /\ rate \in Nat /\ factors \in Factors
  /\ BatchesCoverSent

(* Truncated products and quotients are numbers, and not zero as long as   *)
(* the exact ones are at least 1.                                          *)
LEMMA Truncation ==
  ASSUME NEW n \in Nat, NEW f \in Ratio
  PROVE  /\ Times(n, f) \in Nat /\ Over(n, f) \in Nat
         /\ n * f.num >= f.den => Times(n, f) > 0
         /\ n * f.den >= f.num => Over(n, f) > 0
<1>1. f.num \in Nat \ {0} /\ f.den \in Nat \ {0}
  BY DEF Ratio
<1>2. n * f.num \in Nat /\ n * f.den \in Nat
  BY <1>1
<1>3. ASSUME NEW x \in Nat, NEW y \in Nat \ {0}
      PROVE  x \div y \in Nat /\ (x >= y => x \div y > 0)
  BY <1>3
<1> QED
  BY <1>1, <1>2, <1>3 DEF Times, Over

(* Whatever the control loop finds, events_per_block stays a number, and   *)
(* with factors that sustain it it does not become zero: a rate is slowed  *)
(* down only from 2 on.                                                    *)
LEMMA NextRateType ==
  ASSUME rate \in Nat, factors \in Factors, NEW unprocessed, NEW blocks
  PROVE  /\ NextRate(unprocessed, blocks) \in Nat
         /\ Sustained(factors) /\ rate > 0 => NextRate(unprocessed, blocks) > 0
<1> DEFINE up == factors.increase
           down == factors.decrease
<1>1. up \in Ratio /\ down \in Ratio
  BY BenchmarkAssumption
<1>2. /\ up.num \in Nat \ {0} /\ up.den \in Nat \ {0}
      /\ down.num \in Nat \ {0} /\ down.den \in Nat \ {0}
  BY <1>1 DEF Ratio
<1>3. Times(rate, up) \in Nat /\ Over(rate, down) \in Nat
  BY <1>1, Truncation
<1>4. ASSUME Sustained(factors), rate > 0
      PROVE  Times(rate, up) > 0
  <2>1. up.num >= up.den
    BY <1>4 DEF Sustained
  <2>2. rate * up.num >= up.num
    BY <1>2, <1>4
  <2>3. rate * up.num >= up.den
    <3>1. rate * up.num \in Nat
      BY <1>2
    <3> QED BY <1>2, <2>1, <2>2, <3>1
  <2> QED
    BY <1>1, <2>3, Truncation
<1>5. ASSUME Sustained(factors), rate > 1
      PROVE  Over(rate, down) > 0
  <2>1. down.num <= 2 * down.den
    BY <1>5 DEF Sustained
  <2>2. rate * down.den >= 2 * down.den
    BY <1>2, <1>5
  <2>3. rate * down.den >= down.num
    <3>1. rate * down.den \in Nat
      BY <1>2
    <3> QED BY <1>2, <2>1, <2>2, <3>1
  <2> QED
    BY <1>1, <2>3, Truncation
<1> QED
  BY <1>3, <1>4, <1>5 DEF NextRate

(* A batch starts where the last one ended and stays within the limit.     *)
LEMMA SendStep ==
  ASSUME BatchInv, NEW next \in Nat, SendEvents(sent, Least(sent + next, Limit)),
         sent' = Least(sent + next, Limit)
  PROVE  /\ status' \in [Numbers -> Statuses]
         /\ sent' \in 0..Limit /\ sent <= sent'
         /\ BatchesCoverSent'
         /\ \A i \in Numbers : i <= sent => status'[i] = status[i]
<1>1. Limit \in Nat /\ sent \in 0..Limit
  BY BenchmarkAssumption DEF BatchInv
<1>2. sent' \in 0..Limit /\ sent <= sent'
  BY <1>1 DEF Least
<1>3. status' = [i \in Numbers |-> IF i \in sent + 1..sent' THEN "queued" ELSE status[i]]
  BY DEF SendEvents
<1>4. status' \in [Numbers -> Statuses]
  BY <1>3 DEF BatchInv, Statuses
<1>5. ASSUME NEW i \in Numbers
      PROVE  (status'[i] = "unsent") <=> (i > sent')
  <2>1. i \in Nat /\ ((status[i] = "unsent") <=> (i > sent))
    BY <1>1 DEF BatchInv, BatchesCoverSent, Numbers
  <2>2. CASE i \in sent + 1..sent'
    BY <1>1, <1>2, <1>3, <2>1, <2>2
  <2>3. CASE i \notin sent + 1..sent'
    BY <1>1, <1>2, <1>3, <2>1, <2>3
  <2> QED
    BY <2>2, <2>3
<1>6. ASSUME NEW i \in Numbers, i <= sent
      PROVE  status'[i] = status[i]
  BY <1>1, <1>2, <1>3, <1>6 DEF Numbers
<1> QED
  BY <1>2, <1>4, <1>5, <1>6 DEF BatchesCoverSent

(* A request that was made is not made again.                              *)
GoesOn(i) ==
  /\ status[i] \in {"witnessed", "dropped"} => status'[i] = status[i]
  /\ status[i] = "active" => status'[i] \in {"active", "witnessed", "dropped"}

(* What a step can do to the requests: send a batch above sent_events,     *)
(* move requests that were sent on, or neither.                            *)
LEMMA RequestStep ==
  ASSUME BatchInv, [Next]_vars
  PROVE  /\ BatchInv'
         /\ sent <= sent'
         /\ \A i \in Numbers : GoesOn(i)
<1>1. Limit \in Nat /\ sent \in 0..Limit
  BY BenchmarkAssumption DEF BatchInv
<1>2. CASE UNCHANGED <<status, sent, rate, factors>>
  BY <1>1, <1>2 DEF BatchInv, BatchesCoverSent, GoesOn
<1>3. CASE HandleResponse
  <2> USE DEF given
  <2>1. CASE UNCHANGED <<status, sent, rate, factors>>
    BY <1>2, <2>1
  <2>2. ASSUME NEW next \in Nat, rate' = next, SendEvents(sent, Least(sent + next, Limit)),
               sent' = Least(sent + next, Limit)
        PROVE  /\ BatchInv'
               /\ sent <= sent'
               /\ \A i \in Numbers : GoesOn(i)
    <3>1. BatchInv' /\ sent <= sent'
      BY <1>3, <2>2, SendStep DEF BatchInv, HandleResponse
    <3>2. ASSUME NEW i \in Numbers, status[i] # "unsent"
          PROVE  status'[i] = status[i]
      <4>1. i <= sent
        BY <1>1, <3>2 DEF BatchInv, BatchesCoverSent, Numbers
      <4> QED
        BY <2>2, <4>1, SendStep
    <3> QED
      BY <3>1, <3>2 DEF GoesOn
  <2> DEFINE total == received + Cardinality(Head(unread))
             next == NextRate((sent - total) % U32, Least(numBlocks + 1, Limit))
  <2>3. next \in Nat
    BY NextRateType DEF BatchInv
  <2>4. \/ UNCHANGED <<status, sent, rate, factors>>
        \/ /\ rate' = next
           /\ SendEvents(sent, Least(sent + next, Limit))
           /\ sent' = Least(sent + next, Limit)
    BY <1>3 DEF HandleResponse
  <2> HIDE DEF next
  <2> QED
    BY <2>1, <2>2, <2>3, <2>4
<1>4. ASSUME NEW i \in Numbers, StartRequest(i) \/ EndRequest(i) \/ RequestFails(i)
      PROVE  /\ BatchInv'
             /\ sent <= sent'
             /\ \A j \in Numbers : GoesOn(j)
  <2>1. sent' = sent /\ rate' = rate /\ factors' = factors
    BY <1>4 DEF StartRequest, EndRequest, RequestFails, counters, given
  <2>2. \/ status' = [status EXCEPT ![i] = "active"] /\ status[i] = "queued"
        \/ status' = [status EXCEPT ![i] = "witnessed"] /\ status[i] = "active"
        \/ /\ status[i] = "active"
           /\ status' = [j \in Numbers |->
                           IF j = i \/ (batch[j] = batch[i] /\ status[j] = "queued")
                             THEN "dropped" ELSE status[j]]
    BY <1>4, Zenon DEF StartRequest, EndRequest, RequestFails
  <2>3. status' \in [Numbers -> Statuses]
    BY <2>2 DEF BatchInv, Statuses
  <2>4. \A j \in Numbers : /\ (status'[j] = "unsent") <=> (status[j] = "unsent")
                           /\ GoesOn(j)
    BY <2>2 DEF BatchInv, GoesOn
  <2> QED
    BY <1>1, <2>1, <2>3, <2>4 DEF BatchInv, BatchesCoverSent
<1>5. CASE \/ Connect \/ WaitValidators \/ OpenStream \/ OthersWitness
           \/ \E evs \in SUBSET Includable : FinalizeBlock(evs)
           \/ UNCHANGED vars
  BY <1>2, <1>5 DEF Connect, WaitValidators, OpenStream, OthersWitness, FinalizeBlock,
                    vars, clientVars, counters, given
<1> QED
  BY <1>3, <1>4, <1>5 DEF Next

(* The batches cover 1..sent_events without gaps, over any number of       *)
(* rounds of the control loop and whatever the rate becomes.               *)
LEMMA BatchInvariant == Spec => []BatchInv
<1>1. Init => BatchInv
  <2> SUFFICES ASSUME Init PROVE BatchInv
    OBVIOUS
  <2>1. Limit \in Nat
    BY BenchmarkAssumption
  <2> QED
    BY <2>1 DEF Init, BatchInv, BatchesCoverSent, Statuses, Numbers
<1>2. BatchInv /\ [Next]_vars => BatchInv'
  BY RequestStep
<1> QED
  BY <1>1, <1>2, PTL DEF Spec

(* send_events is called for every event up to sent_events and for none    *)
(* above it, whatever events_per_block becomes.                            *)
THEOREM BatchesCover == Spec => []BatchesCoverSent
<1>1. BatchInv => BatchesCoverSent
  BY DEF BatchInv
<1> QED
  BY <1>1, BatchInvariant, PTL

(* No request is made twice, although send_events runs for several batches *)
(* at a time.                                                              *)
THEOREM NoRequestTwice == Spec => RequestsMadeOnce
<1> DEFINE Once == \A i \in Numbers :
                     /\ status[i] \in {"witnessed", "dropped"} => status'[i] = status[i]
                     /\ status[i] = "active" =>
                          status'[i] \in {"active", "witnessed", "dropped"}
<1>1. BatchInv /\ [Next]_vars => [Once]_vars
  BY RequestStep DEF GoesOn
<1> QED
  BY <1>1, BatchInvariant, PTL DEF Spec, RequestsMadeOnce

(* With an increase factor of at least 1 and a decrease factor of at most  *)
(* 2, and whatever the difference of the counters wraps to, the rate never *)
(* falls to zero.                                                          *)
THEOREM RateStaysUp == Spec => []RateSurvives
<1>1. Init => RateSurvives
  BY DEF Init, RateSurvives
<1>2. ASSUME BatchInv, RateSurvives, [Next]_vars
      PROVE  RateSurvives'
  <2>1. CASE UNCHANGED <<rate, factors>>
    BY <1>2, <2>1 DEF RateSurvives
  <2>2. CASE HandleResponse
    <3> DEFINE total == received + Cardinality(Head(unread))
               next == NextRate((sent - total) % U32, Least(numBlocks + 1, Limit))
    <3>1. factors' = factors /\ (rate' = rate \/ rate' = next)
      <4>1. factors' = factors
        BY <2>2 DEF HandleResponse, given
      <4>2. rate' = rate \/ rate' = next
        BY <2>2 DEF HandleResponse
      <4> QED BY <4>1, <4>2
    <3>2. Sustained(factors) /\ rate > 0 => next > 0
      <4>1. rate \in Nat /\ factors \in Factors
        BY <1>2 DEF BatchInv
      <4> QED
        BY <4>1, NextRateType, Zenon
    <3> HIDE DEF next
    <3> QED
      BY <1>2, <3>1, <3>2 DEF RateSurvives
  <2>3. CASE \/ Connect \/ WaitValidators \/ OpenStream \/ OthersWitness
             \/ \E i \in Numbers : StartRequest(i) \/ EndRequest(i) \/ RequestFails(i)
             \/ \E evs \in SUBSET Includable : FinalizeBlock(evs)
             \/ UNCHANGED vars
    BY <2>1, <2>3, Zenon DEF Connect, WaitValidators, OpenStream, OthersWitness, StartRequest,
                             EndRequest, RequestFails, FinalizeBlock, vars, clientVars,
                             counters, given
  <2> QED
    BY <1>2, <2>2, <2>3 DEF Next
<1> QED
  BY <1>1, <1>2, BatchInvariant, PTL DEF Spec
-----------------------------------------------------------------------------
(* Responses.                                                              *)

Preparing == {"connect", "wait", "open"}

(* No event is in two of the blocks still to come, nor in one of them and  *)
(* in a response: received_events counts the events received.              *)
ReceivedInv ==
  /\ final \subseteq 0..Limit
  /\ got \subseteq final
  /\ received = Cardinality(got)
  /\ unread \in Seq(SUBSET (0..Limit))
  /\ pc \in Preparing => Len(unread) # 0
  /\ \A i \in 1..Len(unread) : unread[i] \subseteq final /\ unread[i] \cap got = {}
  /\ \A i, j \in 1..Len(unread) : i # j => unread[i] \cap unread[j] = {}

(* What the program has found out when it ends, and whose events they are. *)
EndInv ==
  /\ pc = "done" => Limit <= Cardinality(got)
  /\ pc = "panic" => sent < Cardinality(got)
  /\ others \in Nat
  /\ others = 0 => \A e \in final \ {0} : e <= sent

(* There are Limit + 1 events, event 0 included.                           *)
LEMMA EventsFinite ==
  /\ IsFiniteSet(0..Limit)
  /\ Cardinality(0..Limit) = Limit + 1
  /\ \A S \in SUBSET (0..Limit) : IsFiniteSet(S) /\ Cardinality(S) \in Nat
<1>1. Limit \in Nat
  BY BenchmarkAssumption
<1>2. IsFiniteSet(0..Limit) /\ Cardinality(0..Limit) = Limit + 1
  BY <1>1, FS_Interval
<1> QED
  BY <1>2, FS_Subset, FS_CardinalityType, Zenon

(* Nothing in a response was in one before.                                *)
LEMMA ResponseCounted ==
  ASSUME ReceivedInv, HandleResponse
  PROVE  /\ received' = Cardinality(got')
         /\ got' = got \cup Head(unread)
<1>1. unread # <<>> /\ got' = got \cup Head(unread)
      /\ received' = received + Cardinality(Head(unread))
  BY DEF HandleResponse
<1>2. 1 \in 1..Len(unread) /\ Head(unread) = unread[1]
  BY <1>1 DEF ReceivedInv
<1>3. /\ Head(unread) \in SUBSET (0..Limit) /\ got \in SUBSET (0..Limit)
      /\ got \cap Head(unread) = {}
  BY <1>2 DEF ReceivedInv
<1>4. /\ IsFiniteSet(got) /\ IsFiniteSet(Head(unread))
      /\ Cardinality(got) \in Nat /\ Cardinality(Head(unread)) \in Nat
  BY <1>3, EventsFinite
<1>5. Cardinality(got \cup Head(unread)) =
        Cardinality(got) + Cardinality(Head(unread)) - Cardinality(got \cap Head(unread))
  BY <1>4, FS_Union
<1>6. Cardinality(got \cap Head(unread)) = 0
  BY <1>3, FS_EmptySet
<1> QED
  BY <1>1, <1>4, <1>5, <1>6 DEF ReceivedInv

(* Every step keeps the blocks apart, also the one that opens the stream.  *)
LEMMA ReceivedStep ==
  ASSUME ReceivedInv, [Next]_vars
  PROVE  ReceivedInv'
<1>1. CASE HandleResponse
  <2>1. /\ unread # <<>> /\ unread' = Tail(unread)
        /\ pc' \in {"run", "panic", "done"} /\ final' = final
    BY <1>1 DEF HandleResponse
  <2>2. /\ unread' \in Seq(SUBSET (0..Limit)) /\ Len(unread') = Len(unread) - 1
        /\ \A i \in 1..Len(unread') : i + 1 \in 1..Len(unread) /\ unread'[i] = unread[i + 1]
        /\ 1 \in 1..Len(unread) /\ Head(unread) = unread[1]
    BY <2>1 DEF ReceivedInv
  <2>3. received' = Cardinality(got') /\ got' = got \cup unread[1]
    BY <1>1, <2>2, ResponseCounted
  <2>4. ASSUME NEW i \in 1..Len(unread')
        PROVE  unread'[i] \subseteq final /\ unread'[i] \cap got' = {}
    <3>1. i + 1 \in 1..Len(unread) /\ i + 1 # 1 /\ unread'[i] = unread[i + 1]
      BY <2>2
    <3>2. unread[i + 1] \cap unread[1] = {}
      BY <2>2, <3>1 DEF ReceivedInv
    <3>3. unread[i + 1] \subseteq final /\ unread[i + 1] \cap got = {}
      BY <3>1 DEF ReceivedInv
    <3> QED
      BY <2>3, <3>1, <3>2, <3>3
  <2>5. ASSUME NEW i \in 1..Len(unread'), NEW j \in 1..Len(unread'), i # j
        PROVE  unread'[i] \cap unread'[j] = {}
    <3>1. /\ i + 1 \in 1..Len(unread) /\ j + 1 \in 1..Len(unread) /\ i + 1 # j + 1
          /\ unread'[i] = unread[i + 1] /\ unread'[j] = unread[j + 1]
      BY <2>2, <2>5
    <3> QED
      BY <3>1 DEF ReceivedInv
  <2>6. final' \subseteq 0..Limit /\ got' \subseteq final'
    BY <2>1, <2>2, <2>3, Zenon DEF ReceivedInv
  <2>7. pc' \notin Preparing
    BY <2>1 DEF Preparing
  <2> QED
    BY <2>1, <2>2, <2>3, <2>4, <2>5, <2>6, <2>7 DEF ReceivedInv
<1>2. ASSUME NEW evs \in SUBSET Includable, FinalizeBlock(evs)
      PROVE  ReceivedInv'
  <2>1. /\ evs \cap final = {} /\ final' = final \cup evs
        /\ UNCHANGED <<pc, received, got>>
    BY <1>2 DEF FinalizeBlock, Includable, clientVars, counters, given
  <2> evs \in SUBSET (0..Limit)
    BY <1>2 DEF Includable
  <2>2. final' \subseteq 0..Limit /\ got' \subseteq final' /\ evs \cap got = {}
    BY <2>1 DEF ReceivedInv
  <2>3. CASE unread' = <<evs>>
    <3>1. unread' \in Seq(SUBSET (0..Limit)) /\ Len(unread') = 1 /\ unread'[1] = evs
      BY <2>3
    <3> QED
      BY <2>1, <2>2, <3>1 DEF ReceivedInv
  <2>4. CASE unread' = Append(unread, evs)
    <3>1. /\ unread' \in Seq(SUBSET (0..Limit)) /\ Len(unread') = Len(unread) + 1
          /\ unread'[Len(unread) + 1] = evs
          /\ \A i \in 1..Len(unread) : unread'[i] = unread[i]
          /\ Len(unread) \in Nat
      BY <2>4 DEF ReceivedInv
    <3>2. ASSUME NEW i \in 1..Len(unread')
          PROVE  /\ unread'[i] \subseteq final' /\ unread'[i] \cap got' = {}
                 /\ i \in 1..Len(unread) => unread'[i] \cap evs = {}
      <4>1. CASE i \in 1..Len(unread)
        BY <2>1, <3>1, <4>1 DEF ReceivedInv
      <4>2. CASE i = Len(unread) + 1
        BY <2>1, <2>2, <3>1, <4>2
      <4> QED
        BY <3>1, <4>1, <4>2
    <3>3. ASSUME NEW i \in 1..Len(unread'), NEW j \in 1..Len(unread'), i # j
          PROVE  unread'[i] \cap unread'[j] = {}
      <4>1. CASE i \in 1..Len(unread) /\ j \in 1..Len(unread)
        BY <3>1, <3>3, <4>1 DEF ReceivedInv
      <4>2. CASE i = Len(unread) + 1 /\ j \in 1..Len(unread)
        BY <3>1, <3>2, <4>2
      <4>3. CASE j = Len(unread) + 1 /\ i \in 1..Len(unread)
        BY <3>1, <3>2, <4>3
      <4> QED
        BY <3>1, <3>3, <4>1, <4>2, <4>3
    <3> QED
      BY <2>1, <2>2, <3>1, <3>2, <3>3 DEF ReceivedInv
  <2> QED
    BY <1>2, <2>3, <2>4 DEF FinalizeBlock
<1>3. CASE OpenStream
  <2>1. /\ pc = "open" /\ pc' = "run" /\ unread' = <<unread[Len(unread)]>>
        /\ UNCHANGED <<received, got, final>>
    BY <1>3 DEF OpenStream, counters
  <2>2. Len(unread) \in 1..Len(unread) /\ unread[Len(unread)] \in SUBSET (0..Limit)
    BY <2>1 DEF ReceivedInv, Preparing
  <2>3. /\ unread' \in Seq(SUBSET (0..Limit)) /\ Len(unread') = 1
        /\ unread'[1] = unread[Len(unread)]
    BY <2>1, <2>2
  <2>4. pc' \notin Preparing
    BY <2>1 DEF Preparing
  <2>5. unread'[1] \subseteq final /\ unread'[1] \cap got = {}
    BY <2>2, <2>3 DEF ReceivedInv
  <2> QED
    BY <2>1, <2>3, <2>4, <2>5 DEF ReceivedInv
<1>4. CASE Connect \/ WaitValidators
  <2>1. UNCHANGED <<final, got, received, unread>> /\ pc \in Preparing
    BY <1>4 DEF Connect, WaitValidators, counters, Preparing
  <2> QED
    BY <2>1 DEF ReceivedInv
<1>5. CASE UNCHANGED <<final, got, received, unread, pc>>
  BY <1>5 DEF ReceivedInv
<1>6. CASE \/ \E i \in Numbers : StartRequest(i) \/ EndRequest(i) \/ RequestFails(i)
           \/ OthersWitness \/ UNCHANGED vars
  BY <1>5, <1>6, Zenon DEF StartRequest, EndRequest, RequestFails, OthersWitness, vars,
                           clientVars, counters, given
<1> QED
  BY <1>1, <1>2, <1>3, <1>4, <1>6 DEF Next
-----------------------------------------------------------------------------
(* What has been received when the program ends.                           *)

(* Every step keeps what the program has found out.                        *)
LEMMA EndStep ==
  ASSUME BatchInv, ReceivedInv, EndInv, [Next]_vars
  PROVE  EndInv'
<1>1. sent \in 0..Limit /\ sent' \in 0..Limit /\ sent <= sent' /\ Limit \in Nat
  BY RequestStep, BenchmarkAssumption DEF BatchInv
<1>2. final \subseteq 0..Limit
  BY DEF ReceivedInv
<1>3. CASE HandleResponse
  <2>1. UNCHANGED <<others, final>>
    BY <1>3 DEF HandleResponse
  <2>2. received' = received + Cardinality(Head(unread)) /\ received' = Cardinality(got')
    BY <1>3, ResponseCounted DEF HandleResponse
  <2>3. pc' = "done" => Limit <= received'
    BY <1>3 DEF HandleResponse, Ended
  <2>4. pc' = "panic" => sent < received' /\ sent' = sent
    BY <1>3 DEF HandleResponse, Overflows
  <2>5. others' = 0 => \A e \in final' \ {0} : e <= sent'
    BY <1>1, <1>2, <2>1 DEF EndInv
  <2> QED
    BY <2>1, <2>2, <2>3, <2>4, <2>5 DEF EndInv
<1>4. ASSUME NEW evs \in SUBSET Includable, FinalizeBlock(evs)
      PROVE  EndInv'
  <2>1. UNCHANGED <<pc, got, sent, others, status>> /\ final' = final \cup evs
    BY <1>4 DEF FinalizeBlock, clientVars, counters, given
  <2>2. ASSUME others = 0, NEW e \in evs \ {0}
        PROVE  e <= sent
    <3>1. e \in Numbers /\ status[e] = "witnessed"
      BY <1>1, <1>4, <2>2 DEF Includable, Numbers
    <3> QED
      BY <1>1, <3>1 DEF BatchInv, BatchesCoverSent, Numbers
  <2> QED
    BY <2>1, <2>2, Zenon DEF EndInv
<1>5. CASE Connect \/ WaitValidators \/ OpenStream
  <2>1. UNCHANGED <<got, sent, others, final>> /\ pc' \in {"wait", "open", "run"}
    BY <1>5 DEF Connect, WaitValidators, OpenStream, counters
  <2> QED
    BY <2>1 DEF EndInv
<1>6. CASE OthersWitness
  <2>1. UNCHANGED <<got, sent, pc>> /\ others' = others + 1
    BY <1>6 DEF OthersWitness, clientVars, counters, given
  <2> QED
    BY <2>1 DEF EndInv
<1>7. CASE UNCHANGED <<got, sent, pc, others, final>>
  BY <1>7 DEF EndInv
<1>8. CASE \/ \E i \in Numbers : StartRequest(i) \/ EndRequest(i) \/ RequestFails(i)
           \/ UNCHANGED vars
  BY <1>7, <1>8, Zenon DEF StartRequest, EndRequest, RequestFails, vars, clientVars, counters, given
<1> QED
  BY <1>3, <1>4, <1>5, <1>6, <1>8 DEF Next

(* received_events counts each event received once.                        *)
LEMMA ReceivedInvariant == Spec => []ReceivedInv
<1>1. Init => ReceivedInv
  <2> SUFFICES ASSUME Init PROVE ReceivedInv
    OBVIOUS
  <2>1. unread \in Seq(SUBSET (0..Limit)) /\ Len(unread) = 1 /\ unread[1] = {}
    BY DEF Init
  <2>2. final = {} /\ got = {} /\ received = Cardinality(got)
    BY FS_EmptySet DEF Init
  <2> QED
    BY <2>1, <2>2 DEF ReceivedInv
<1>2. ReceivedInv /\ [Next]_vars => ReceivedInv'
  BY ReceivedStep
<1> QED
  BY <1>1, <1>2, PTL DEF Spec

(* What the program has found out is so.                                   *)
LEMMA EndInvariant == Spec => []EndInv
<1>1. Init => EndInv
  BY DEF Init, EndInv
<1>2. BatchInv /\ ReceivedInv /\ EndInv /\ [Next]_vars => EndInv'
  BY EndStep
<1> QED
  BY <1>1, <1>2, BatchInvariant, ReceivedInvariant, PTL DEF Spec

(* When the program says that it received all events, it has all but at    *)
(* most one of them, for any limit and any rates: no event is counted      *)
(* twice, and only event 0 can have been counted for another.              *)
THEOREM ReceivesAllButOne == Spec => []AllButOneReceived
<1>1. ReceivedInv /\ EndInv => AllButOneReceived
  <2> SUFFICES ASSUME ReceivedInv, EndInv, pc = "done"
               PROVE  Cardinality(Numbers \ got) <= 1
    BY DEF AllButOneReceived
  <2>1. Limit \in Nat
    BY BenchmarkAssumption
  <2>2. got \in SUBSET (0..Limit) /\ Limit <= Cardinality(got)
    BY DEF ReceivedInv, EndInv
  <2>3. Cardinality((0..Limit) \cap got) = Cardinality(got)
    <3>1. (0..Limit) \cap got = got
      BY <2>2, Zenon
    <3> QED
      BY <3>1, Zenon
  <2>4. Cardinality((0..Limit) \ got) = Limit + 1 - Cardinality(got)
    <3>1. Cardinality((0..Limit) \ got) =
            Cardinality(0..Limit) - Cardinality((0..Limit) \cap got)
      <4>1. IsFiniteSet(0..Limit)
        BY EventsFinite
      <4> QED
        BY <4>1, FS_Difference, Zenon
    <3>2. Cardinality(0..Limit) = Limit + 1 /\ Cardinality(got) \in Nat
      BY <2>2, EventsFinite
    <3> QED
      BY <2>1, <2>3, <3>1, <3>2
  <2>5. Numbers \ got \subseteq (0..Limit) \ got /\ (0..Limit) \ got \in SUBSET (0..Limit)
    BY <2>1 DEF Numbers
  <2>6. Cardinality(Numbers \ got) <= Cardinality((0..Limit) \ got)
    BY <2>5, EventsFinite, FS_Subset
  <2>7. Numbers \ got \in SUBSET (0..Limit)
    BY <2>5
  <2>8. Cardinality(Numbers \ got) \in Nat /\ Cardinality(got) \in Nat
    BY <2>2, <2>7, EventsFinite
  <2> QED
    BY <2>1, <2>2, <2>4, <2>6, <2>8
<1> QED
  BY <1>1, ReceivedInvariant, EndInvariant, PTL

(* sent_events - received_events overflows only over event 0 or events of  *)
(* other clients: those of the program's own are counted after they are    *)
(* sent.                                                                   *)
THEOREM OwnEventsDoNotOverflow == Spec => []OwnEventsLag
<1>1. BatchInv /\ ReceivedInv /\ EndInv => OwnEventsLag
  <2> SUFFICES ASSUME BatchInv, ReceivedInv, EndInv, pc = "panic", 0 \notin got, others = 0
               PROVE  FALSE
    BY DEF OwnEventsLag
  <2>1. sent \in 0..Limit /\ sent \in Nat /\ Limit \in Nat
    BY BenchmarkAssumption DEF BatchInv
  <2>2. got \subseteq 1..sent
    BY <2>1 DEF ReceivedInv, EndInv
  <2>3. IsFiniteSet(1..sent) /\ Cardinality(1..sent) = sent
    BY <2>1, FS_Interval
  <2>4. Cardinality(got) <= sent
    BY <2>2, <2>3, FS_Subset, Zenon
  <2>5. Cardinality(got) \in Nat /\ sent < Cardinality(got)
    BY EventsFinite DEF ReceivedInv, EndInv
  <2> QED
    BY <2>1, <2>4, <2>5
<1> QED
  BY <1>1, BatchInvariant, ReceivedInvariant, EndInvariant, PTL
=============================================================================
