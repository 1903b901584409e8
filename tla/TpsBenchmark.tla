---------------------------- MODULE TpsBenchmark ----------------------------
(***************************************************************************)
(* The throughput benchmark (samples/tps-benchmark/src/main.rs): a trusted *)
(* client that witnesses the events 1..Limit on its node, more of them per *)
(* finalized block as long as the network keeps up, and ends when it has   *)
(* received as many.  The clients of the other validators run the same     *)
(* program and witness the same events.                                    *)
(***************************************************************************)
EXTENDS Integers, Sequences, FiniteSets

CONSTANTS
  Limit,               \* Max_events
  Factors,             \* the pairs of factors, increase and decrease, as ratios
  Concurrent,          \* CONCURRENT_REQUESTS: 8 in the code
  Others,              \* whether the other clients alone make a quorum
  RequestsFail,        \* whether the node may refuse to witness an event
  Width,               \* of the counters: 32 bits in the code
  MaxUnread            \* bound on the finalized blocks not yet received

Ratio == [num : Nat \ {0}, den : Nat \ {0}]

ASSUME BenchmarkAssumption ==
  /\ {Limit, Concurrent, Width, MaxUnread} \subseteq Nat \ {0}
  /\ Factors \subseteq [increase : Ratio, decrease : Ratio]
  /\ {Others, RequestsFail} \subseteq BOOLEAN

U32 == 2^Width
Numbers == 1..Limit

VARIABLES
  checks,     \* whether the build panics on arithmetic overflow
  factors,    \* increase_factor and decrease_factor, from the command line
  pc,         \* "connect", "wait", "open", "run", "done" or "panic"
  status,     \* status[i]: how far the request for event i is
  batch,      \* batch[i]: the last event of the send_events call event i is in
  sent,       \* sent_events
  received,   \* received_events
  numBlocks,  \* num_blocks, up to Limit: beyond it the average stays below 1
  rate,       \* events_per_block
  got,        \* the events in the responses so far
  zero,       \* event 0 has been witnessed on this node
  others,     \* the other clients have witnessed the events 0..others-1
  final,      \* the events finalized so far
  unread      \* the finalized blocks the stream has yet to deliver

counters == <<batch, sent, received, numBlocks, rate, got>>
given == <<checks, factors>>
clientVars == <<given, pc, status, counters, zero>>
vars == <<clientVars, others, final, unread>>

Init ==
  /\ checks \in BOOLEAN /\ factors \in Factors
  /\ pc = "connect"
  /\ status = [i \in Numbers |-> "unsent"]
  /\ batch = [i \in Numbers |-> 0]
  /\ sent = 0 /\ received = 0 /\ numBlocks = 0 /\ rate = 1
  /\ got = {} /\ zero = FALSE
  /\ others = 0 /\ final = {}
  /\ unread = <<{}>>

-----------------------------------------------------------------------------
Least(a, b) == IF a < b THEN a ELSE b

Connect ==
  /\ pc = "connect"
  /\ pc' = "wait"
  /\ UNCHANGED <<given, status, counters, zero, others, final, unread>>

(* wait_validators: event 0 is witnessed until the node accepts it.        *)
WaitValidators ==
  /\ pc = "wait"
  /\ zero' = TRUE
  /\ pc' = "open"
  /\ UNCHANGED <<given, status, counters, others, final, unread>>

(* The stream starts with the latest finalized block.                      *)
OpenStream ==
  /\ pc = "open"
  /\ unread' = <<unread[Len(unread)]>>
  /\ pc' = "run"
  /\ UNCHANGED <<given, status, counters, zero, others, final>>

(* The range without its upper end.                                        *)
MutantSendEvents(from, to) ==
  /\ status' = [i \in Numbers |-> IF i \in from+1..to-1 THEN "queued" ELSE status[i]]
  /\ batch' = [i \in Numbers |-> IF i \in from+1..to-1 THEN to ELSE batch[i]]

(* The range with the last event of the batch before.                      *)
MutantResendEvents(from, to) ==
  /\ status' = [i \in Numbers |-> IF i \in from..to THEN "queued" ELSE status[i]]
  /\ batch' = [i \in Numbers |-> IF i \in from..to THEN to ELSE batch[i]]

(* send_events is spawned for a range of events.                           *)
SendEvents(from, to) ==
  /\ status' = [i \in Numbers |-> IF i \in from+1..to THEN "queued" ELSE status[i]]
  /\ batch' = [i \in Numbers |-> IF i \in from+1..to THEN to ELSE batch[i]]

(* An f32 product and quotient, cast to u32: the fraction is dropped.  The *)
(* quotients of small numbers that are no whole number stay below the next *)
(* one in f32 as well.                                                     *)
Times(n, f) == (n * f.num) \div f.den
Over(n, f) == (n * f.den) \div f.num

(* A slow-down that can reach zero.                                        *)
MutantNextRate(unprocessed, blocks) ==
  IF unprocessed <= rate * blocks THEN Times(rate, factors.increase)
  ELSE Over(rate, factors.decrease)

(* The control loop: average_unprocessed_events against events_per_block.  *)
NextRate(unprocessed, blocks) ==
  IF unprocessed <= rate * blocks THEN Times(rate, factors.increase)
  ELSE IF rate > 1 THEN Over(rate, factors.decrease) ELSE rate

(* The loop ends an event early.                                           *)
MutantEnded(total) == total + 1 >= Limit

Ended(total) == total >= Limit

(* A difference of zero is taken for an overflow.                          *)
MutantOverflows(total) == sent <= total

(* sent_events - received_events                                           *)
Overflows(total) == sent < total

(* The body of the loop over the responses, for a block with events evs.   *)
HandleResponse ==
  LET evs    == Head(unread)
      total  == received + Cardinality(evs)
      blocks == Least(numBlocks + 1, Limit)
      next   == NextRate((sent - total) % U32, blocks)
      upTo   == Least(sent + next, Limit)
  IN  /\ pc = "run"
      /\ unread # <<>>
      /\ unread' = Tail(unread)
      /\ received' = total
      /\ numBlocks' = blocks
      /\ got' = got \cup evs
      /\ \/ /\ sent < Limit
            /\ Overflows(total) /\ checks
            /\ pc' = "panic"
            /\ UNCHANGED <<status, batch, sent, rate>>
         \/ /\ sent < Limit
            /\ ~ (Overflows(total) /\ checks)
            /\ rate' = next
            /\ SendEvents(sent, upTo)
            /\ sent' = upTo
            /\ pc' = IF Ended(total) THEN "done" ELSE "run"
         \/ /\ sent >= Limit
            /\ pc' = IF Ended(total) THEN "done" ELSE "run"
            /\ UNCHANGED <<status, batch, sent, rate>>
      /\ UNCHANGED <<given, zero, others, final>>

(* send_events: the requests of a batch start in order, a few at a time.   *)
StartRequest(i) ==
  LET mates == {j \in Numbers : batch[j] = batch[i]}
  IN  /\ pc = "run"
      /\ status[i] = "queued"
      /\ \A j \in mates : j < i => status[j] # "queued"
      /\ Cardinality({j \in mates : status[j] = "active"}) < Concurrent
      /\ status' = [status EXCEPT ![i] = "active"]
      /\ UNCHANGED <<given, pc, counters, zero, others, final, unread>>

EndRequest(i) ==
  /\ pc = "run"
  /\ status[i] = "active"
  /\ status' = [status EXCEPT ![i] = "witnessed"]
  /\ UNCHANGED <<given, pc, counters, zero, others, final, unread>>

(* The node refuses: unwrap panics in the task of the batch, and requests  *)
(* it has not started are dropped with it; those it has started go on.     *)
RequestFails(i) ==
  /\ RequestsFail
  /\ pc = "run"
  /\ status[i] = "active"
  /\ status' = [j \in Numbers |->
                  IF j = i \/ (batch[j] = batch[i] /\ status[j] = "queued")
                    THEN "dropped" ELSE status[j]]
  /\ UNCHANGED <<given, pc, counters, zero, others, final, unread>>

-----------------------------------------------------------------------------
(* The rest of the network.                                                *)

OthersWitness ==
  /\ Others
  /\ others <= Limit
  /\ others' = others + 1
  /\ UNCHANGED <<clientVars, final, unread>>

(* The events that enough clients have witnessed.                          *)
Includable ==
  {e \in 0..Limit : /\ e \notin final
                    /\ \/ e < others
                       \/ e = 0 /\ zero
                       \/ e # 0 /\ status[e] = "witnessed"}

(* A block is finalized with some of them.                                 *)
FinalizeBlock(evs) ==
  /\ Len(unread) < MaxUnread
  /\ evs \subseteq Includable
  /\ final' = final \cup evs
  /\ unread' = IF pc \in {"connect", "wait", "open"} THEN <<evs>>
               ELSE Append(unread, evs)
  /\ UNCHANGED <<clientVars, others>>

-----------------------------------------------------------------------------
Next ==
  \/ Connect
  \/ WaitValidators
  \/ OpenStream
  \/ HandleResponse
  \/ \E i \in Numbers : StartRequest(i) \/ EndRequest(i) \/ RequestFails(i)
  \/ OthersWitness
  \/ \E evs \in SUBSET Includable : FinalizeBlock(evs)

Spec == Init /\ [][Next]_vars

(* The node answers, and the chain goes on: blocks are finalized, and each *)
(* witnessed event gets into one of them.                                  *)
FairSpec ==
  /\ Spec
  /\ WF_vars(Connect) /\ WF_vars(WaitValidators) /\ WF_vars(OpenStream)
  /\ WF_vars(HandleResponse)
  /\ \A i \in Numbers : WF_vars(StartRequest(i)) /\ WF_vars(EndRequest(i))
  /\ WF_vars(\E evs \in SUBSET Includable : FinalizeBlock(evs))
  /\ \A e \in 0..Limit :
       SF_vars(\E evs \in SUBSET Includable : e \in evs /\ FinalizeBlock(evs))

-----------------------------------------------------------------------------
(* The batches cover 1..sent_events without gaps: an event below           *)
(* sent_events is in a send_events call, and one above it is in none, over *)
(* any number of rounds of the control loop.                               *)
BatchesCoverSent ==
  \A i \in Numbers : (status[i] = "unsent") <=> (i > sent)

(* No request is made twice: one that the node answered is over, and one   *)
(* under way can only be answered, although batches overlap in time.       *)
RequestsMadeOnce ==
  [][\A i \in Numbers :
       /\ status[i] \in {"witnessed", "dropped"} => status'[i] = status[i]
       /\ status[i] = "active" => status'[i] \in {"active", "witnessed", "dropped"}]_vars

(* Factors that take no rate from one or more to zero in one step: at 1.5  *)
(* a rate of one stays one, at 0.5 it is gone.                             *)
Sustained(f) ==
  /\ f.increase.num >= f.increase.den
  /\ f.decrease.num <= 2 * f.decrease.den

(* The rate does not die: with an increase factor of at least 1 and a      *)
(* decrease factor of at most 2, events_per_block stays above zero however *)
(* often the loop slows down and speeds up, the difference that wraps      *)
(* around included.  A rate of zero would stay zero.                       *)
RateSurvives == Sustained(factors) => rate > 0

(* The benchmark ends: it reaches the limit, and the network processes the *)
(* backlog (README.md of the benchmark), as long as the factors sustain    *)
(* the rate, the events are its own alone, the node refuses none, and the  *)
(* program does not panic.                                                 *)
BenchmarkEnds ==
  (/\ Sustained(factors)
   /\ [](/\ others = 0 /\ pc # "panic"
         /\ \A i \in Numbers : status[i] # "dropped")) => <>(pc = "done")

(* When the program says that it received all events (main.rs), it has all *)
(* but at most one of them: event 0, which wait_validators witnessed, may  *)
(* have been counted for it.  Nothing is counted twice, the block the      *)
(* stream starts with included.                                            *)
AllButOneReceived == pc = "done" => Cardinality(Numbers \ got) <= 1

(* received_events lags behind sent_events, as the comment before their    *)
(* difference takes it to, while all that was received was sent: only      *)
(* event 0 and the events of other clients can make it overflow.           *)
OwnEventsLag == (pc = "panic" /\ 0 \notin got) => others # 0
=============================================================================
