--------------------------- MODULE IrcBots_proofs ---------------------------
(***************************************************************************)
(* What the repliers of the IRC bots promise, for any bots, events, hashes *)
(* and clocks.  The argument: an entry is absent only before its timer is  *)
(* made or while the one thread that made it stores it, so a bot makes at  *)
(* most one timer of a kind for an event, and a timer sends one message.   *)
(***************************************************************************)
EXTENDS IrcBots, TLAPS

LineKinds == Kinds \cup {"command", "not hexadecimal"}
Message == [by : Bots \cup {"user"}, key : LineKinds \X Events,
            known : BOOLEAN, seen : Nat, at : Nat]

Block == [event : Events \cup {Empty}, at : Nat]

HandlerStates ==
  {Idle, <<"stopped">>} \cup ({"call", "reply"} \X Events) \cup ({"store"} \X Keys)
StreamStates == {Idle, <<"down">>, <<"exited">>} \cup ({"store"} \X Keys)

BotTypeOK ==
  /\ now \in Nat /\ log \in Seq(Message)
  /\ read \in [Bots -> Nat]
  /\ handler \in [Bots -> HandlerStates]
  /\ stream \in [Bots -> StreamStates]
  /\ next \in [Bots -> Nat]
  /\ blocks \in Seq(Block)
  /\ entry \in [Bots -> [Keys -> {"absent", "timer", "null"}]]
  /\ timer \in [Bots -> [Keys -> TimerStates]]
  /\ users \in [Bots -> SUBSET Events]

(* The message thread stores timers of one replier, the task that reads    *)
(* the stream those of the other.                                          *)
OwnReplier ==
  \A b \in Bots, k \in Keys :
     /\ handler[b] = <<"store", k>> => k[1] = "witnessing"
     /\ stream[b] = <<"store", k>> => k[1] = "validated"

AbsentUntilStored ==
  \A b \in Bots, k \in Keys :
     (entry[b][k] = "absent" /\ timer[b][k] # "none")
       => (handler[b] = <<"store", k>> \/ stream[b] = <<"store", k>>)

(* The user is noted before the reply is planned and the timer made.       *)
UserNoted ==
  \A b \in Bots, e \in Events :
     handler[b] = <<"reply", e>> \/ timer[b][<<"witnessing", e>>] # "none" => e \in users[b]

MessagesSent ==
  \A i \in 1..Len(log) :
     log[i].by \in Bots => /\ log[i].key \in Keys
                           /\ timer[log[i].by][log[i].key] = "sent"

IInv ==
  /\ BotTypeOK
  /\ OwnReplier
  /\ AbsentUntilStored
  /\ UserNoted
  /\ MessagesSent
  /\ OneReplyPerBot
  /\ WitnessingNamesUser
  /\ CancelledOnlyByOthers

-----------------------------------------------------------------------------
(* The two repliers of a bot have different keys.                          *)
LEMMA KeyFacts ==
  /\ \A k \in Keys : k[1] \in Kinds /\ k[2] \in Events /\ k = <<k[1], k[2]>>
  /\ \A e \in Events : <<"witnessing", e>> \in Keys /\ <<"validated", e>> \in Keys
BY DEF Keys, Kinds

(* What the message thread is doing shows in the first component.          *)
LEMMA HandlerShape ==
  \A h \in HandlerStates :
     /\ h[1] = "store" => h[2] \in Keys /\ h = <<"store", h[2]>>
     /\ h[1] \in {"call", "reply"} => h[2] \in Events /\ h = <<h[1], h[2]>>
<1> SUFFICES ASSUME NEW h \in HandlerStates
             PROVE  /\ h[1] = "store" => h[2] \in Keys /\ h = <<"store", h[2]>>
                    /\ h[1] \in {"call", "reply"} => h[2] \in Events /\ h = <<h[1], h[2]>>
  OBVIOUS
<1>1. CASE h \in {Idle, <<"stopped">>}
  BY <1>1 DEF Idle
<1>2. CASE h \in {"call", "reply"} \X Events
  BY <1>2
<1>3. CASE h \in {"store"} \X Keys
  BY <1>3
<1> QED BY <1>1, <1>2, <1>3 DEF HandlerStates

(* The message thread moves on, but not to planning a reply.               *)
LEMMA NoNewReply ==
  ASSUME BotTypeOK, NEW b \in Bots,
         \/ handler' = handler
         \/ \E h \in {Idle, <<"stopped">>} \cup ({"store"} \X Keys) :
               handler' = [handler EXCEPT ![b] = h]
  PROVE  \A c \in Bots, e \in Events :
            handler'[c] = <<"reply", e>> => handler[c] = <<"reply", e>>
<1>1. CASE handler' = handler
  BY <1>1
<1>2. ASSUME NEW h \in {Idle, <<"stopped">>} \cup ({"store"} \X Keys),
             handler' = [handler EXCEPT ![b] = h]
      PROVE  \A c \in Bots, e \in Events :
                handler'[c] = <<"reply", e>> => handler[c] = <<"reply", e>>
  <2>1. handler \in [Bots -> HandlerStates]
    BY DEF BotTypeOK
  <2>2. \A c \in Bots : handler'[c] = IF c = b THEN h ELSE handler[c]
    BY <1>2, <2>1
  <2>3. \A e \in Events : h # <<"reply", e>>
    <3>1. h[1] # "reply"
      BY <1>2 DEF Idle
    <3> QED BY <3>1
  <2> QED BY <2>2, <2>3, Zenon
<1> QED BY <1>1, <1>2

(* The message a bot is given next.                                        *)
LEMMA NextMessage ==
  ASSUME IInv, NEW b \in Bots, MessageReceived(b)
  PROVE  /\ read[b] + 1 \in 1..Len(log) /\ DOMAIN log = 1..Len(log)
         /\ log[read[b] + 1] \in Message
<1>1. read[b] < Len(log)
  BY Zenon DEF MessageReceived
<1>2. read[b] \in Nat /\ log \in Seq(Message)
  BY DEF IInv, BotTypeOK
<1> QED BY <1>1, <1>2

(* The bots start with no timers and no messages.                          *)
LEMMA InitInv == Init => IInv
<1> SUFFICES ASSUME Init PROVE IInv OBVIOUS
<1>1. BotTypeOK
  BY DEF Init, BotTypeOK, Idle, TimerStates, HandlerStates, StreamStates
<1>2. OwnReplier /\ AbsentUntilStored /\ UserNoted /\ CancelledOnlyByOthers
  BY KeyFacts DEF Init, OwnReplier, AbsentUntilStored, UserNoted, CancelledOnlyByOthers, Idle
<1>3. MessagesSent /\ OneReplyPerBot /\ WitnessingNamesUser
  BY DEF Init, MessagesSent, OneReplyPerBot, WitnessingNamesUser
<1> QED BY <1>1, <1>2, <1>3 DEF IInv

(* The messages sent so far are no concern of a step that sends none and   *)
(* leaves the timers that have sent theirs alone.                          *)
LEMMA SameLog ==
  ASSUME IInv, log' = log,
         \A b \in Bots, k \in Keys : timer[b][k] = "sent" => timer'[b][k] = "sent"
  PROVE  MessagesSent' /\ OneReplyPerBot' /\ WitnessingNamesUser'
<1>1. MessagesSent'
  BY DEF IInv, MessagesSent
<1>2. OneReplyPerBot' /\ WitnessingNamesUser'
  BY DEF IInv, OneReplyPerBot, WitnessingNamesUser
<1> QED BY <1>1, <1>2

(* A step that cancels nothing leaves every cancelled reply answered for.  *)
LEMMA NothingCancelled ==
  ASSUME IInv,
         log' = log, \A b \in Bots : read[b] <= read'[b],
         BotTypeOK',
         \A b \in Bots, k \in Keys :
            (entry'[b][k] = "null" /\ timer'[b][k] \notin {"fired", "sending", "sent"})
              => (entry[b][k] = "null" /\ timer[b][k] \notin {"fired", "sending", "sent"})
  PROVE  CancelledOnlyByOthers'
<1>1. \A k : Replies(k)' = Replies(k)
  BY DEF Replies
<1> SUFFICES ASSUME NEW b \in Bots, NEW k \in Keys, entry'[b][k] = "null",
                    timer'[b][k] \notin {"fired", "sending", "sent"}
             PROVE  \E i \in Replies(k) : i <= read'[b] /\ log[i].by # b
  BY <1>1 DEF CancelledOnlyByOthers
<1>2. PICK i \in Replies(k) : i <= read[b] /\ log[i].by # b
  BY Zenon DEF IInv, CancelledOnlyByOthers
<1>3. i \in Nat /\ read[b] \in Nat /\ read'[b] \in Nat
  BY DEF IInv, BotTypeOK, Replies
<1>4. i <= read'[b]
  BY <1>2, <1>3
<1> QED BY <1>2, <1>4, Zenon

(* A bot that is given no message has read what it had.                    *)
LEMMA ReadOn ==
  ASSUME IInv, read' = read
  PROVE  \A b \in Bots : read[b] <= read'[b]
BY DEF IInv, BotTypeOK

(* What Append does to the log.                                            *)
LEMMA LogGrows ==
  ASSUME log \in Seq(Message), NEW m \in Message, log' = Append(log, m)
  PROVE  /\ Len(log) \in Nat
         /\ DOMAIN log = 1..Len(log) /\ DOMAIN log' = 1..(Len(log) + 1)
         /\ log' \in Seq(Message) /\ Len(log') = Len(log) + 1
         /\ \A i \in 1..Len(log) : log'[i] = log[i]
         /\ log'[Len(log) + 1] = m
OBVIOUS

(* A timer is moved on by the pool, or collected; its entry may be         *)
(* cleared.                                                                *)
LEMMA TimerMoves ==
  ASSUME IInv, NEW b \in Bots, NEW k \in Keys,
         UNCHANGED <<read, handler, stream, next, users, now, log, blocks>>,
         NEW t \in {"fired", "sending", "disposed"},
         timer' = [timer EXCEPT ![b][k] = t],
         NEW n \in {entry[b][k], "null"},
         entry' = [entry EXCEPT ![b][k] = n],
         timer[b][k] \in {"armed", "fired"},
         t = "disposed" => entry[b][k] = "null" /\ timer[b][k] = "armed"
  PROVE  IInv'
<1> USE DEF IInv
<1>1. \A c \in Bots, l \in Keys :
         /\ timer'[c][l] = IF c = b /\ l = k THEN t ELSE timer[c][l]
         /\ entry'[c][l] = IF c = b /\ l = k THEN n ELSE entry[c][l]
  BY DEF BotTypeOK
<1>2. BotTypeOK'
  BY ZenonT(30) DEF BotTypeOK, TimerStates
<1>3. OwnReplier' /\ AbsentUntilStored'
  BY <1>1 DEF OwnReplier, AbsentUntilStored, BotTypeOK
<1>4. UserNoted'
  BY <1>1, KeyFacts DEF UserNoted
<1>5. MessagesSent' /\ OneReplyPerBot' /\ WitnessingNamesUser'
  BY <1>1, SameLog
<1>6. CancelledOnlyByOthers'
  BY <1>1, <1>2, ReadOn, NothingCancelled
<1> QED BY <1>2, <1>3, <1>4, <1>5, <1>6

(* The steps of a timer before its reply is sent.                          *)
LEMMA TimerInv ==
  ASSUME IInv, NEW b \in Bots, NEW k \in Keys,
         TimerFires(b, k) \/ TimerCollected(b, k) \/ TimerCallback(b, k)
  PROVE  IInv'
<1>1. CASE TimerFires(b, k)
  <2>1. entry' = [entry EXCEPT ![b][k] = entry[b][k]]
    BY <1>1 DEF TimerFires, IInv, BotTypeOK
  <2> QED BY <1>1, <2>1, TimerMoves DEF TimerFires
<1>2. CASE TimerCollected(b, k)
  <2>1. entry' = [entry EXCEPT ![b][k] = entry[b][k]]
    BY <1>2 DEF TimerCollected, IInv, BotTypeOK
  <2> QED BY <1>2, <2>1, TimerMoves DEF TimerCollected
<1>3. CASE TimerCallback(b, k)
  BY <1>3, TimerMoves DEF TimerCallback
<1> QED BY <1>1, <1>2, <1>3

(* A timer that sends its reply: no message of its bot has its key yet.    *)
LEMMA SendMessageInv ==
  ASSUME IInv, NEW b \in Bots, NEW k \in Keys, SendMessage(b, k)
  PROVE  IInv'
<1> USE DEF IInv
<1> DEFINE m == [by |-> b, key |-> k, known |-> k[2] \in users[b],
                 seen |-> read[b], at |-> now]
<1>1. /\ UNCHANGED <<read, handler, stream, next, entry, users, now, blocks>>
      /\ timer' = [timer EXCEPT ![b][k] = "sent"] /\ timer[b][k] = "sending"
      /\ log' = Append(log, m)
  BY DEF SendMessage, GetOriginUser
<1>2. \A c \in Bots, l \in Keys :
         timer'[c][l] = IF c = b /\ l = k THEN "sent" ELSE timer[c][l]
  BY <1>1 DEF BotTypeOK
<1>3. m \in Message
  <2>1. k \in LineKinds \X Events
    BY DEF Keys, LineKinds
  <2>2. read[b] \in Nat /\ now \in Nat
    BY DEF BotTypeOK
  <2> QED BY <2>1, <2>2 DEF Message
<1> HIDE DEF m
<1>4. /\ Len(log) \in Nat
      /\ DOMAIN log = 1..Len(log) /\ DOMAIN log' = 1..(Len(log) + 1)
      /\ log' \in Seq(Message) /\ Len(log') = Len(log) + 1
      /\ \A i \in 1..Len(log) : log'[i] = log[i]
      /\ log'[Len(log) + 1] = m
  BY <1>1, <1>3, LogGrows DEF BotTypeOK
<1>5. m.by = b /\ m.key = k /\ m.known = (k[2] \in users[b])
  BY DEF m
<1>6. BotTypeOK'
  BY <1>1, <1>4 DEF BotTypeOK, TimerStates
<1>7. OwnReplier' /\ AbsentUntilStored'
  BY <1>1, <1>2 DEF OwnReplier, AbsentUntilStored, BotTypeOK
<1>8. UserNoted'
  BY <1>1, <1>2, KeyFacts DEF UserNoted
<1>9. MessagesSent'
  BY <1>2, <1>4, <1>5 DEF MessagesSent
<1>10. \A i \in 1..Len(log) : log[i].by = b => log[i].key # k
  BY <1>1 DEF MessagesSent
<1>11. OneReplyPerBot'
  BY <1>4, <1>5, <1>10 DEF OneReplyPerBot
<1>12. k[1] = "witnessing" => k[2] \in users[b]
  BY <1>1, KeyFacts DEF UserNoted
<1>13. WitnessingNamesUser'
  <2>1. k[1] = "witnessing" => m.known
    BY <1>5, <1>12, Zenon
  <2>2. ASSUME NEW i \in DOMAIN log' PROVE i \in DOMAIN log \/ i = Len(log) + 1
    BY <1>4
  <2>3. \A i \in DOMAIN log : log'[i] = log[i]
    BY <1>4
  <2> QED BY <2>1, <2>2, <2>3, <1>4, <1>5, Zenon DEF WitnessingNamesUser
<1>14. CancelledOnlyByOthers'
  <2> SUFFICES ASSUME NEW c \in Bots, NEW l \in Keys, entry'[c][l] = "null",
                      timer'[c][l] \notin {"fired", "sending", "sent"}
               PROVE  \E i \in Replies(l)' : i <= read[c] /\ log'[i].by # c
    BY <1>1 DEF CancelledOnlyByOthers
  <2>1. PICK i \in Replies(l) : i <= read[c] /\ log[i].by # c
    BY <1>1, <1>2 DEF CancelledOnlyByOthers
  <2> QED BY <2>1, <1>4 DEF Replies
<1> QED BY <1>6, <1>7, <1>8, <1>9, <1>11, <1>13, <1>14
(* A step that plans a reply: SendReply is called by the thread that does  *)
(* so for this replier, which is then not storing another timer of it.     *)
LEMMA PlansReply ==
  ASSUME IInv, NEW b \in Bots, NEW k \in Keys,
         UNCHANGED <<read, entry, users, now, log, blocks>>,
         next' \in [Bots -> Nat],
         \/ /\ k[1] = "witnessing" /\ handler[b] = <<"reply", k[2]>>
            /\ SendReply(b, k, handler) /\ stream' = stream
         \/ /\ k[1] = "validated" /\ stream[b] = Idle
            /\ SendReply(b, k, stream) /\ handler' = handler
  PROVE  IInv'
<1> USE DEF IInv
<1>1. handler[b] # <<"store", k>> /\ stream[b] # <<"store", k>>
  BY DEF OwnReplier, Idle
<1>2. /\ entry[b][k] = "absent" => timer[b][k] = "none"
      /\ k[1] = "witnessing" => k[2] \in users[b]
  BY <1>1, KeyFacts DEF AbsentUntilStored, UserNoted
<1>3. \A c \in Bots, l \in Keys :
         /\ c # b => handler'[c] = handler[c] /\ stream'[c] = stream[c]
         /\ handler'[b] = <<"store", l>> =>
               \/ l = k /\ k[1] = "witnessing"
               \/ k[1] = "validated" /\ handler[b] = <<"store", l>>
         /\ stream'[b] = <<"store", l>> =>
               \/ l = k /\ k[1] = "validated"
               \/ k[1] = "witnessing" /\ stream[b] = <<"store", l>>
  BY DEF SendReply, BotTypeOK, Idle
<1>4. \A c \in Bots, l \in Keys :
         /\ handler[c] = <<"store", l>> => handler'[c] = <<"store", l>>
         /\ stream[c] = <<"store", l>> => stream'[c] = <<"store", l>>
  <2>1. /\ k[1] = "witnessing" => \A l \in Keys : handler[b] # <<"store", l>>
        /\ k[1] = "validated" => \A l \in Keys : stream[b] # <<"store", l>>
    BY DEF Idle
  <2> QED BY <1>3, <2>1 DEF SendReply, BotTypeOK
<1>5. CASE entry[b][k] = "absent"
  <2>1. /\ timer' = [timer EXCEPT ![b][k] = "armed"]
        /\ \A c \in Bots, l \in Keys :
              timer'[c][l] = IF c = b /\ l = k THEN "armed" ELSE timer[c][l]
    BY <1>5 DEF SendReply, BotTypeOK
  <2>2. \/ handler' = [handler EXCEPT ![b] = <<"store", k>>] /\ stream' = stream
        \/ stream' = [stream EXCEPT ![b] = <<"store", k>>] /\ handler' = handler
    BY <1>5 DEF SendReply
  <2>3. BotTypeOK'
    <3>1. timer' \in [Bots -> [Keys -> TimerStates]]
      BY <2>1 DEF BotTypeOK, TimerStates
    <3>2. <<"store", k>> \in HandlerStates /\ <<"store", k>> \in StreamStates
      BY DEF HandlerStates, StreamStates
    <3>3. handler' \in [Bots -> HandlerStates] /\ stream' \in [Bots -> StreamStates]
      BY <2>2, <3>2 DEF BotTypeOK
    <3> QED BY <3>1, <3>3 DEF BotTypeOK
  <2>4. OwnReplier'
    BY <1>3 DEF OwnReplier
  <2>5. AbsentUntilStored'
    <3>1. handler'[b] = <<"store", k>> \/ stream'[b] = <<"store", k>>
      BY <2>2 DEF BotTypeOK
    <3> QED BY <1>4, <2>1, <3>1 DEF AbsentUntilStored
  <2>6. UserNoted'
    <3>1. \A c \in Bots, e \in Events :
             handler'[c] = <<"reply", e>> => handler[c] = <<"reply", e>>
      <4>1. <<"store", k>> \in {"store"} \X Keys
        OBVIOUS
      <4> QED BY <2>2, <4>1, NoNewReply
    <3> QED BY <1>2, <2>1, <3>1, KeyFacts DEF UserNoted
  <2>7. MessagesSent' /\ OneReplyPerBot' /\ WitnessingNamesUser'
    BY <1>2, <1>5, <2>1, SameLog
  <2>8. CancelledOnlyByOthers'
    BY <1>5, <2>1, <2>3, ReadOn, NothingCancelled
  <2> QED BY <2>3, <2>4, <2>5, <2>6, <2>7, <2>8
<1>6. CASE entry[b][k] # "absent"
  <2>1. /\ timer' = timer
        /\ \/ handler' = [handler EXCEPT ![b] = Idle] /\ stream' = stream
           \/ stream' = [stream EXCEPT ![b] = Idle] /\ handler' = handler
    BY <1>6 DEF SendReply
  <2>2. BotTypeOK'
    <3>1. Idle \in HandlerStates /\ Idle \in StreamStates
      BY DEF HandlerStates, StreamStates
    <3> QED BY <2>1, <3>1 DEF BotTypeOK
  <2>3. OwnReplier'
    BY <1>3 DEF OwnReplier
  <2>4. AbsentUntilStored'
    BY <1>4, <2>1 DEF AbsentUntilStored
  <2>5. UserNoted'
    <3>1. \A c \in Bots, e \in Events :
             handler'[c] = <<"reply", e>> => handler[c] = <<"reply", e>>
      BY <2>1, NoNewReply
    <3> QED BY <2>1, <3>1 DEF UserNoted
  <2>6. MessagesSent' /\ OneReplyPerBot' /\ WitnessingNamesUser'
    BY <2>1, SameLog
  <2>7. CancelledOnlyByOthers'
    BY <2>1, <2>2, ReadOn, NothingCancelled
  <2> QED BY <2>2, <2>3, <2>4, <2>5, <2>6, <2>7
<1> QED BY <1>5, <1>6

(* A step of a thread or of the world that touches no replier.             *)
LEMMA QuietStep ==
  ASSUME IInv, BotTypeOK', UNCHANGED <<entry, timer, log>>,
         \A b \in Bots : read[b] <= read'[b] /\ users[b] \subseteq users'[b],
         \A b \in Bots, l \in Keys :
            /\ handler'[b] = <<"store", l>> <=> handler[b] = <<"store", l>>
            /\ stream'[b] = <<"store", l>> <=> stream[b] = <<"store", l>>,
         \A b \in Bots, e \in Events :
            handler'[b] = <<"reply", e>> => handler[b] = <<"reply", e>> \/ e \in users'[b]
  PROVE  IInv'
<1> USE DEF IInv
<1>1. OwnReplier' /\ AbsentUntilStored'
  BY DEF OwnReplier, AbsentUntilStored
<1>2. MessagesSent' /\ OneReplyPerBot' /\ WitnessingNamesUser'
  BY SameLog
<1>4. UserNoted'
  BY DEF UserNoted
<1>3. CancelledOnlyByOthers'
  BY NothingCancelled
<1> QED BY <1>1, <1>2, <1>3, <1>4

(* A thread stores the timer it has made: the entry is there from then on. *)
LEMMA StoresInv ==
  ASSUME IInv, NEW b \in Bots, HandlerStores(b) \/ StreamStores(b)
  PROVE  IInv'
<1> USE DEF IInv
<1>1. PICK k \in Keys :
         /\ entry' = [entry EXCEPT ![b][k] = IF @ = "absent" THEN "timer" ELSE @]
         /\ UNCHANGED <<read, next, timer, users, now, log, blocks>>
         /\ \/ handler[b] = <<"store", k>> /\ stream' = stream
               /\ handler' = [handler EXCEPT ![b] = Idle]
            \/ stream[b] = <<"store", k>> /\ handler' = handler
               /\ stream' = [stream EXCEPT ![b] = Idle]
  <2>1. CASE HandlerStores(b)
    <3>1. handler[b] \in HandlerStates /\ handler[b][1] = "store"
      BY <2>1 DEF HandlerStores, BotTypeOK
    <3>2. handler[b][2] \in Keys /\ handler[b] = <<"store", handler[b][2]>>
      BY <3>1, HandlerShape, Zenon
    <3> QED BY <2>1, <3>2 DEF HandlerStores, StoreTimer
  <2>2. CASE StreamStores(b)
    <3>1. stream[b] \in {"store"} \X Keys
      BY <2>2 DEF StreamStores, BotTypeOK, StreamStates, Idle
    <3>2. stream[b][2] \in Keys /\ stream[b] = <<"store", stream[b][2]>>
      BY <3>1
    <3> QED BY <2>2, <3>2 DEF StreamStores, StoreTimer
  <2> QED BY <2>1, <2>2
<1>2. \A c \in Bots, l \in Keys :
         /\ entry'[c][l] = "absent" => entry[c][l] = "absent"
         /\ entry'[c][l] = "null" <=> entry[c][l] = "null"
         /\ entry'[b][k] # "absent"
  BY <1>1 DEF BotTypeOK
<1>3. \A c \in Bots, l \in Keys :
         /\ handler'[c] = <<"store", l>> => handler[c] = <<"store", l>>
         /\ stream'[c] = <<"store", l>> => stream[c] = <<"store", l>>
         /\ handler[c] = <<"store", l>> => (c = b /\ l = k) \/ handler'[c] = <<"store", l>>
         /\ stream[c] = <<"store", l>> => (c = b /\ l = k) \/ stream'[c] = <<"store", l>>
  BY <1>1 DEF BotTypeOK, Idle
<1>4. BotTypeOK'
  <2>1. Idle \in HandlerStates /\ Idle \in StreamStates
    BY DEF HandlerStates, StreamStates
  <2>2. handler' \in [Bots -> HandlerStates] /\ stream' \in [Bots -> StreamStates]
    BY <1>1, <2>1 DEF BotTypeOK
  <2>3. entry' \in [Bots -> [Keys -> {"absent", "timer", "null"}]]
    BY <1>1 DEF BotTypeOK
  <2> QED BY <1>1, <2>2, <2>3 DEF BotTypeOK
<1>5. OwnReplier'
  BY <1>3 DEF OwnReplier
<1>6. AbsentUntilStored'
  BY <1>1, <1>2, <1>3 DEF AbsentUntilStored
<1>7. UserNoted'
  <2>1. \A c \in Bots, e \in Events :
           handler'[c] = <<"reply", e>> => handler[c] = <<"reply", e>>
    BY <1>1, NoNewReply
  <2> QED BY <1>1, <2>1 DEF UserNoted
<1>8. MessagesSent' /\ OneReplyPerBot' /\ WitnessingNamesUser'
  BY <1>1, SameLog
<1>9. CancelledOnlyByOthers'
  BY <1>1, <1>2, <1>4, ReadOn, NothingCancelled
<1> QED BY <1>4, <1>5, <1>6, <1>7, <1>8, <1>9

(* The message thread cancels on a line that reads as the reply, which it  *)
(* has then been given.                                                    *)
LEMMA CancelInv ==
  ASSUME IInv, NEW b \in Bots, MessageReceived(b),
         log[read[b] + 1].key \in Keys, log[read[b] + 1].by # b
  PROVE  IInv'
<1> USE DEF IInv
<1> DEFINE j == read[b] + 1
           k == log[j].key
<1>1. j \in 1..Len(log) /\ DOMAIN log = 1..Len(log)
  BY NextMessage
<1>2. k \in Keys /\ log[j].by # b /\ j \in Replies(k)
  BY <1>1 DEF Replies
<1>3. /\ Cancel(b, k) /\ UNCHANGED handler
      /\ read' = [read EXCEPT ![b] = @ + 1]
      /\ UNCHANGED <<stream, next, users, now, log, blocks>>
  <2>1. k[1] \notin {"command", "not hexadecimal"}
    BY <1>2, KeyFacts DEF Kinds
  <2> QED BY <2>1, ZenonT(30) DEF MessageReceived
<1>10. \A c \in Bots : read[c] <= read'[c] /\ (c = b => j <= read'[c])
  BY <1>3 DEF BotTypeOK
<1> HIDE DEF j, k
<1>4. \A c \in Bots, l \in Keys :
         /\ c # b \/ l # k => entry'[c][l] = entry[c][l] /\ timer'[c][l] = timer[c][l]
         /\ entry'[b][k] = "null"
         /\ timer[c][l] \in {"sent", "none"} => timer'[c][l] = timer[c][l]
         /\ timer'[c][l] = "none" => timer[c][l] = "none"
         /\ timer'[c][l] \in TimerStates
  BY <1>2, <1>3 DEF Cancel, BotTypeOK, TimerStates
<1>5. BotTypeOK'
  <2>1. /\ entry' \in [Bots -> [Keys -> {"absent", "timer", "null"}]]
        /\ timer' \in [Bots -> [Keys -> TimerStates]]
    BY <1>2, <1>3 DEF Cancel, BotTypeOK, TimerStates
  <2>2. read' \in [Bots -> Nat]
    BY <1>3 DEF BotTypeOK
  <2> QED BY <1>3, <2>1, <2>2 DEF BotTypeOK
<1>6. OwnReplier' /\ AbsentUntilStored'
  <2>1. OwnReplier'
    BY <1>3 DEF OwnReplier
  <2>2. ASSUME NEW c \in Bots, NEW l \in Keys,
               entry'[c][l] = "absent", timer'[c][l] # "none"
        PROVE  handler'[c] = <<"store", l>> \/ stream'[c] = <<"store", l>>
    <3>1. c # b \/ l # k
      BY <1>2, <1>4, <2>2
    <3>2. entry[c][l] = "absent" /\ timer[c][l] # "none"
      BY <1>4, <2>2, <3>1
    <3> QED BY <1>3, <3>2 DEF AbsentUntilStored
  <2> QED BY <2>1, <2>2 DEF AbsentUntilStored
<1>7. UserNoted'
  BY <1>3, <1>4, KeyFacts, ZenonT(30) DEF UserNoted
<1>8. MessagesSent' /\ OneReplyPerBot' /\ WitnessingNamesUser'
  BY <1>3, <1>4, SameLog
<1>9. CancelledOnlyByOthers'
  <2>1. \A l : Replies(l)' = Replies(l)
    BY <1>3 DEF Replies
  <2> SUFFICES ASSUME NEW c \in Bots, NEW l \in Keys, entry'[c][l] = "null",
                      timer'[c][l] \notin {"fired", "sending", "sent"}
               PROVE  \E i \in Replies(l) : i <= read'[c] /\ log[i].by # c
    BY <1>3, <2>1 DEF CancelledOnlyByOthers
  <2>2. CASE c = b /\ l = k
    BY <1>2, <1>10, <2>2, Zenon
  <2>3. CASE c # b \/ l # k
    <3>1. PICK i \in Replies(l) : i <= read[c] /\ log[i].by # c
      BY <1>4, <2>3 DEF CancelledOnlyByOthers
    <3>2. i \in Nat /\ read[c] \in Nat /\ read'[c] \in Nat
      BY <1>5 DEF BotTypeOK, Replies
    <3>3. i <= read'[c]
      BY <1>10, <3>1, <3>2
    <3> QED BY <3>1, <3>3, Zenon
  <2> QED BY <2>2, <2>3
<1> QED BY <1>5, <1>6, <1>7, <1>8, <1>9

(* A message that cancels nothing: a command, a line that makes the        *)
(* handler throw, or the bot's own reply, which the server does not send   *)
(* back.                                                                   *)
LEMMA OtherMessageInv ==
  ASSUME IInv, NEW b \in Bots, MessageReceived(b),
         ~ (log[read[b] + 1].key \in Keys /\ log[read[b] + 1].by # b)
  PROVE  IInv'
<1> USE DEF IInv
<1> DEFINE message == log[read[b] + 1]
           after == {Idle, <<"stopped">>, <<"call", message.key[2]>>}
<1>1. /\ UNCHANGED <<stream, next, users, now, log, blocks, entry, timer>>
      /\ read' = [read EXCEPT ![b] = @ + 1]
      /\ handler[b] = Idle
      /\ handler' = handler \/ \E h \in after : handler' = [handler EXCEPT ![b] = h]
  BY ZenonT(30) DEF MessageReceived, Thrown
<1>2. message.key[2] \in Events
  <2>1. message \in Message
    BY NextMessage
  <2> QED BY <2>1 DEF Message
<1>3. after \subseteq HandlerStates
  BY <1>2 DEF HandlerStates
<1>4. /\ read' \in [Bots -> Nat]
      /\ \A c \in Bots : read[c] <= read'[c]
  BY <1>1 DEF BotTypeOK
<1>5. \A h \in after : /\ \A l \in Keys : h # <<"store", l>>
                       /\ \A e \in Events : h # <<"reply", e>>
  BY DEF Idle
<1> HIDE DEF message, after
<1>6. handler' \in [Bots -> HandlerStates]
  BY <1>1, <1>3 DEF BotTypeOK
<1>7. BotTypeOK'
  BY <1>1, <1>4, <1>6 DEF BotTypeOK
<1>8. \A c \in Bots :
         handler'[c] = handler[c] \/ (c = b /\ handler[c] = Idle /\ handler'[c] \in after)
  BY <1>1 DEF BotTypeOK
<1>9. /\ \A c \in Bots, l \in Keys :
            handler'[c] = <<"store", l>> <=> handler[c] = <<"store", l>>
      /\ \A c \in Bots, e \in Events :
            handler'[c] = <<"reply", e>> => handler[c] = <<"reply", e>>
  <2>1. \A l \in Keys : Idle # <<"store", l>>
    BY DEF Idle
  <2> QED BY <1>5, <1>8, <2>1, Zenon
<1> QED BY <1>1, <1>4, <1>7, <1>9, QuietStep

(* A node that answers WitnessEvent, and the reply planned after that.     *)
LEMMA WitnessCommandInv ==
  ASSUME IInv, NEW b \in Bots, WitnessCommand(b)
  PROVE  IInv'
<1> USE DEF IInv
<1> DEFINE e == handler[b][2]
<1>1. /\ UNCHANGED <<read, stream, next, entry, now, log, blocks>>
      /\ \/ /\ handler[b][1] = "call" /\ UNCHANGED timer
            /\ users' = [users EXCEPT ![b] = @ \cup {e}]
            /\ handler' = [handler EXCEPT ![b] = <<"reply", e>>]
         \/ /\ handler[b][1] = "reply" /\ UNCHANGED users
            /\ SendReply(b, <<"witnessing", e>>, handler)
  BY DEF WitnessCommand, SetOriginUser
<1>2. e \in Events /\ handler[b] = <<handler[b][1], e>>
  <2>1. handler[b] \in HandlerStates /\ handler[b][1] \in {"call", "reply"}
    BY <1>1 DEF BotTypeOK
  <2> QED BY <2>1, HandlerShape, Zenon
<1> HIDE DEF e
<1>3. CASE /\ handler[b][1] = "call" /\ UNCHANGED timer
           /\ users' = [users EXCEPT ![b] = @ \cup {e}]
           /\ handler' = [handler EXCEPT ![b] = <<"reply", e>>]
  <2>1. /\ users' \in [Bots -> SUBSET Events]
        /\ \A c \in Bots : users[c] \subseteq users'[c]
        /\ e \in users'[b]
    BY <1>2, <1>3 DEF BotTypeOK
  <2>2. <<"reply", e>> \in HandlerStates
    BY <1>2 DEF HandlerStates
  <2>3. BotTypeOK'
    BY <1>1, <1>3, <2>1, <2>2 DEF BotTypeOK
  <2>4. \A c \in Bots : IF c = b THEN handler'[c] = <<"reply", e>> ELSE handler'[c] = handler[c]
    BY <1>3 DEF BotTypeOK
  <2>5. \A l \in Keys : handler[b] # <<"store", l>> /\ <<"reply", e>> # <<"store", l>>
    BY <1>3
  <2>6. \A d \in Events : <<"reply", e>> = <<"reply", d>> => e = d
    OBVIOUS
  <2>7. /\ \A c \in Bots, l \in Keys :
              handler'[c] = <<"store", l>> <=> handler[c] = <<"store", l>>
        /\ \A c \in Bots, d \in Events :
              handler'[c] = <<"reply", d>> => handler[c] = <<"reply", d>> \/ d \in users'[c]
    BY <2>1, <2>4, <2>5, <2>6, Zenon
  <2> QED BY <1>1, <1>3, <2>1, <2>3, <2>7, ReadOn, QuietStep
<1>4. CASE /\ handler[b][1] = "reply" /\ UNCHANGED users
           /\ SendReply(b, <<"witnessing", e>>, handler)
  <2>1. /\ <<"witnessing", e>> \in Keys
        /\ <<"witnessing", e>>[1] = "witnessing" /\ <<"witnessing", e>>[2] = e
    BY <1>2, KeyFacts
  <2>2. next' \in [Bots -> Nat]
    BY <1>1 DEF BotTypeOK
  <2> QED BY <1>1, <1>2, <1>4, <2>1, <2>2, PlansReply
<1> QED BY <1>1, <1>3, <1>4

(* A block of the stream that comes in.                                    *)
LEMMA EventsReceivedInv ==
  ASSUME IInv, NEW b \in Bots, EventsReceived(b)
  PROVE  IInv'
<1> DEFINE e == EventOf(next[b])
<1>1. /\ stream[b] = Idle
      /\ next' = [next EXCEPT ![b] = @ + 1]
      /\ UNCHANGED <<read, handler, entry, users, now, log, blocks>>
      /\ \/ e = Empty /\ UNCHANGED <<stream, timer>>
         \/ e # Empty /\ SendReply(b, <<"validated", e>>, stream)
  BY DEF EventsReceived
<1>2. e \in Events \cup {Empty}
  <2>1. next[b] = 0 \/ next[b] \in 1..Len(blocks)
    BY DEF IInv, BotTypeOK, EventsReceived
  <2>2. ASSUME next[b] \in 1..Len(blocks)
        PROVE  blocks[next[b]] \in Block
    BY <2>2 DEF IInv, BotTypeOK
  <2> QED BY <2>1, <2>2 DEF EventOf, Block
<1>3. next' \in [Bots -> Nat]
  BY <1>1 DEF IInv, BotTypeOK
<1> HIDE DEF e
<1>4. CASE e = Empty /\ UNCHANGED <<stream, timer>>
  <2>1. BotTypeOK'
    BY <1>1, <1>3, <1>4 DEF IInv, BotTypeOK
  <2> QED BY <1>1, <1>4, <2>1, ReadOn, QuietStep
<1>5. CASE e # Empty /\ SendReply(b, <<"validated", e>>, stream)
  <2>1. /\ <<"validated", e>> \in Keys /\ <<"validated", e>>[1] = "validated"
    BY <1>2, <1>5, KeyFacts
  <2> QED BY <1>1, <1>3, <1>5, <2>1, PlansReply
<1> QED BY <1>1, <1>4, <1>5

(* The failures, and the streams that open or break.                       *)
LEMMA ThreadInv ==
  ASSUME IInv, NEW b \in Bots,
         \/ WitnessEventFails(b) \/ ValidatedEvents(b)
         \/ StreamUnavailable(b) \/ StreamFails(b)
  PROVE  IInv'
<1> USE DEF IInv
<1>1. /\ UNCHANGED <<read, entry, timer, users, now, log, blocks>>
      /\ \/ /\ handler[b][1] = "call" /\ stream' = stream
            /\ \E h \in {Idle, <<"stopped">>} : handler' = [handler EXCEPT ![b] = h]
         \/ /\ stream[b] \in {Idle, <<"down">>} /\ handler' = handler
            /\ \E t \in {Idle, <<"down">>, <<"exited">>} : stream' = [stream EXCEPT ![b] = t]
  BY DEF WitnessEventFails, Thrown, ValidatedEvents, StreamUnavailable, StreamFails
<1>2. next' \in [Bots -> Nat]
  <2>1. Len(blocks) \in Nat
    BY DEF BotTypeOK
  <2> QED BY <2>1 DEF WitnessEventFails, ValidatedEvents, StreamUnavailable, StreamFails, BotTypeOK
<1>3. handler' \in [Bots -> HandlerStates] /\ stream' \in [Bots -> StreamStates]
  BY <1>1 DEF BotTypeOK, HandlerStates, StreamStates
<1>4. BotTypeOK'
  BY <1>1, <1>2, <1>3 DEF BotTypeOK
<1>5. \A c \in Bots, l \in Keys :
         /\ handler'[c] = <<"store", l>> <=> handler[c] = <<"store", l>>
         /\ stream'[c] = <<"store", l>> <=> stream[c] = <<"store", l>>
  <2>1. \A l \in Keys :
           /\ <<"store", l>> \notin {Idle, <<"down">>, <<"exited">>, <<"stopped">>}
           /\ <<"store", l>>[1] # "call"
    BY DEF Idle
  <2>2. handler[b][1] = "call" => \A l \in Keys : handler[b] # <<"store", l>>
    BY <2>1
  <2> QED BY <1>1, <2>1, <2>2 DEF BotTypeOK
<1>6. \A c \in Bots, e \in Events :
         handler'[c] = <<"reply", e>> => handler[c] = <<"reply", e>>
  BY <1>1, NoNewReply
<1> QED BY <1>1, <1>4, <1>5, <1>6, ReadOn, QuietStep

(* What users send is by no bot.                                           *)
LEMMA UserInv ==
  ASSUME IInv, NEW kind \in LineKinds, NEW e \in Events,
         UNCHANGED <<botVars, now, blocks>>,
         log' = Append(log, [by |-> "user", key |-> <<kind, e>>, known |-> TRUE,
                             seen |-> 0, at |-> now])
  PROVE  IInv'
<1> USE DEF IInv
<1> DEFINE m == [by |-> "user", key |-> <<kind, e>>, known |-> TRUE,
                 seen |-> 0, at |-> now]
<1>1. /\ log' = Append(log, m)
      /\ UNCHANGED <<read, handler, stream, next, entry, timer, users, now, blocks>>
  BY DEF botVars
<1>2. m \in Message
  BY DEF Message, BotTypeOK
<1>3. m.by \notin Bots
  BY IrcAssumption
<1> HIDE DEF m
<1>4. /\ Len(log) \in Nat
      /\ DOMAIN log = 1..Len(log) /\ DOMAIN log' = 1..(Len(log) + 1)
      /\ log' \in Seq(Message) /\ Len(log') = Len(log) + 1
      /\ \A i \in 1..Len(log) : log'[i] = log[i]
      /\ log'[Len(log) + 1] = m
  BY <1>1, <1>2, LogGrows DEF BotTypeOK
<1>5. BotTypeOK' /\ OwnReplier' /\ AbsentUntilStored' /\ UserNoted'
  BY <1>1, <1>4 DEF BotTypeOK, OwnReplier, AbsentUntilStored, UserNoted
<1>6. MessagesSent' /\ OneReplyPerBot'
  <2>1. ASSUME NEW i \in DOMAIN log', log'[i].by \in Bots
        PROVE  i \in 1..Len(log) /\ i \in DOMAIN log /\ log'[i] = log[i]
    BY <1>3, <1>4, <2>1
  <2>2. DOMAIN log' = 1..Len(log')
    BY <1>4
  <2>3. MessagesSent'
    BY <1>1, <2>1, <2>2 DEF MessagesSent
  <2>4. OneReplyPerBot'
    <3> SUFFICES ASSUME NEW i \in DOMAIN log', NEW j \in DOMAIN log', log'[i].by \in Bots,
                        log'[i].by = log'[j].by, log'[i].key = log'[j].key
                 PROVE  i = j
      BY Zenon DEF OneReplyPerBot
    <3>1. /\ i \in DOMAIN log /\ log'[i] = log[i]
          /\ j \in DOMAIN log /\ log'[j] = log[j]
      BY <2>1, Zenon
    <3> QED BY <3>1, Zenon DEF OneReplyPerBot
  <2> QED BY <2>3, <2>4
<1>7. WitnessingNamesUser'
  <2>1. ASSUME NEW i \in DOMAIN log' PROVE i \in DOMAIN log \/ i = Len(log) + 1
    BY <1>4
  <2>2. \A i \in DOMAIN log : log'[i] = log[i]
    BY <1>4
  <2> QED BY <2>1, <2>2, <1>3, <1>4, Zenon DEF WitnessingNamesUser
<1>8. CancelledOnlyByOthers'
  <2>1. \A l, i : i \in Replies(l) => i \in Replies(l)' /\ log'[i] = log[i]
    BY <1>4 DEF Replies
  <2> SUFFICES ASSUME NEW c \in Bots, NEW l \in Keys, entry'[c][l] = "null",
                      timer'[c][l] \notin {"fired", "sending", "sent"}
               PROVE  \E i \in Replies(l)' : i <= read[c] /\ log'[i].by # c
    BY <1>1 DEF CancelledOnlyByOthers
  <2>2. PICK i \in Replies(l) : i <= read[c] /\ log[i].by # c
    BY <1>1 DEF CancelledOnlyByOthers
  <2> QED BY <2>1, <2>2
<1> QED BY <1>5, <1>6, <1>7, <1>8

(* Time and the blocks concern no replier.                                 *)
LEMMA WorldInv ==
  ASSUME IInv, Tick \/ \E e \in Events \cup {Empty} : Finalize(e)
  PROVE  IInv'
<1> USE DEF IInv
<1>1. UNCHANGED <<read, handler, stream, next, entry, timer, users, log>>
  BY DEF Tick, Finalize, botVars
<1>2. now' \in Nat /\ blocks' \in Seq(Block)
  <2>1. CASE Tick
    BY <2>1 DEF Tick, BotTypeOK
  <2>2. ASSUME NEW e \in Events \cup {Empty}, Finalize(e)
        PROVE  now' \in Nat /\ blocks' \in Seq(Block)
    <3>1. [event |-> e, at |-> now] \in Block
      BY DEF Block, BotTypeOK
    <3> QED BY <2>2, <3>1 DEF Finalize, BotTypeOK
  <2> QED BY <2>1, <2>2
<1>3. BotTypeOK'
  BY <1>1, <1>2 DEF BotTypeOK
<1> QED BY <1>1, <1>3, ReadOn, QuietStep

(* Every step of the bots, their users and their nodes keeps the           *)
(* invariant.                                                              *)
LEMMA NextInv == IInv /\ [Next]_vars => IInv'
<1> SUFFICES ASSUME IInv, [Next]_vars PROVE IInv' OBVIOUS
<1>1. ASSUME NEW b \in Bots, HandleIncommingMessages(b) PROVE IInv'
  BY <1>1, CancelInv, OtherMessageInv, WitnessCommandInv, StoresInv DEF HandleIncommingMessages
<1>2. ASSUME NEW b \in Bots, ForwardValidatedEvents(b) PROVE IInv'
  BY <1>2, ThreadInv, EventsReceivedInv, StoresInv DEF ForwardValidatedEvents
<1>3. ASSUME NEW b \in Bots, NEW k \in Keys, Replier(b, k) \/ TimerCollected(b, k)
      PROVE  IInv'
  BY <1>3, TimerInv, SendMessageInv DEF Replier
<1>4. CASE UNCHANGED vars
  <2>1. UNCHANGED <<read, handler, stream, next, entry, timer, users, log, now, blocks>>
    BY <1>4 DEF vars, botVars
  <2>2. BotTypeOK'
    BY <2>1 DEF IInv, BotTypeOK
  <2> QED BY <2>1, <2>2, ReadOn, QuietStep
<1>5. ASSUME NEW e \in Events, UserCommands(e) PROVE IInv'
  <2>1. "command" \in LineKinds
    BY DEF LineKinds
  <2> QED BY <1>5, <2>1, UserInv DEF UserCommands
<1>6. ASSUME NEW kind \in Kinds \cup {"not hexadecimal"}, NEW e \in Events, UserLine(kind, e)
      PROVE  IInv'
  <2>1. kind \in LineKinds
    BY DEF LineKinds
  <2> QED BY <1>6, <2>1, UserInv DEF UserLine
<1> QED BY <1>1, <1>2, <1>3, <1>4, <1>5, <1>6, ThreadInv, WorldInv DEF Next

(* No bot replies twice of a kind for an event, however often it is asked, *)
(* its stream sends the event again or others reply meanwhile              *)
(* (TrustedClientReplier.SendReply, TimerCallback).                        *)
THEOREM RepliesOnce == Spec => []OneReplyPerBot
<1>1. IInv => OneReplyPerBot BY DEF IInv
<1> QED BY InitInv, NextInv, <1>1, PTL DEF Spec

(* A bot that says it is witnessing an event names the user who asked,     *)
(* although the timer runs on another thread, perhaps at once              *)
(* (TrustedClientBot.HandleIncommingMessages notes the user before it      *)
(* plans the reply).                                                       *)
THEOREM NamesUser == Spec => []WitnessingNamesUser
<1>1. IInv => WitnessingNamesUser BY DEF IInv
<1> QED BY InitInv, NextInv, <1>1, PTL DEF Spec

(* A bot gives up a reply only for a line it was given that reads as that  *)
(* reply and is not its own, a bot's or a user's (the handler              *)
(* TrustedClientReplier registers).                                        *)
THEOREM CancelsOnlyForOthers == Spec => []CancelledOnlyByOthers
<1>1. IInv => CancelledOnlyByOthers BY DEF IInv
<1> QED BY InitInv, NextInv, <1>1, PTL DEF Spec
=============================================================================
