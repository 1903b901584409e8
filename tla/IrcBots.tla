------------------------------ MODULE IrcBots ------------------------------
(***************************************************************************)
(* The IRC sample (samples/irc): the trusted clients of several validators *)
(* sit on one IRC channel.  Each witnesses, on its own node, the events    *)
(* users ask for, and each follows the stream of validated events of its   *)
(* node.  The bots agree without talking to each other on which of them    *)
(* answers: every one arms a timer, and the first reply cancels the rest.  *)
(*                                                                         *)
(* A bot has a thread that handles the messages of the channel, a task     *)
(* that reads the stream, and the callbacks of its timers, which run on    *)
(* the thread pool.  The help command, which touches no state, is left     *)
(* out.                                                                    *)
(***************************************************************************)
EXTENDS Integers, Sequences, FiniteSets

CONSTANTS
  Bots, Events,
  Acquainted,       \* what usernames the bots may know at first
  Hash(_, _),       \* the hash of a replier's event and a nickname, as a number
  Timed,            \* whether there are clocks; without, a timer fires any time
  Second,           \* ticks in a second
  Delay,            \* how many ticks a delivery or a due timer may be late
  Horizon,          \* bound on the ticks
  MaxCommands,      \* bound on the commands users send
  MaxBlocks,        \* bound on the finalized blocks
  MaxTroubles,      \* bound on the calls that fail and the other lines
  Mixed             \* whether a behaviour has both commands and blocks

ASSUME IrcAssumption ==
  /\ {Delay, Horizon, MaxCommands, MaxBlocks, MaxTroubles} \subseteq Nat
  /\ Second \in Nat \ {0}
  /\ {Timed, Mixed} \subseteq BOOLEAN
  /\ \A known \in Acquainted : \A b \in Bots : b \in known[b] /\ known[b] \subseteq Bots
  /\ "user" \notin Bots /\ "no event" \notin Events

(* A bot has two repliers, each with its own dictionary of timers.         *)
Kinds == {"witnessing", "validated"}
Keys == Kinds \X Events
Idle == <<"idle">>
Empty == "no event"

VARIABLES
  now,        \* the time
  log,        \* the messages of the channel, in the order the server sends them
  read,       \* read[b]: how many of them bot b has been given
  handler,    \* what the message thread of a bot is doing
  stream,     \* what the task of a bot that reads the stream is doing
  next,       \* next[b]: the block the stream of b sends next
  troubles,   \* how many calls have failed, and lines of users got in the way
  entry,      \* ReplyTimers of the repliers of b: "absent", "timer" or "null"
  timer,      \* how far the timers made for them are
  due,        \* when they are due
  slot,       \* and the place of b they were made for
  knows,      \* knows[b]: the bots whose username b has, itself included
  users,      \* users[b]: the events whose user b has noted
  blocks      \* the finalized blocks, of at most one event each, and their times

botVars == <<read, handler, stream, next, entry, timer, due, slot, knows, users>>
vars == <<botVars, now, log, troubles, blocks>>

TimerStates == {"none", "armed", "fired", "sending", "sent", "disposed"}

Init ==
  /\ now = 0 /\ log = <<>> /\ troubles = 0 /\ blocks = <<>>
  /\ read = [b \in Bots |-> 0]
  /\ handler = [b \in Bots |-> Idle]
  /\ stream = [b \in Bots |-> <<"down">>]
  /\ next = [b \in Bots |-> 0]
  /\ entry = [b \in Bots |-> [k \in Keys |-> "absent"]]
  /\ timer = [b \in Bots |-> [k \in Keys |-> "none"]]
  /\ due = [b \in Bots |-> [k \in Keys |-> 0]]
  /\ slot = [b \in Bots |-> [k \in Keys |-> 0]]
  /\ knows \in Acquainted
  /\ users = [b \in Bots |-> {}]

Commands == {i \in DOMAIN log : log[i].key[1] = "command"}

(* Within the bound, something may go wrong.                               *)
Trouble == troubles < MaxTroubles /\ troubles' = troubles + 1

Running(b) == stream[b] # <<"exited">>

(* TrustedClientUserTracker, where the last user of an event stays.        *)
SetOriginUser(b, e) == users' = [users EXCEPT ![b] = @ \cup {e}]
GetOriginUser(b, e) == e \in users[b]

(***************************************************************************)
(* TrustedClientReplier.  A bot's place among the bots of the channel that *)
(* it knows by their username, in the order of their hashes, sets how long *)
(* it waits: two seconds times the square root of the place.               *)
(***************************************************************************)
Precedes(c, b, k) == Hash(k, c) < Hash(k, b)

OwnNumber(b, k) == Cardinality({c \in knows[b] : Precedes(c, b, k)})

(* IrcDotNet: the list of those in the channel has only nicknames, and a   *)
(* username is there once a message of that user has shown it.             *)
LearnUserName(b, c) == knows' = [knows EXCEPT ![b] = @ \cup ({c} \cap Bots)]

(* One second for the first slot.                                          *)
MutantSlotToTime(place) ==
  LET longest == Second * Second * place
  IN  CHOOSE t \in 0..longest : t * t <= longest /\ (t + 1) * (t + 1) > longest

SlotToTime(place) ==
  LET longest == 4 * Second * Second * place
  IN  CHOOSE t \in 0..longest : t * t <= longest /\ (t + 1) * (t + 1) > longest

Due(b, k) == IF Timed THEN now + SlotToTime(OwnNumber(b, k)) ELSE 0

(* SendReply up to the factory of AddOrUpdate, which the dictionary calls  *)
(* without its lock: an entry that is there stays, else a timer is made    *)
(* and running before the thread gets to store it.                         *)
SendReply(b, k, thread) ==
  IF entry[b][k] = "absent"
  THEN /\ timer' = [timer EXCEPT ![b][k] = "armed"]
       /\ due' = [due EXCEPT ![b][k] = Due(b, k)]
       /\ slot' = [slot EXCEPT ![b][k] = OwnNumber(b, k)]
       /\ thread' = [thread EXCEPT ![b] = <<"store", k>>]
  ELSE /\ thread' = [thread EXCEPT ![b] = Idle]
       /\ UNCHANGED <<timer, due, slot>>

(* The new entry is the one that stands for a cancelled reply.             *)
MutantStoreTimer(b, k) ==
  entry' = [entry EXCEPT ![b][k] = IF @ = "absent" THEN "null" ELSE @]

(* The rest of AddOrUpdate: an entry another thread has put there          *)
(* meanwhile stays, and the timer just made is in no dictionary.           *)
StoreTimer(b, k) ==
  entry' = [entry EXCEPT ![b][k] = IF @ = "absent" THEN "timer" ELSE @]

(* Cancelling, as the callback and the message handler do it: the timer in *)
(* the dictionary is disposed of, which stops it unless it has fired.      *)
Cancel(b, k) ==
  /\ entry' = [entry EXCEPT ![b][k] = "null"]
  /\ timer' = [timer EXCEPT ![b][k] =
                 IF entry[b][k] = "timer" /\ @ = "armed" THEN "disposed" ELSE @]

(* The runtime starts the callback of a due timer on the pool.             *)
TimerFires(b, k) ==
  /\ Running(b)
  /\ timer[b][k] = "armed" /\ due[b][k] <= now
  /\ timer' = [timer EXCEPT ![b][k] = "fired"]
  /\ UNCHANGED <<read, handler, stream, next, entry, due, slot, knows, users, now, log, troubles, blocks>>

(* A timer no dictionary holds may be collected before it fires.           *)
TimerCollected(b, k) ==
  /\ timer[b][k] = "armed" /\ entry[b][k] = "null"
  /\ <<"store", k>> \notin {handler[b], stream[b]}
  /\ timer' = [timer EXCEPT ![b][k] = "disposed"]
  /\ UNCHANGED <<read, handler, stream, next, entry, due, slot, knows, users, now, log, troubles, blocks>>

(* The entry is removed once its timer has fired.                          *)
MutantTimerCallback(b, k) ==
  /\ Running(b)
  /\ timer[b][k] = "fired"
  /\ entry' = [entry EXCEPT ![b][k] = "absent"]
  /\ timer' = [timer EXCEPT ![b][k] = "sending"]
  /\ UNCHANGED <<read, handler, stream, next, due, slot, knows, users, now, log, troubles, blocks>>

(* The callback gives up when its timer is not in the dictionary.          *)
MutantCallbackGivesUp(b, k) ==
  /\ Running(b)
  /\ timer[b][k] = "fired"
  /\ entry' = [entry EXCEPT ![b][k] = "null"]
  /\ timer' = [timer EXCEPT ![b][k] =
                 IF entry[b][k] = "timer" THEN "sending" ELSE "disposed"]
  /\ UNCHANGED <<read, handler, stream, next, due, slot, knows, users, now, log, troubles, blocks>>

(* TimerCallback, up to the update of the dictionary and from there.       *)
TimerCallback(b, k) ==
  /\ Running(b)
  /\ timer[b][k] = "fired"
  /\ entry' = [entry EXCEPT ![b][k] = "null"]
  /\ timer' = [timer EXCEPT ![b][k] = "sending"]
  /\ UNCHANGED <<read, handler, stream, next, due, slot, knows, users, now, log, troubles, blocks>>

SendMessage(b, k) ==
  /\ Running(b)
  /\ timer[b][k] = "sending"
  /\ timer' = [timer EXCEPT ![b][k] = "sent"]
  /\ log' = Append(log, [by |-> b, key |-> k, known |-> GetOriginUser(b, k[2]),
                         seen |-> read[b], at |-> now])
  /\ UNCHANGED <<read, handler, stream, next, entry, due, slot, knows, users, now, troubles, blocks>>

(***************************************************************************)
(* TrustedClientBot.HandleIncommingMessages, and the handlers the repliers *)
(* register, which go by the text of a message and not by its sender.  A   *)
(* bot is not given its own messages.  An exception goes on to the IRC     *)
(* library, which may or may not deliver further messages.                 *)
(***************************************************************************)
Thrown(b) == \E after \in {Idle, <<"stopped">>} : handler' = [handler EXCEPT ![b] = after]

MessageReceived(b) ==
  LET message == log[read[b] + 1] IN
  /\ Running(b) /\ handler[b] = Idle /\ read[b] < Len(log)
  /\ read' = [read EXCEPT ![b] = @ + 1]
  /\ LearnUserName(b, message.by)
  /\ \/ /\ message.key[1] = "command"
        /\ handler' = [handler EXCEPT ![b] = <<"call", message.key[2]>>]
        /\ UNCHANGED <<entry, timer>>
     \/ /\ message.key \in Keys /\ message.by # b
        /\ Cancel(b, message.key)
        /\ UNCHANGED handler
     \/ /\ message.key[1] = "not hexadecimal"
        /\ Thrown(b)
        /\ UNCHANGED <<entry, timer>>
     \/ /\ message.by = b
        /\ UNCHANGED <<handler, entry, timer>>
  /\ UNCHANGED <<stream, next, due, slot, users, now, log, troubles, blocks>>

(* The reply is planned before the user is noted.                          *)
MutantWitnessCommand(b) ==
  LET e == handler[b][2]
      k == <<"witnessing", e>>
  IN  /\ Running(b)
      /\ \/ /\ handler[b][1] = "call" /\ entry[b][k] = "absent"
            /\ timer' = [timer EXCEPT ![b][k] = "armed"]
            /\ entry' = [entry EXCEPT ![b][k] = "timer"]
            /\ handler' = [handler EXCEPT ![b] = <<"reply", e>>]
            /\ UNCHANGED users
         \/ /\ handler[b][1] = "reply"
            /\ SetOriginUser(b, e)
            /\ handler' = [handler EXCEPT ![b] = Idle]
            /\ UNCHANGED <<timer, entry>>
      /\ UNCHANGED <<read, stream, next, due, slot, knows, now, log, troubles, blocks>>

(* The witness command: WitnessEvent answers and the user is noted, and    *)
(* then the reply is planned.                                              *)
WitnessCommand(b) ==
  LET e == handler[b][2]
  IN  /\ Running(b)
      /\ \/ /\ handler[b][1] = "call"
            /\ SetOriginUser(b, e)
            /\ handler' = [handler EXCEPT ![b] = <<"reply", e>>]
            /\ UNCHANGED <<timer, due, slot>>
         \/ /\ handler[b][1] = "reply"
            /\ SendReply(b, <<"witnessing", e>>, handler)
            /\ UNCHANGED users
      /\ UNCHANGED <<read, stream, next, entry, knows, now, log, troubles, blocks>>

(* WitnessEvent throws, and the handler throws it on.                      *)
WitnessEventFails(b) ==
  /\ Trouble
  /\ Running(b) /\ handler[b][1] = "call"
  /\ Thrown(b)
  /\ UNCHANGED <<read, stream, next, entry, timer, due, slot, knows, users, now, log, blocks>>

HandlerStores(b) ==
  /\ Running(b) /\ handler[b][1] = "store"
  /\ StoreTimer(b, handler[b][2])
  /\ handler' = [handler EXCEPT ![b] = Idle]
  /\ UNCHANGED <<read, stream, next, timer, due, slot, knows, users, now, log, troubles, blocks>>

(***************************************************************************)
(* TrustedClientBot.ForwardValidatedEvents.  Every attempt asks for the    *)
(* stream from the latest finalized block on.                              *)
(***************************************************************************)
ValidatedEvents(b) ==
  /\ stream[b] = <<"down">>
  /\ stream' = [stream EXCEPT ![b] = Idle]
  /\ next' = [next EXCEPT ![b] = Len(blocks)]
  /\ UNCHANGED <<read, handler, entry, timer, due, slot, knows, users, now, log, troubles, blocks>>

(* The genesis block has no events.                                        *)
EventOf(n) == IF n = 0 THEN Empty ELSE blocks[n].event

EventsReceived(b) ==
  /\ stream[b] = Idle /\ next[b] <= Len(blocks)
  /\ next' = [next EXCEPT ![b] = @ + 1]
  /\ \/ /\ EventOf(next[b]) = Empty
        /\ UNCHANGED <<stream, timer, due, slot>>
     \/ /\ EventOf(next[b]) # Empty
        /\ SendReply(b, <<"validated", EventOf(next[b])>>, stream)
  /\ UNCHANGED <<read, handler, entry, knows, users, now, log, troubles, blocks>>

StreamStores(b) ==
  /\ stream[b][1] = "store"
  /\ StoreTimer(b, stream[b][2])
  /\ stream' = [stream EXCEPT ![b] = Idle]
  /\ UNCHANGED <<read, handler, next, timer, due, slot, knows, users, now, log, troubles, blocks>>

(* The node is unavailable: the policy waits and tries again, for ever.    *)
StreamUnavailable(b) ==
  /\ Trouble
  /\ stream[b] = Idle
  /\ stream' = [stream EXCEPT ![b] = <<"down">>]
  /\ UNCHANGED <<read, handler, next, entry, timer, due, slot, knows, users, now, log, blocks>>

(* Any other status ends Run and with it the program.                      *)
StreamFails(b) ==
  /\ Trouble
  /\ stream[b] = Idle
  /\ stream' = [stream EXCEPT ![b] = <<"exited">>]
  /\ UNCHANGED <<read, handler, next, entry, timer, due, slot, knows, users, now, log, blocks>>

(***************************************************************************)
(* The users, the network of validators, and time.                         *)
(***************************************************************************)
(* Within the bound on time, what comes in can still be answered.          *)
InTime == Timed => now + SlotToTime(Cardinality(Bots) - 1) + 2 * Delay <= Horizon

(* The channel has nothing to do with replies of the given kind, unless    *)
(* behaviours are mixed.                                                   *)
Without(kind) ==
  \/ Mixed
  \/ /\ kind = "witnessing" => Commands = {}
     /\ kind = "validated" => blocks = <<>>
     /\ \A i \in DOMAIN log : log[i].key[1] # kind

UserCommands(e) ==
  /\ Cardinality(Commands) < MaxCommands
  /\ Without("validated")
  /\ InTime
  /\ log' = Append(log, [by |-> "user", key |-> <<"command", e>>, known |-> TRUE,
                         seen |-> 0, at |-> now])
  /\ UNCHANGED <<botVars, now, troubles, blocks>>

(* A user sends a line that reads like a reply, with the identifier of an  *)
(* event or with letters that are no hexadecimal digits.                   *)
UserLine(kind, e) ==
  /\ Trouble
  /\ kind = "witnessing" => Without("validated")
  /\ kind = "validated" => Without("witnessing")
  /\ log' = Append(log, [by |-> "user", key |-> <<kind, e>>, known |-> TRUE,
                         seen |-> 0, at |-> now])
  /\ UNCHANGED <<botVars, now, blocks>>

Finalized == {blocks[i].event : i \in DOMAIN blocks} \ {Empty}

(* The nodes finalize an event once; other trusted clients than these may  *)
(* have had it witnessed.                                                  *)
Finalize(e) ==
  /\ Len(blocks) < MaxBlocks
  /\ Without("witnessing")
  /\ InTime
  /\ e \notin Finalized
  /\ blocks' = Append(blocks, [event |-> e, at |-> now])
  /\ UNCHANGED <<botVars, now, log, troubles>>

(* No delivery and no due timer is later than Delay; a thread that has     *)
(* something to do does it.                                                *)
OnTime(b) ==
  /\ (read[b] < Len(log) /\ handler[b] # <<"stopped">>)
       => now < log[read[b] + 1].at + Delay
  /\ stream[b] # <<"down">>
  /\ \A n \in DOMAIN blocks : next[b] <= n => now < blocks[n].at + Delay
  /\ {handler[b][1], stream[b][1]} \cap {"call", "reply", "store"} = {}
  /\ \A k \in Keys : /\ timer[b][k] \notin {"fired", "sending"}
                     /\ timer[b][k] = "armed" => now < due[b][k] + Delay

Tick ==
  /\ Timed /\ now < Horizon
  /\ \A b \in Bots : Running(b) => OnTime(b)
  /\ now' = now + 1
  /\ UNCHANGED <<botVars, log, troubles, blocks>>

Replier(b, k) ==
  TimerFires(b, k) \/ TimerCallback(b, k) \/ SendMessage(b, k)

HandleIncommingMessages(b) ==
  MessageReceived(b) \/ WitnessCommand(b) \/ HandlerStores(b)

ForwardValidatedEvents(b) ==
  ValidatedEvents(b) \/ EventsReceived(b) \/ StreamStores(b)

Next ==
  \/ \E b \in Bots : \/ HandleIncommingMessages(b) \/ ForwardValidatedEvents(b)
                     \/ WitnessEventFails(b) \/ StreamUnavailable(b) \/ StreamFails(b)
                     \/ \E k \in Keys : Replier(b, k) \/ TimerCollected(b, k)
  \/ \E e \in Events : UserCommands(e)
  \/ \E kind \in Kinds \cup {"not hexadecimal"}, e \in Events : UserLine(kind, e)
  \/ \E e \in Events \cup {Empty} : Finalize(e)
  \/ Tick

Spec == Init /\ [][Next]_vars

(* The threads of a bot and the pool go on, and so does time; nobody has   *)
(* to send a command, no block has to be finalized and no call to fail.    *)
FairSpec ==
  /\ Spec
  /\ WF_vars(Tick)
  /\ \A b \in Bots : /\ WF_vars(HandleIncommingMessages(b))
                     /\ WF_vars(ForwardValidatedEvents(b))
                     /\ \A k \in Keys : WF_vars(Replier(b, k))

(***************************************************************************)
(* Properties                                                              *)
(***************************************************************************)
(* The lines that read as the reply k, whoever sent them.                  *)
Replies(k) == {i \in DOMAIN log : log[i].key = k}

(* A bot sends at most one reply of a kind for an event, whether it is     *)
(* asked twice, a reopened stream sends the latest block again, or a       *)
(* cancelled entry is met by a late one (SendReply keeps the entry it      *)
(* finds, and no entry is ever removed).                                   *)
OneReplyPerBot ==
  \A i, j \in DOMAIN log :
     (log[i].by \in Bots /\ log[i].by = log[j].by /\ log[i].key = log[j].key) => i = j

(* A bot that says it is witnessing an event names the user who asked: the *)
(* callback of the timer runs on another thread, perhaps at once, and      *)
(* finds what SetOriginUser stored.                                        *)
WitnessingNamesUser ==
  \A i \in DOMAIN log :
     (log[i].by \in Bots /\ log[i].key[1] = "witnessing") => log[i].known

(* A reply is cancelled only for another: an entry that is null without a  *)
(* reply of the bot's own, sent or on its way, has a line to show for it   *)
(* that the bot has been given, somebody else sent and reads as the reply. *)
(* It need not be a bot's, for the handler does not look at the sender     *)
(* (TrustedClientReplier's constructor).                                   *)
CancelledOnlyByOthers ==
  \A b \in Bots, k \in Keys :
     (entry[b][k] = "null" /\ timer[b][k] \notin {"fired", "sending", "sent"})
       => \E i \in Replies(k) : i <= read[b] /\ log[i].by # b

(* An event some bot that keeps running has been sent is answered: every   *)
(* bot may leave it to the others, but not all do, unless a user's line    *)
(* reads as the answer, which all of them take for one                     *)
(* (TrustedClientBot.ForwardValidatedEvents, TrustedClientReplier).        *)
DeliveredIsAnswered ==
  \A b \in Bots, e \in Events :
     (timer[b][<<"validated", e>>] # "none")
       ~> (Replies(<<"validated", e>>) # {} \/ ~Running(b))

(* The waits keep the replies apart: while no delivery and no due timer is *)
(* late by a third of the gap between the first two slots, no bot that     *)
(* still handles messages replies unaware that the first reply is in, if   *)
(* it waited for another slot (SlotToTime).  Two bots that do not know     *)
(* each other's usernames can have the same slot, and then both reply.     *)
SlotsKeepRepliesApart ==
  \A k \in Keys :
     LET sent == {i \in Replies(k) : log[i].by \in Bots}
     IN  sent # {} =>
           \E i \in sent : \A j \in sent \ {i} :
              \/ log[j].seen >= i
              \/ handler[log[j].by] = <<"stopped">>
              \/ slot[log[j].by][k] = slot[log[i].by][k]
=============================================================================
