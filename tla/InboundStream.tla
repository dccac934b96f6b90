---------------------------- MODULE InboundStream ----------------------------
(***************************************************************************)
(* How what people send to the bot reaches the inbound loop of             *)
(* src/main.rs: the long poll of TelegramReceiver, which keeps its offset  *)
(* in memory and writes every update to the inbound stream, and the        *)
(* consumer group of that stream, whose pending entries the loop reads     *)
(* again at every iteration before the new ones.                           *)
(*                                                                         *)
(* The receiver is a task of its own; the loop handles one entry at a      *)
(* time. What an entry makes the loop do is in the modules that extend     *)
(* this one: they take `stage` from "idle" through their own stages to     *)
(* "ack".                                                                  *)
(***************************************************************************)
EXTENDS Naturals, Sequences, FiniteSets

CONSTANTS
  Updates,    (* what a person may send: a message or a press of a button   *)
  MaxSent,    (* bound: updates people send                                 *)
  MaxTrouble  (* bound: failures and crashes a behaviour may contain        *)

ASSUME InboundAssumption == MaxSent \in Nat /\ MaxTrouble \in Nat

VARIABLES
  (* Telegram *)
  sent,       (* the updates, in the order Telegram numbers them            *)
  confirmed,  (* updates 1 .. confirmed are not returned again              *)
  (* The receiver's memory *)
  offset,     (* last update handled                                        *)
  fetched,    (* last update of the reply being handled                     *)
  (* ValKey *)
  stream,     (* the inbound stream: the number of the update in each entry *)
  given,      (* last-delivered-id of the group                             *)
  unacked,    (* entries delivered and not acknowledged                     *)
  (* The inbound loop's memory *)
  running,
  toHandle,   (* entries of the merged replies not yet looked at            *)
  hand,       (* the entry being handled, 0 when none                       *)
  stage,      (* how far its handler is                                     *)
  (* The environment and what the properties remember *)
  handled,    (* how often an update was taken up                           *)
  trouble,    (* failures and crashes still allowed                         *)
  met         (* kinds of trouble met                                       *)

telegramVars == <<sent, confirmed, offset, fetched>>
groupVars    == <<given, unacked>>
handVars     == <<hand, stage>>
troubleVars  == <<trouble, met>>
inboundVars  == <<telegramVars, stream, groupVars, running, toHandle, handVars, handled,
                  troubleVars>>

TroubleKinds == {"crash", "write", "read", "ack", "valkey", "telegram"}

Numbers == 1 .. MaxSent

InboundTypeOK(Stages) ==
  /\ sent \in Seq(Updates) /\ Len(sent) <= MaxSent
  /\ confirmed \in 0 .. Len(sent)
  /\ offset <= fetched /\ fetched <= Len(sent)
  /\ \A i \in DOMAIN stream : stream[i] \in 1 .. Len(sent)
  /\ given \in 0 .. Len(stream)
  /\ unacked \subseteq 1 .. given /\ toHandle \subseteq unacked
  /\ running \in BOOLEAN
  /\ hand \in unacked \cup {0} /\ hand \notin toHandle
  /\ stage \in Stages /\ (stage = "idle" <=> hand = 0)
  /\ handled \in [Numbers -> Nat]
  /\ trouble \in 0 .. MaxTrouble /\ met \subseteq TroubleKinds

(* The loop has started and nothing was read yet.                          *)
LoopStarts ==
  /\ given = 0 /\ unacked = {}
  /\ running = TRUE /\ toHandle = {} /\ hand = 0 /\ stage = "idle"
  /\ handled = [u \in Numbers |-> 0]
  /\ trouble = MaxTrouble /\ met = {}

InboundInit ==
  /\ sent = <<>> /\ confirmed = 0 /\ offset = 0 /\ fetched = 0 /\ stream = <<>>
  /\ LoopStarts

Trouble(kind) == trouble > 0 /\ trouble' = trouble - 1 /\ met' = met \cup {kind}
NoTrouble == UNCHANGED troubleVars

(* The update of an entry.                                                 *)
UpdateOf(i) == sent[stream[i]]
InHand == UpdateOf(hand)

-----------------------------------------------------------------------------
PersonSends(update) ==
  /\ Len(sent) < MaxSent
  /\ sent' = Append(sent, update)
  /\ UNCHANGED <<confirmed, offset, fetched, stream, groupVars, running, toHandle, handVars,
                 handled, troubleVars>>

(* A reply taken to confirm itself.                                        *)
PollForgets ==
  /\ running /\ offset = fetched
  /\ confirmed' = Len(sent)
  /\ offset' = IF offset > confirmed THEN offset ELSE confirmed
  /\ fetched' = Len(sent)
  /\ UNCHANGED <<sent, stream, groupVars, running, toHandle, handVars, handled, troubleVars>>

(* getUpdates: the offset confirms what was handled before it, and the     *)
(* reply is everything after, or nothing when the long poll ends so. A     *)
(* receiver that has just started asks with offset 0 and gets everything   *)
(* unconfirmed again.                                                      *)
Poll ==
  /\ running /\ offset = fetched
  /\ confirmed' = IF offset > confirmed THEN offset ELSE confirmed
  /\ offset' = confirmed'
  /\ fetched' = Len(sent)
  /\ UNCHANGED <<sent, stream, groupVars, running, toHandle, handVars, handled, troubleVars>>

-----------------------------------------------------------------------------
Receiving == running /\ offset < fetched /\ offset' = offset + 1

(* The offset written instead of the update.                               *)
ReceiveBefore ==
  /\ Receiving
  /\ \/ stream' = Append(stream, offset) /\ NoTrouble
     \/ stream' = stream /\ Trouble("write")
  /\ UNCHANGED <<sent, confirmed, fetched, groupVars, running, toHandle, handVars, handled>>

(* An update the receiver lets through is XADDed; a failed write is logged *)
(* and the offset has moved past it.                                       *)
Receive ==
  /\ Receiving
  /\ \/ stream' = Append(stream, offset + 1) /\ NoTrouble
     \/ stream' = stream /\ Trouble("write")
  /\ UNCHANGED <<sent, confirmed, fetched, groupVars, running, toHandle, handVars, handled>>

(* An update of somebody the bot does not serve is passed over; a check    *)
(* that fails is a refusal.                                                *)
Refuse ==
  /\ Receiving
  /\ UNCHANGED <<sent, confirmed, fetched, stream, groupVars, running, toHandle, handVars,
                 handled>>

-----------------------------------------------------------------------------
Unread == (given + 1) .. Len(stream)

(* The two XREADGROUPs of an iteration: the pending entries (id 0), then   *)
(* the new ones (>), merged in that order. Either may fail, and the reply  *)
(* with the new ones may be lost after they were handed over.              *)
ReadInbound ==
  /\ running /\ hand = 0 /\ toHandle = {} /\ unacked \cup Unread # {}
  /\ \/ toHandle' = unacked \cup Unread /\ given' = Len(stream) /\ NoTrouble
     \/ toHandle' = Unread  /\ given' = Len(stream) /\ unacked # {} /\ Trouble("read")
     \/ toHandle' = unacked /\ given' = Len(stream) /\ Unread # {} /\ Trouble("read")
     \/ toHandle' = unacked /\ given' = given /\ Unread # {} /\ Trouble("read")
  /\ unacked' = unacked \cup (IF given' = given THEN {} ELSE Unread)
  /\ UNCHANGED <<telegramVars, stream, running, handVars, handled>>

(* The newest first.                                                       *)
TakeNewest(i, first) ==
  /\ running /\ hand = 0 /\ i \in toHandle /\ \A j \in toHandle : i >= j
  /\ toHandle' = toHandle \ {i} /\ hand' = i /\ stage' = first
  /\ handled' = [handled EXCEPT ![stream[i]] = @ + 1]
  /\ UNCHANGED <<telegramVars, stream, groupVars, running, troubleVars>>

(* The oldest entry is taken up; its handler says at which stage.          *)
TakeUp(i, first) ==
  /\ running /\ hand = 0 /\ i \in toHandle /\ \A j \in toHandle : i <= j
  /\ toHandle' = toHandle \ {i} /\ hand' = i /\ stage' = first
  /\ handled' = [handled EXCEPT ![stream[i]] = @ + 1]
  /\ UNCHANGED <<telegramVars, stream, groupVars, running, troubleVars>>

(* A handler moves on, and nothing else of the inbound stream changes.     *)
Advance(from, to) ==
  /\ stage = from /\ stage' = to
  /\ UNCHANGED <<telegramVars, stream, groupVars, running, toHandle, hand, handled>>

(* The entry stays pending.                                                *)
AckForgets ==
  /\ stage = "ack" /\ hand' = 0 /\ stage' = "idle"
  /\ unacked' = unacked /\ NoTrouble
  /\ UNCHANGED <<telegramVars, stream, given, running, toHandle, handled>>

(* The entry is XACKed whatever its handler met; the result is dropped.    *)
AckInbound ==
  /\ stage = "ack" /\ hand' = 0 /\ stage' = "idle"
  /\ \/ unacked' = unacked \ {hand} /\ NoTrouble
     \/ unacked' = unacked /\ Trouble("ack")
  /\ UNCHANGED <<telegramVars, stream, given, running, toHandle, handled>>

(* The offset and the entry in hand are lost.                              *)
StopInbound ==
  /\ running /\ Trouble("crash")
  /\ running' = FALSE /\ offset' = 0 /\ fetched' = 0 /\ toHandle' = {} /\ hand' = 0
  /\ stage' = "idle"
  /\ UNCHANGED <<sent, confirmed, stream, groupVars, handled>>

StartInbound ==
  /\ ~running /\ running' = TRUE
  /\ UNCHANGED <<telegramVars, stream, groupVars, toHandle, handVars, handled, troubleVars>>

(* Nothing sent is still on its way.                                       *)
Quiet ==
  /\ running /\ hand = 0 /\ unacked = {} /\ given = Len(stream)
  /\ offset = Len(sent) /\ confirmed = Len(sent)

-----------------------------------------------------------------------------
(* Properties of the path itself.                                          *)

(* An update is taken up once, and at most twice more for a failure or a   *)
(* crash: a crash repeats the entry that was in hand, and the update again *)
(* when Telegram had no newer offset. Nothing repeats by itself.           *)
RepeatsExplained ==
  \A u \in Numbers : handled[u] <= 1 + 2 * (MaxTrouble - trouble)

(* Entries are first taken up in the order they were written, across       *)
(* crashes, unless a read failed: the pending ones of an earlier life come *)
(* before the new ones.                                                    *)
InOrder ==
  "read" \notin met =>
    \A j \in DOMAIN stream :
      handled[stream[j]] > 0 /\ (\A i \in 1 .. (j - 1) : stream[i] # stream[j]) =>
        \A i \in 1 .. (j - 1) : handled[stream[i]] > 0
=============================================================================
