------------------------------- MODULE Routing -------------------------------
(***************************************************************************)
(* MessageDispatcher of src/router/dispatcher.rs down to the recipient:    *)
(* which channels a message goes to, which entries of its list of          *)
(* recipients each channel sends it to, and what happens to an addressed   *)
(* message, which is for one person only and counts against the site's     *)
(* daily cap. One message is in hand at a time; CommsDispatch says what    *)
(* becomes of its stream entry. A recipient is its place in the list:      *)
(* nothing keeps a person from being on several of them.                   *)
(***************************************************************************)
EXTENDS Naturals, Sequences, FiniteSets

CONSTANTS
  Configurations,  (* what the operator may have configured                 *)
  Messages,        (* what a site may ask to be sent                        *)
  ChannelNames,    (* what a list of channels may name                      *)
  MaxMessages,     (* bound: messages                                       *)
  MaxRetryRuns,    (* bound: dispatches of one message after its first      *)
  MaxFaults        (* bound: failures, lost answers and crashes             *)

Providers == {"email", "telegram", "sms"}
Sentinels == {"record", "log", "none"}

ASSUME RoutingAssumption ==
  /\ MaxMessages \in Nat /\ MaxRetryRuns \in Nat /\ MaxFaults \in Nat
  /\ Providers \subseteq ChannelNames
  /\ \A k \in Configurations :
       /\ k.dailyCap \in Nat
       /\ DOMAIN k.rules \subseteq Nat
       /\ \A i \in DOMAIN k.rules : k.rules[i].channels \in Seq(ChannelNames)
       /\ \A c \in DOMAIN k.channels : DOMAIN k.channels[c].recipients \subseteq Nat
  /\ \A m \in Messages : m.channels \in Seq(ChannelNames)

VARIABLES
  conf,        (* settings of the site, daemon options, linked chats        *)
  sentToday,   (* the day's counter of addressed messages in ValKey         *)
  asked,       (* the messages dispatched so far                            *)
  runs,        (* dispatches of the last of them                            *)
  only,        (* channels the dispatch is restricted to, {} for none       *)
  phase,       (* where the dispatch is                                     *)
  queue,       (* channels still to be tried                                *)
  entries,     (* recipients the channel in hand still has to try           *)
  reached,     (* sends of that channel that succeeded                      *)
  done,        (* channels by result                                        *)
  owed,        (* channels the retry loop will try again                    *)
  deliveries,  (* what was received: message, channel, place of the entry   *)
  faults,      (* failures still allowed                                    *)
  repeats,     (* for each message, answers lost and crashes                *)
  uncounted    (* addressed sends the counter missed                        *)

dispatchVars == <<only, phase, queue, entries, reached, done>>
ghostVars    == <<deliveries, repeats, uncounted>>
routingVars  == <<conf, sentToday, asked, runs, dispatchVars, owed, ghostVars, faults>>

Msg == asked[Len(asked)]
NoResult == [ok |-> {}, failed |-> {}, skipped |-> {}]

RoutingTypeOK ==
  /\ conf \in Configurations /\ asked \in Seq(Messages)
  /\ sentToday \in 0 .. MaxMessages * (1 + MaxRetryRuns) /\ runs \in 0 .. 1 + MaxRetryRuns
  /\ phase \in {"idle", "resolve", "channel", "send"}
  /\ DOMAIN done = {"ok", "failed", "skipped"}
  /\ faults \in 0 .. MaxFaults /\ uncounted \in 0 .. MaxFaults
  /\ repeats \in [1 .. MaxMessages -> 0 .. MaxFaults]

RoutingInit ==
  /\ conf \in Configurations
  /\ sentToday = 0 /\ asked = << >> /\ runs = 0 /\ only = {} /\ phase = "idle"
  /\ queue = << >> /\ entries = {} /\ reached = 0 /\ done = NoResult /\ owed = {}
  /\ deliveries = << >> /\ faults = MaxFaults
  /\ repeats = [i \in 1 .. MaxMessages |-> 0] /\ uncounted = 0

Fault == faults > 0 /\ faults' = faults - 1
NoFault == UNCHANGED faults

-----------------------------------------------------------------------------
(* A new message, or the channels owed of the last one.                    *)
Dispatch(m) ==
  /\ phase = "idle" /\ Len(asked) < MaxMessages
  /\ asked' = Append(asked, m) /\ runs' = 1 /\ only' = {} /\ owed' = {}
  /\ phase' = "resolve"
  /\ UNCHANGED <<conf, sentToday, queue, entries, reached, done, ghostVars, faults>>

DispatchChannels ==
  /\ phase = "idle" /\ owed # {} /\ runs <= MaxRetryRuns
  /\ runs' = runs + 1 /\ only' = owed /\ phase' = "resolve"
  /\ UNCHANGED <<conf, sentToday, asked, queue, entries, reached, done, owed, ghostVars, faults>>

(* The daemon dies with a message in hand: its entry is delivered again,   *)
(* or the retry that was under way is due again.                           *)
DieAndReturn ==
  /\ phase # "idle" /\ runs <= MaxRetryRuns /\ Fault
  /\ runs' = runs + 1 /\ phase' = "resolve"
  /\ queue' = << >> /\ entries' = {} /\ reached' = 0 /\ done' = NoResult
  /\ repeats' = [repeats EXCEPT ![Len(asked)] = @ + 1]
  /\ UNCHANGED <<conf, sentToday, asked, only, owed, deliveries, uncounted>>

-----------------------------------------------------------------------------
(* One more than the cap.                                                  *)
RefusedLate(m) ==
  \/ m.type \notin conf.addressed
  \/ m.to = "badEmail"
  \/ sentToday > conf.dailyCap
  \/ m.to = "web" /\ ~ (conf.linked /\ conf.bot)

(* addressed_recipient, linked_recipient: the type, the address or the     *)
(* link, and today's count. A refusal is a skip for good.                  *)
Refused(m) ==
  \/ m.type \notin conf.addressed
  \/ m.to = "badEmail"
  \/ sentToday >= conf.dailyCap
  \/ m.to = "web" /\ ~ (conf.linked /\ conf.bot)

Enabled(c) == IF c \in DOMAIN conf.channels /\ conf.channels[c].enabled THEN <<c>> ELSE << >>

(* determine_channels: the message's own, the first rule for its type, the *)
(* channels that are enabled. A list is taken as it was written: a channel *)
(* that it names twice is tried twice.                                     *)
DetermineChannels(m) ==
  LET matching == {i \in DOMAIN conf.rules : conf.rules[i].type \in {m.type, "all"}}
  IN  IF m.channels # << >> THEN m.channels
      ELSE IF matching # {}
      THEN conf.rules[CHOOSE i \in matching : \A j \in matching : i <= j].channels
      ELSE Enabled("email") \o Enabled("telegram") \o Enabled("sms")

Channels(m) ==
  CASE m.to = "nobody" -> DetermineChannels(m)
    [] m.to = "web"    -> <<"telegram">>
    [] OTHER           -> <<"email">>

(* dispatch_filtered up to its loop. An error (settings or counter         *)
(* unreadable) ends the dispatch; what a retry owed stays owed. A refusal  *)
(* gives up what was owed, and a link that cannot be read is one: to       *)
(* chat_for it is a link that is not there.                                *)
Resolve ==
  /\ phase = "resolve"
  /\ \/ Fault /\ phase' = "idle" /\ UNCHANGED <<queue, done, owed>>
     \/ /\ ~ conf.enabled \/ (Msg.to # "nobody" /\ Refused(Msg))
        /\ phase' = "idle" /\ owed' = {} /\ NoFault /\ UNCHANGED <<queue, done>>
     \/ /\ conf.enabled /\ Msg.to = "web" /\ ~ Refused(Msg)
        /\ phase' = "idle" /\ owed' = {} /\ Fault /\ UNCHANGED <<queue, done>>
     \/ /\ conf.enabled /\ (Msg.to = "nobody" \/ ~ Refused(Msg))
        /\ phase' = "channel" /\ done' = NoResult /\ NoFault
        /\ queue' = Channels(Msg) /\ UNCHANGED owed
  /\ UNCHANGED <<conf, sentToday, asked, runs, only, entries, reached, ghostVars>>

-----------------------------------------------------------------------------
(* RecipientConfig::should_receive.                                        *)
ShouldReceive(r, m) ==
  m.priority <= r.minPriority /\ (r.types = {} \/ {m.type, "all"} \cap r.types # {})

(* filter_recipients: the places of the entries the filters let through,   *)
(* each for itself, whoever it names; an addressed message has one entry.  *)
Recipients(c, m) ==
  IF m.to # "nobody" THEN {1}
  ELSE LET list == conf.channels[c].recipients
       IN  {k \in DOMAIN list : ShouldReceive(list[k], m)}

(* A linked message uses the bot site's Telegram, enabled when it resolved.*)
Usable(c, m) == m.to = "web" \/ conf.channels[c].enabled

(* dispatch_to_channel up to its sends: recorded only, delivery off, no    *)
(* such channel, not configured, disabled, nobody to send to, not          *)
(* production.                                                             *)
Verdict(c, m) ==
  IF c \in Sentinels \/ conf.deliveryOff THEN "skipped"
  ELSE IF c \notin Providers \/ (m.to # "web" /\ c \notin DOMAIN conf.channels) THEN "failed"
  ELSE IF ~ Usable(c, m) \/ Recipients(c, m) = {} THEN "skipped"
  ELSE IF m.env # "production" /\ ~ conf.allowNonprod THEN "skipped"
  ELSE "send"

(* channels.retain: a retry passes over the channels that do not owe.      *)
Wanted(c) == only = {} \/ c \in only

TakeChannel ==
  /\ phase = "channel" /\ queue # << >>
  /\ LET c == Head(queue)
         v == Verdict(c, Msg)
     IN  IF Wanted(c) /\ v = "send"
         THEN /\ phase' = "send" /\ entries' = Recipients(c, Msg) /\ reached' = 0
              /\ UNCHANGED <<queue, done>>
         ELSE /\ queue' = Tail(queue)
              /\ done' = IF Wanted(c) THEN [done EXCEPT ![v] = @ \cup {c}] ELSE done
              /\ UNCHANGED <<phase, entries, reached>>
  /\ UNCHANGED <<conf, sentToday, asked, runs, only, owed, deliveries, repeats, uncounted, faults>>

(* channel.send to the next recipient: delivered; not delivered; delivered *)
(* and the answer lost, which counts as a failure.                         *)
SendTo(entry) ==
  LET delivered == deliveries' =
        Append(deliveries, [msg |-> Len(asked), channel |-> Head(queue), entry |-> entry])
  IN  /\ phase = "send" /\ entries' = entries \ {entry}
      /\ entry \in entries /\ \A other \in entries : entry <= other
      /\ \/ reached' = reached + 1 /\ delivered /\ NoFault /\ UNCHANGED repeats
         \/ UNCHANGED <<reached, deliveries, repeats>> /\ Fault
         \/ /\ reached' = reached /\ delivered /\ Fault
            /\ repeats' = [repeats EXCEPT ![Len(asked)] = @ + 1]
      /\ UNCHANGED <<conf, sentToday, asked, runs, only, phase, queue, done, owed,
                     uncounted>>

(* A channel is sent only when everyone was reached.                       *)
AllReached(c) == reached = Cardinality(Recipients(c, Msg))

(* The channel failed only if every send did.                              *)
ChannelSent(c) == reached > 0

EndChannel ==
  LET c == Head(queue)
      v == IF ChannelSent(c) THEN "ok" ELSE "failed"
  IN  /\ phase = "send" /\ entries = {}
      /\ done' = [done EXCEPT ![v] = @ \cup {c}]
      /\ queue' = Tail(queue) /\ phase' = "channel"
      /\ UNCHANGED <<conf, sentToday, asked, runs, only, entries, reached, owed, deliveries,
                     repeats, uncounted, faults>>

(* count_addressed after an addressed send; a failure is only logged.      *)
EndDispatch ==
  /\ phase = "channel" /\ queue = << >> /\ phase' = "idle" /\ owed' = done.failed
  /\ IF Msg.to # "nobody" /\ done.ok \cap {"email", "telegram"} # {}
     THEN \/ sentToday' = sentToday + 1 /\ NoFault /\ UNCHANGED uncounted
          \/ uncounted' = uncounted + 1 /\ Fault /\ UNCHANGED sentToday
     ELSE NoFault /\ UNCHANGED <<sentToday, uncounted>>
  /\ UNCHANGED <<conf, asked, runs, only, queue, entries, reached, done, deliveries,
                 repeats>>

RoutingNext ==
  \/ \E m \in Messages : Dispatch(m)
  \/ DispatchChannels \/ DieAndReturn \/ Resolve \/ TakeChannel \/ EndChannel \/ EndDispatch
  \/ \E entry \in entries : SendTo(entry)

RoutingSpec == RoutingInit /\ [][RoutingNext]_routingVars

-----------------------------------------------------------------------------
(* Properties.                                                             *)

Copies(i, c, entry) ==
  Cardinality({d \in DOMAIN deliveries :
                 deliveries[d] = [msg |-> i, channel |-> c, entry |-> entry]})

(* The list of channels names this one in no two places.                   *)
NamedOnce(m, c) ==
  \A i, j \in DOMAIN Channels(m) : Channels(m)[i] = c /\ Channels(m)[j] = c => i = j

(* An entry of a channel's recipients is sent a message once, and once     *)
(* more for each lost answer or crash at most: what one recipient of a     *)
(* channel fails to get is never paid for by the others with a second      *)
(* copy. A person gets it as often as matching entries name them: nothing  *)
(* compares two entries. (A message or rule that names a channel twice     *)
(* asks for two copies, too.)                                              *)
NoSecondCopy ==
  \A d \in DOMAIN deliveries :
    LET x == deliveries[d]
    IN  NamedOnce(asked[x.msg], x.channel) =>
          Copies(x.msg, x.channel, x.entry) <= 1 + repeats[x.msg]

(* The sum of a count for each message, as a number of pairs.              *)
Summed(f) == Cardinality({e \in (1 .. MaxMessages) \X (1 .. MaxFaults) : e[2] <= f[e[1]]})

(* A site's addressed messages of a day that arrive stay within its cap,   *)
(* but for those whose answer or count was lost.                           *)
CapKept ==
  Cardinality({d \in DOMAIN deliveries : asked[deliveries[d].msg].to # "nobody"})
    <= conf.dailyCap + Summed(repeats) + uncounted
=============================================================================
