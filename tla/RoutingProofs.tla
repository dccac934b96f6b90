---------------------------- MODULE RoutingProofs ----------------------------
(***************************************************************************)
(* The dispatch of a message down to the entries of its recipients, for    *)
(* all configurations, messages and bounds: no entry is sent a second copy *)
(* that no lost answer or crash explains, and the addressed messages of a  *)
(* day stay within the site's cap.                                         *)
(***************************************************************************)
EXTENDS Routing, FiniteSetTheorems, WellFoundedInduction, TLAPS

Results == {"ok", "failed", "skipped"}

(* The channels of the message in hand that were tried or passed over.     *)
Tried == Len(Channels(Msg)) - Len(queue)

Typed ==
  /\ conf \in Configurations /\ asked \in Seq(Messages) /\ Len(asked) <= MaxMessages
  /\ phase \in {"idle", "resolve", "channel", "send"}
  /\ faults \in Nat /\ uncounted \in Nat /\ sentToday \in Nat /\ reached \in Nat
  /\ repeats \in [1 .. MaxMessages -> Nat]
  /\ \A i \in 1 .. MaxMessages : repeats[i] + faults <= MaxFaults
  /\ done \in [Results -> SUBSET ChannelNames] /\ entries \subseteq Nat
  /\ deliveries \in Seq([msg : Nat, channel : ChannelNames, entry : Nat])
  /\ \A d \in DOMAIN deliveries : deliveries[d].msg \in 1 .. Len(asked)
  /\ phase # "idle" \/ owed # {} => Len(asked) >= 1
  /\ phase # "idle" => only = owed

(* The queue is what is left of the message's list, a channel with a       *)
(* result is of the part before it, and the channel in hand was wanted.    *)
QueueOK ==
  phase \in {"channel", "send"} =>
    /\ queue \in Seq(ChannelNames) /\ Tried \in Nat
    /\ \A j \in 1 .. Len(queue) : queue[j] = Channels(Msg)[Tried + j]
    /\ \A v \in Results : \A c \in done[v] : \E j \in 1 .. Tried : Channels(Msg)[j] = c
    /\ phase = "send" => Len(queue) >= 1 /\ Wanted(queue[1])

(* The entry may be sent the message by what is left of its dispatch, or   *)
(* by the retry of the channel that it will leave behind.                  *)
MayGet(c, entry) ==
  \/ phase = "idle" /\ c \in owed
  \/ phase = "resolve" /\ Wanted(c)
  \/ /\ phase = "channel"
     /\ c \in done.failed \/ (Wanted(c) /\ \E j \in 1 .. Len(queue) : queue[j] = c)
  \/ /\ phase = "send"
     /\ \/ c \in done.failed
        \/ Wanted(c) /\ \E j \in 2 .. Len(queue) : queue[j] = c
        \/ c = queue[1] /\ (entry \in entries \/ reached = 0)

(* A copy that may come is one that has not come, or that a fault explains.*)
CopiesOK ==
  \A i \in 1 .. Len(asked) : \A c \in ChannelNames, entry \in Nat : NamedOnce(asked[i], c) =>
    /\ Copies(i, c, entry) <= 1 + repeats[i]
    /\ i = Len(asked) /\ MayGet(c, entry) => Copies(i, c, entry) <= repeats[i]

AddressedTo(i) == asked[i].to # "nobody"

Sending == phase \in {"channel", "send"} /\ AddressedTo(Len(asked))

(* The message in hand has arrived, and is not counted yet.                *)
InFlight ==
  /\ Sending
  /\ \/ phase = "send" /\ reached = 1
     \/ phase = "channel" /\ done.ok # {}

(* An addressed message has one channel and one recipient.                 *)
OneEntry ==
  phase = "send" /\ Sending =>
    (reached = 0 /\ entries \subseteq {1}) \/ (reached = 1 /\ entries = {})

Arrived == Cardinality({d \in DOMAIN deliveries : AddressedTo(deliveries[d].msg)})

CapInv ==
  /\ Arrived <= sentToday + Summed(repeats) + uncounted + (IF InFlight THEN 1 ELSE 0)
  /\ sentToday <= conf.dailyCap
  /\ Sending => sentToday < conf.dailyCap

RoutingInv == Typed /\ QueueOK /\ CopiesOK /\ OneEntry /\ CapInv

-----------------------------------------------------------------------------
(* Lemmas about the operators.                                             *)

LEMMA FirstMatch ==
  ASSUME NEW S, S \subseteq Nat, S # {}
  PROVE  \E n \in S : \A m \in S : n <= m
  <1> DEFINE R == {ss \in Nat \X Nat : ss[1] < ss[2]}
  <1>1. IsWellFoundedOn(R, Nat)
    <2>1. OpToRel(<, Nat) = R  BY DEF OpToRel
    <2> QED BY <2>1, NatLessThanWellFounded
  <1>2. \A x, y \in Nat : y < x => <<y, x>> \in R
    OBVIOUS
  <1> HIDE DEF R
  <1>3. PICK x \in S : \A y \in S : ~ (<<y, x>> \in R)  BY <1>1, WFMin
  <1>4. ASSUME NEW y \in S PROVE x <= y
    <2>1. x \in Nat /\ y \in Nat  OBVIOUS
    <2>2. ~(y < x)  BY <1>2, <1>3, <2>1
    <2> QED BY <2>1, <2>2
  <1> QED BY <1>4

LEMMA OneChannel ==
  ASSUME NEW c \in ChannelNames
  PROVE  <<c>> \in Seq(ChannelNames) /\ Len(<<c>>) = 1 /\ <<c>>[1] = c
  OBVIOUS

LEMMA ChannelsTyped ==
  ASSUME RoutingAssumption, conf \in Configurations, NEW m \in Messages
  PROVE  /\ Channels(m) \in Seq(ChannelNames)
         /\ m.to # "nobody" => Len(Channels(m)) = 1 /\ Channels(m)[1] \in {"email", "telegram"}
  <1>1. DetermineChannels(m) \in Seq(ChannelNames)
    <2> DEFINE matching == {i \in DOMAIN conf.rules : conf.rules[i].type \in {m.type, "all"}}
    <2>1. CASE m.channels # << >>  BY <2>1 DEF DetermineChannels, RoutingAssumption
    <2>2. CASE m.channels = << >> /\ matching # {}
      <3>1. matching \subseteq Nat  BY DEF RoutingAssumption
      <3>2. \E i \in matching : \A j \in matching : i <= j  BY <2>2, <3>1, FirstMatch
      <3> DEFINE first == CHOOSE i \in matching : \A j \in matching : i <= j
      <3>3. first \in matching  BY <3>2
      <3>4. DetermineChannels(m) = conf.rules[first].channels  BY <2>2 DEF DetermineChannels
      <3> HIDE DEF first
      <3> QED BY <3>3, <3>4 DEF RoutingAssumption
    <2>3. CASE m.channels = << >> /\ matching = {}
      <3>1. \A c \in ChannelNames : Enabled(c) \in Seq(ChannelNames)
        <4>1. << >> \in Seq(ChannelNames)  OBVIOUS
        <4> QED BY <4>1, OneChannel DEF Enabled
      <3>2. DetermineChannels(m) = Enabled("email") \o Enabled("telegram") \o Enabled("sms")
        BY <2>3 DEF DetermineChannels
      <3>3. /\ Enabled("email") \in Seq(ChannelNames) /\ Enabled("telegram") \in Seq(ChannelNames)
            /\ Enabled("sms") \in Seq(ChannelNames)
        BY <3>1 DEF RoutingAssumption, Providers
      <3>4. \A p, q \in Seq(ChannelNames) : p \o q \in Seq(ChannelNames)  OBVIOUS
      <3> QED BY <3>2, <3>3, <3>4
    <2> QED BY <2>1, <2>2, <2>3
  <1>2. "email" \in ChannelNames /\ "telegram" \in ChannelNames
    BY DEF RoutingAssumption, Providers
  <1>3. CASE m.to = "nobody"  BY <1>1, <1>3 DEF Channels
  <1>4. CASE m.to = "web"
    <2>1. Channels(m) = <<"telegram">>  BY <1>4 DEF Channels
    <2> QED BY <2>1, OneChannel, <1>2
  <1>5. CASE m.to # "nobody" /\ m.to # "web"
    <2>1. Channels(m) = <<"email">>  BY <1>5 DEF Channels
    <2> QED BY <2>1, OneChannel, <1>2
  <1> QED BY <1>3, <1>4, <1>5

LEMMA RecipientsTyped ==
  ASSUME RoutingAssumption, conf \in Configurations, NEW m \in Messages, NEW c,
         Verdict(c, m) = "send"
  PROVE  /\ Recipients(c, m) \subseteq Nat
         /\ m.to # "nobody" => Recipients(c, m) \subseteq {1}
  <1>1. CASE m.to = "nobody"
    <2>1. m.to # "web"  BY <1>1
    <2>2. c \in DOMAIN conf.channels  BY <2>1 DEF Verdict
    <2>3. DOMAIN conf.channels[c].recipients \subseteq Nat  BY <2>2 DEF RoutingAssumption
    <2>4. Recipients(c, m) \subseteq DOMAIN conf.channels[c].recipients
      BY <1>1 DEF Recipients
    <2> QED BY <1>1, <2>3, <2>4
  <1>2. CASE m.to # "nobody"  BY <1>2 DEF Recipients
  <1> QED BY <1>1, <1>2

LEMMA MsgTyped == ASSUME Typed, Len(asked) >= 1 PROVE Msg \in Messages /\ Msg = asked[Len(asked)]
  BY DEF Typed, Msg

(* Counting among the places of a sequence: one more when the new element  *)
(* counts.                                                                 *)
LEMMA CountedPlaces ==
  ASSUME NEW n \in Nat, NEW S \in SUBSET (1 .. n)
  PROVE  /\ IsFiniteSet(S) /\ Cardinality(S) \in Nat
         /\ Cardinality(S \cup {n + 1}) = Cardinality(S) + 1
  <1>1. IsFiniteSet(S)
    <2>1. IsFiniteSet(1 .. n)  BY FS_Interval
    <2> QED BY <2>1, FS_Subset
  <1>2. n + 1 \notin S  OBVIOUS
  <1> QED BY <1>1, <1>2, FS_AddElement, FS_CardinalityType

LEMMA CopiesCounted ==
  ASSUME Typed, NEW i, NEW c, NEW entry
  PROVE  Copies(i, c, entry) \in Nat
  <1>1. DOMAIN deliveries = 1 .. Len(deliveries) /\ Len(deliveries) \in Nat  BY DEF Typed
  <1> DEFINE S == {d \in DOMAIN deliveries : deliveries[d] = [msg |-> i, channel |-> c, entry |-> entry]}
  <1>2. S \in SUBSET (1 .. Len(deliveries))  BY <1>1
  <1> QED BY <1>1, <1>2, CountedPlaces DEF Copies

LEMMA OneMoreCopy ==
  ASSUME Typed, NEW i, NEW c, NEW entry, NEW x \in [msg : Nat, channel : ChannelNames, entry : Nat],
         deliveries' = Append(deliveries, x)
  PROVE  Copies(i, c, entry)' =
           Copies(i, c, entry) + (IF x = [msg |-> i, channel |-> c, entry |-> entry] THEN 1 ELSE 0)
  <1> DEFINE n == Len(deliveries)
             y == [msg |-> i, channel |-> c, entry |-> entry]
             S == {d \in DOMAIN deliveries : deliveries[d] = y}
             T == {d \in DOMAIN deliveries' : deliveries'[d] = y}
  <1>1. n \in Nat /\ DOMAIN deliveries = 1 .. n  BY DEF Typed
  <1>2. /\ DOMAIN deliveries' = 1 .. (n + 1) /\ deliveries'[n + 1] = x
        /\ \A d \in 1 .. n : deliveries'[d] = deliveries[d]
    BY <1>1 DEF Typed
  <1>3. T = IF x = y THEN S \cup {n + 1} ELSE S
    <2> HIDE DEF y
    <2> QED BY <1>1, <1>2
  <1>4. S \in SUBSET (1 .. n)  BY <1>1
  <1>5. Cardinality(S) = Copies(i, c, entry) /\ Cardinality(T) = Copies(i, c, entry)'  BY DEF Copies
  <1> HIDE DEF S, T, y, n
  <1>6. Cardinality(S) \in Nat /\ Cardinality(S \cup {n + 1}) = Cardinality(S) + 1
    BY <1>1, <1>4, CountedPlaces
  <1> QED BY <1>3, <1>5, <1>6 DEF y

LEMMA ArrivedCounted ==
  ASSUME Typed
  PROVE  Arrived \in Nat
  <1>1. DOMAIN deliveries = 1 .. Len(deliveries) /\ Len(deliveries) \in Nat  BY DEF Typed
  <1> DEFINE S == {d \in DOMAIN deliveries : AddressedTo(deliveries[d].msg)}
  <1>2. S \in SUBSET (1 .. Len(deliveries))  BY <1>1
  <1> QED BY <1>1, <1>2, CountedPlaces DEF Arrived

LEMMA OneMoreArrived ==
  ASSUME Typed, NEW x \in [msg : Nat, channel : ChannelNames, entry : Nat],
         deliveries' = Append(deliveries, x), asked' = asked
  PROVE  Arrived' = Arrived + (IF AddressedTo(x.msg) THEN 1 ELSE 0)
  <1> DEFINE n == Len(deliveries)
             S == {d \in DOMAIN deliveries : AddressedTo(deliveries[d].msg)}
             T == {d \in DOMAIN deliveries' : AddressedTo(deliveries'[d].msg)}
  <1>1. n \in Nat /\ DOMAIN deliveries = 1 .. n  BY DEF Typed
  <1>2. /\ DOMAIN deliveries' = 1 .. (n + 1) /\ deliveries'[n + 1] = x
        /\ \A d \in 1 .. n : deliveries'[d] = deliveries[d]
    BY <1>1 DEF Typed
  <1>3. T = IF AddressedTo(x.msg) THEN S \cup {n + 1} ELSE S  BY <1>1, <1>2
  <1>4. S \in SUBSET (1 .. n)  BY <1>1
  <1>5. Arrived = Cardinality(S)  BY DEF Arrived
  <1>6. Arrived' = Cardinality(T)  BY DEF Arrived, AddressedTo
  <1> HIDE DEF S, T, n
  <1>7. Cardinality(S) \in Nat /\ Cardinality(S \cup {n + 1}) = Cardinality(S) + 1
    BY <1>1, <1>4, CountedPlaces
  <1> QED BY <1>3, <1>5, <1>6, <1>7

LEMMA SummedCounted ==
  ASSUME RoutingAssumption, NEW f
  PROVE  /\ Summed(f) \in Nat
         /\ IsFiniteSet({e \in (1 .. MaxMessages) \X (1 .. MaxFaults) : e[2] <= f[e[1]]})
  <1> DEFINE all == (1 .. MaxMessages) \X (1 .. MaxFaults)
             S   == {e \in all : e[2] <= f[e[1]]}
  <1>1. IsFiniteSet(all)
    <2>1. IsFiniteSet(1 .. MaxMessages) /\ IsFiniteSet(1 .. MaxFaults)
      BY FS_Interval DEF RoutingAssumption
    <2> QED BY <2>1, FS_Product
  <1>2. S \in SUBSET all  OBVIOUS
  <1> HIDE DEF all
  <1>3. IsFiniteSet(S)  BY <1>1, <1>2, FS_Subset
  <1> QED BY <1>3, FS_CardinalityType DEF Summed, all

LEMMA OneMoreSummed ==
  ASSUME RoutingAssumption, NEW f \in [1 .. MaxMessages -> Nat], NEW k \in 1 .. MaxMessages,
         f[k] + 1 <= MaxFaults
  PROVE  Summed([f EXCEPT ![k] = @ + 1]) = Summed(f) + 1
  <1> DEFINE all == (1 .. MaxMessages) \X (1 .. MaxFaults)
             g   == [f EXCEPT ![k] = @ + 1]
             S   == {e \in all : e[2] <= f[e[1]]}
             T   == {e \in all : e[2] <= g[e[1]]}
             new == <<k, f[k] + 1>>
  <1>1. MaxFaults \in Nat /\ f[k] \in Nat  BY DEF RoutingAssumption
  <1>2. g[k] = f[k] + 1 /\ \A i \in 1 .. MaxMessages : i # k => g[i] = f[i]  OBVIOUS
  <1>3. new \in all /\ new \notin S  BY <1>1
  <1>4. T = S \cup {new}
    <2>1. ASSUME NEW e \in all PROVE e \in T <=> e \in S \/ e = new
      <3>1. e[1] \in 1 .. MaxMessages /\ e[2] \in 1 .. MaxFaults /\ e = <<e[1], e[2]>>  OBVIOUS
      <3>2. CASE e[1] # k
        <4>1. g[e[1]] = f[e[1]] /\ e # new  BY <1>2, <3>1, <3>2
        <4> QED BY <4>1
      <3>3. CASE e[1] = k
        <4>1. e[2] <= f[k] + 1 <=> e[2] <= f[k] \/ e[2] = f[k] + 1  BY <1>1, <3>1
        <4>2. e = new <=> e[2] = f[k] + 1  BY <3>1, <3>3
        <4>3. g[e[1]] = f[k] + 1 /\ f[e[1]] = f[k]  BY <1>2, <3>3
        <4> HIDE DEF g, new
        <4> QED BY <4>1, <4>2, <4>3
      <3> QED BY <3>2, <3>3
    <2> QED BY <1>3, <2>1
  <1>5. Summed(f) = Cardinality(S) /\ Summed(g) = Cardinality(T)  BY DEF Summed
  <1>6. IsFiniteSet(S) /\ Cardinality(S) \in Nat  BY SummedCounted DEF Summed
  <1> HIDE DEF S, T, new, all, g
  <1>7. Cardinality(S \cup {new}) = Cardinality(S) + 1  BY <1>3, <1>6, FS_AddElement
  <1> QED BY <1>4, <1>5, <1>7 DEF g

LEMMA RoutingBegins == RoutingAssumption /\ RoutingInit => RoutingInv
  <1> SUFFICES ASSUME RoutingAssumption, RoutingInit PROVE RoutingInv
    OBVIOUS
  <1> USE DEF RoutingInit
  <1>1. Typed  BY DEF Typed, RoutingAssumption, NoResult, Results
  <1>2. QueueOK /\ CopiesOK /\ OneEntry  BY DEF QueueOK, CopiesOK, OneEntry
  <1>3. Arrived = 0
    <2>1. {d \in DOMAIN deliveries : AddressedTo(deliveries[d].msg)} = {}  OBVIOUS
    <2> QED BY <2>1, FS_EmptySet DEF Arrived
  <1>4. Summed(repeats) \in Nat  BY SummedCounted
  <1>5. ~ Sending /\ conf.dailyCap \in Nat  BY DEF Sending, RoutingAssumption
  <1>6. CapInv  BY <1>3, <1>4, <1>5 DEF CapInv, InFlight
  <1> QED BY <1>1, <1>2, <1>6 DEF RoutingInv

-----------------------------------------------------------------------------
(* The types, and what is owed.                                            *)

LEMMA HeadTyped ==
  ASSUME Typed, QueueOK, phase \in {"channel", "send"}, queue # << >>
  PROVE  /\ Head(queue) \in ChannelNames /\ Head(queue) = queue[1] /\ Len(queue) >= 1
         /\ Len(asked) >= 1
  BY DEF QueueOK, Typed

LEMMA VerdictIs ==
  ASSUME NEW c, NEW m
  PROVE  Verdict(c, m) \in {"skipped", "failed", "send"}
  BY DEF Verdict

LEMMA DispatchStep ==
  ASSUME RoutingAssumption, RoutingInv, RoutingNext
  PROVE  Typed'
  <1> USE DEF RoutingInv
  <1>1. ASSUME NEW m \in Messages, Dispatch(m) PROVE Typed'
    <2>1. /\ asked' = Append(asked, m) /\ Len(asked) < MaxMessages /\ only' = {} /\ owed' = {}
          /\ phase' = "resolve"
          /\ UNCHANGED <<conf, sentToday, entries, reached, done, deliveries, repeats, uncounted,
                         faults>>
      BY <1>1 DEF Dispatch, ghostVars
    <2>2. asked' \in Seq(Messages) /\ Len(asked') = Len(asked) + 1 /\ Len(asked) \in Nat
      BY <2>1 DEF Typed
    <2>3. MaxMessages \in Nat /\ Len(asked') <= MaxMessages /\ Len(asked') >= 1
          /\ \A i \in 1 .. Len(asked) : i \in 1 .. Len(asked')
      BY <2>1, <2>2 DEF RoutingAssumption
    <2>4. \A d \in DOMAIN deliveries' : deliveries'[d].msg \in 1 .. Len(asked')
      BY <2>1, <2>3 DEF Typed
    <2> QED BY <2>1, <2>2, <2>3, <2>4 DEF Typed
  <1>2. CASE DispatchChannels  BY <1>2 DEF DispatchChannels, ghostVars, Typed
  <1>3. CASE DieAndReturn
    <2>1. /\ Len(asked) \in 1 .. MaxMessages /\ faults > 0 /\ faults' = faults - 1
          /\ phase' = "resolve"
          /\ done' = NoResult /\ entries' = {} /\ reached' = 0
          /\ repeats' = [repeats EXCEPT ![Len(asked)] = @ + 1]
          /\ UNCHANGED <<conf, asked, only, owed, sentToday, deliveries, uncounted>>
      BY <1>3 DEF DieAndReturn, Fault, Typed
    <2>2. \A i \in 1 .. MaxMessages : repeats'[i] \in Nat /\ repeats'[i] <= repeats[i] + 1
      BY <2>1 DEF Typed
    <2>3. \A i \in 1 .. MaxMessages : repeats'[i] + faults' <= MaxFaults
      <3> TAKE i \in 1 .. MaxMessages
      <3>1. repeats[i] + faults <= MaxFaults /\ repeats[i] \in Nat /\ faults \in Nat  BY DEF Typed
      <3>2. /\ repeats'[i] \in Nat /\ repeats'[i] <= repeats[i] + 1
            /\ faults > 0 /\ faults' = faults - 1 /\ MaxFaults \in Nat
        BY <2>1, <2>2 DEF RoutingAssumption
      <3>3. \A r, s, f, m \in Nat : r + f <= m /\ s <= r + 1 /\ f > 0 => s + (f - 1) <= m
        OBVIOUS
      <3> QED BY <3>1, <3>2, <3>3
    <2>4. repeats' \in [1 .. MaxMessages -> Nat]  BY <2>1, <2>2 DEF Typed
    <2>5. done' \in [Results -> SUBSET ChannelNames]  BY <2>1 DEF NoResult, Results
    <2>6. faults' \in Nat
      <3>1. faults \in Nat  BY DEF Typed
      <3> QED BY <2>1, <3>1
    <2>7. Len(asked') >= 1 /\ entries' \subseteq Nat /\ reached' \in Nat
      <3>1. asked' = asked /\ Len(asked) >= 1 /\ entries' = {} /\ reached' = 0  BY <2>1
      <3> QED BY <3>1
    <2>8. only' = owed'  BY <1>3, <2>1 DEF DieAndReturn, Typed
    <2> QED BY <2>1, <2>3, <2>4, <2>5, <2>6, <2>7, <2>8 DEF Typed
  <1>4. CASE Resolve
    <2>0. /\ \/ faults' = faults
             \/ faults > 0 /\ faults' = faults - 1
          /\ phase = "resolve" /\ phase' \in {"idle", "channel"} /\ (phase' = "channel" => owed' = owed)
          /\ owed' # {} => owed' = owed
          /\ done' = done \/ done' = NoResult
          /\ UNCHANGED <<conf, asked, only, sentToday, entries, reached, deliveries, repeats,
                         uncounted>>
      BY <1>4 DEF Resolve, Fault, NoFault, ghostVars
    <2>1. faults' \in Nat /\ faults' <= faults
      <3>1. faults \in Nat  BY DEF Typed
      <3> QED BY <2>0, <3>1
    <2>a. done' \in [Results -> SUBSET ChannelNames]
      <3>1. NoResult \in [Results -> SUBSET ChannelNames]  BY DEF NoResult, Results
      <3> QED BY <2>0, <3>1 DEF Typed
    <2>2. ASSUME NEW i \in 1 .. MaxMessages PROVE repeats[i] + faults' <= MaxFaults
      <3>1. repeats[i] \in Nat /\ faults \in Nat /\ repeats[i] + faults <= MaxFaults  BY DEF Typed
      <3>2. MaxFaults \in Nat  BY DEF RoutingAssumption
      <3> QED BY <2>1, <3>1, <3>2
    <2> QED BY <2>0, <2>1, <2>a, <2>2 DEF Typed
  <1>5. CASE TakeChannel
    <2> DEFINE c == Head(queue)
               v == Verdict(c, Msg)
    <2>1. c \in ChannelNames /\ Len(asked) >= 1  BY <1>5, HeadTyped DEF TakeChannel
    <2>2. UNCHANGED <<conf, asked, only, owed, sentToday, deliveries, repeats, uncounted, faults>>
      BY <1>5 DEF TakeChannel
    <2>3. CASE Wanted(c) /\ v = "send"
      <3>1. phase' = "send" /\ entries' = Recipients(c, Msg) /\ reached' = 0 /\ done' = done
        BY <1>5, <2>3 DEF TakeChannel
      <3>2. Recipients(c, Msg) \subseteq Nat  BY <2>1, <2>3, MsgTyped, RecipientsTyped DEF Typed
      <3> QED BY <1>5, <2>2, <3>1, <3>2 DEF Typed, TakeChannel
    <2>4. CASE ~ (Wanted(c) /\ v = "send")
      <3>1. /\ done' = IF Wanted(c) THEN [done EXCEPT ![v] = @ \cup {c}] ELSE done
            /\ UNCHANGED <<phase, entries, reached>>
        BY <1>5, <2>4 DEF TakeChannel
      <3>2. Wanted(c) => v \in Results  BY <2>4, VerdictIs DEF Results
      <3> HIDE DEF v, c
      <3>3. done' \in [Results -> SUBSET ChannelNames]  BY <2>1, <3>1, <3>2 DEF Typed
      <3> QED BY <2>2, <3>1, <3>3 DEF Typed
    <2> QED BY <2>3, <2>4
  <1>6. ASSUME NEW entry \in entries, SendTo(entry) PROVE Typed'
    <2> DEFINE x == [msg |-> Len(asked), channel |-> Head(queue), entry |-> entry]
    <2>1. /\ phase = "send" /\ entries' = entries \ {entry}
          /\ UNCHANGED <<conf, sentToday, asked, only, phase, queue, done, owed, uncounted>>
      BY <1>6 DEF SendTo
    <2>2. Len(queue) >= 1 /\ queue \in Seq(ChannelNames)  BY <2>1 DEF QueueOK
    <2>3. Head(queue) \in ChannelNames /\ Len(asked) \in 1 .. MaxMessages
      BY <2>1, <2>2 DEF Typed
    <2>4. x \in [msg : Nat, channel : ChannelNames, entry : Nat]  BY <2>3 DEF Typed
    <2>5. deliveries' = Append(deliveries, x) \/ deliveries' = deliveries  BY <1>6 DEF SendTo
    <2>6. /\ deliveries' \in Seq([msg : Nat, channel : ChannelNames, entry : Nat])
          /\ \A d \in DOMAIN deliveries' : deliveries'[d].msg \in 1 .. Len(asked)
      <3>1. CASE deliveries' = deliveries  BY <3>1 DEF Typed
      <3>2. CASE deliveries' = Append(deliveries, x)
        <4>1. /\ deliveries' \in Seq([msg : Nat, channel : ChannelNames, entry : Nat])
              /\ DOMAIN deliveries' = 1 .. (Len(deliveries) + 1) /\ Len(deliveries) \in Nat
              /\ deliveries'[Len(deliveries) + 1] = x
              /\ \A d \in 1 .. Len(deliveries) : deliveries'[d] = deliveries[d]
          <5> HIDE DEF x
          <5> QED BY <2>4, <3>2 DEF Typed
        <4>2. DOMAIN deliveries = 1 .. Len(deliveries)  BY DEF Typed
        <4>3. ASSUME NEW d \in DOMAIN deliveries' PROVE deliveries'[d].msg \in 1 .. Len(asked)
          <5>1. CASE d \in 1 .. Len(deliveries)  BY <4>1, <4>2, <5>1 DEF Typed
          <5>2. CASE d = Len(deliveries) + 1
            <6>1. deliveries'[d] = x /\ x.msg = Len(asked)  BY <4>1, <5>2
            <6> QED BY <2>3, <6>1
          <5> QED BY <4>1, <5>1, <5>2
        <4> QED BY <4>1, <4>3
      <3> QED BY <2>5, <3>1, <3>2
    <2>7. \/ faults' = faults /\ repeats' = repeats /\ reached' = reached + 1
          \/ faults' = faults - 1 /\ faults > 0 /\ repeats' = repeats /\ reached' = reached
          \/ /\ faults' = faults - 1 /\ faults > 0 /\ reached' = reached
             /\ repeats' = [repeats EXCEPT ![Len(asked)] = @ + 1]
      BY <1>6 DEF SendTo, Fault, NoFault
    <2>8. /\ faults' \in Nat /\ reached' \in Nat /\ repeats' \in [1 .. MaxMessages -> Nat]
          /\ \A i \in 1 .. MaxMessages : repeats'[i] + faults' <= MaxFaults
      <3>0. MaxFaults \in Nat  BY DEF RoutingAssumption
      <3>1. CASE faults' = faults /\ repeats' = repeats /\ reached' = reached + 1
        BY <3>1 DEF Typed
      <3>2. CASE faults' = faults - 1 /\ faults > 0 /\ repeats' = repeats /\ reached' = reached
        BY <3>0, <3>2 DEF Typed
      <3>3. CASE /\ faults' = faults - 1 /\ faults > 0 /\ reached' = reached
                 /\ repeats' = [repeats EXCEPT ![Len(asked)] = @ + 1]
        <4>1. faults' \in Nat /\ reached' \in Nat  BY <3>3 DEF Typed
        <4>2. repeats' \in [1 .. MaxMessages -> Nat]
          <5>1. repeats \in [1 .. MaxMessages -> Nat]  BY DEF Typed
          <5>2. repeats[Len(asked)] + 1 \in Nat  BY <2>3, <5>1
          <5> QED BY <3>3, <5>1, <5>2
        <4>3. ASSUME NEW i \in 1 .. MaxMessages PROVE repeats'[i] <= repeats[i] + 1
          <5>1. repeats[i] \in Nat /\ DOMAIN repeats = 1 .. MaxMessages  BY DEF Typed
          <5>2. repeats'[i] = IF i = Len(asked) THEN repeats[i] + 1 ELSE repeats[i]  BY <3>3, <5>1
          <5> QED BY <5>1, <5>2
        <4>4. ASSUME NEW i \in 1 .. MaxMessages PROVE repeats'[i] + faults' <= MaxFaults
          <5>1. repeats[i] + faults <= MaxFaults /\ repeats[i] \in Nat /\ faults \in Nat
            BY DEF Typed
          <5>2. repeats'[i] \in Nat /\ repeats'[i] <= repeats[i] + 1  BY <4>2, <4>3
          <5> QED BY <3>0, <3>3, <5>1, <5>2
        <4> QED BY <4>1, <4>2, <4>4
      <3> QED BY <2>7, <3>1, <3>2, <3>3
    <2> QED BY <2>1, <2>3, <2>6, <2>8 DEF Typed
  <1>7. CASE EndChannel
    <2> DEFINE v == IF ChannelSent(Head(queue)) THEN "ok" ELSE "failed"
    <2>1. /\ phase = "send" /\ phase' = "channel" /\ done' = [done EXCEPT ![v] = @ \cup {Head(queue)}]
          /\ UNCHANGED <<conf, sentToday, asked, only, entries, reached, owed, deliveries, repeats,
                         uncounted, faults>>
      BY <1>7 DEF EndChannel
    <2>2. Len(queue) >= 1 /\ queue \in Seq(ChannelNames)  BY <2>1 DEF QueueOK
    <2>3. Head(queue) \in ChannelNames /\ v \in Results  BY <2>2 DEF Results
    <2> HIDE DEF v
    <2>4. done' \in [Results -> SUBSET ChannelNames]  BY <2>1, <2>3 DEF Typed
    <2>5. phase' \in {"idle", "resolve", "channel", "send"} /\ only = owed /\ Len(asked) >= 1
      BY <2>1 DEF Typed
    <2> QED BY <2>1, <2>4, <2>5 DEF Typed
  <1>8. CASE EndDispatch
    <2>0. \/ sentToday' = sentToday + 1 /\ faults' = faults /\ uncounted' = uncounted
          \/ /\ sentToday' = sentToday /\ uncounted' = uncounted + 1
             /\ faults > 0 /\ faults' = faults - 1
          \/ sentToday' = sentToday /\ faults' = faults /\ uncounted' = uncounted
      BY <1>8 DEF EndDispatch, Fault, NoFault
    <2>1. /\ phase = "channel" /\ phase' = "idle"
          /\ UNCHANGED <<conf, asked, only, entries, reached, done, deliveries, repeats>>
      BY <1>8 DEF EndDispatch
    <2>2. sentToday \in Nat /\ uncounted \in Nat /\ faults \in Nat  BY DEF Typed
    <2>3. sentToday' \in Nat /\ uncounted' \in Nat /\ faults' \in Nat /\ faults' <= faults
      BY <2>0, <2>2
    <2>4. ASSUME NEW i \in 1 .. MaxMessages PROVE repeats[i] + faults' <= MaxFaults
      <3>1. repeats[i] \in Nat /\ repeats[i] + faults <= MaxFaults  BY DEF Typed
      <3>2. MaxFaults \in Nat  BY DEF RoutingAssumption
      <3> QED BY <2>2, <2>3, <3>1, <3>2
    <2> QED BY <2>1, <2>3, <2>4 DEF Typed
  <1> QED BY <1>1, <1>2, <1>3, <1>4, <1>5, <1>6, <1>7, <1>8 DEF RoutingNext

-----------------------------------------------------------------------------
(* The queue.                                                              *)

(* A channel is taken off the queue, and its result, if it has one, noted. *)
LEMMA TailKeeps ==
  ASSUME RoutingAssumption, Typed, QueueOK, phase \in {"channel", "send"}, Len(queue) >= 1,
         queue' = Tail(queue), UNCHANGED <<conf, asked>>, phase' = "channel",
         \A v \in Results : done'[v] \subseteq done[v] \cup {queue[1]}
  PROVE  QueueOK'
  <1> DEFINE chan == Channels(Msg)
  <1>1. /\ queue \in Seq(ChannelNames) /\ Tried \in Nat
        /\ \A j \in 1 .. Len(queue) : queue[j] = chan[Tried + j]
        /\ \A v \in Results : \A c \in done[v] : \E j \in 1 .. Tried : chan[j] = c
    BY DEF QueueOK
  <1>2. Channels(Msg)' = chan
    BY DEF Msg, Channels, DetermineChannels, Enabled
  <1>3. /\ queue' \in Seq(ChannelNames) /\ Len(queue') = Len(queue) - 1 /\ Len(queue) \in Nat
        /\ \A j \in 1 .. Len(queue') : queue'[j] = queue[j + 1]
    BY <1>1
  <1>4. Tried' = Tried + 1
    <2>1. Tried = Len(chan) - Len(queue) /\ Tried' = Len(chan) - Len(queue')
      BY <1>2 DEF Tried
    <2>2. Len(chan) \in Nat
      <3>1. Msg \in Messages  BY MsgTyped DEF Typed
      <3>2. Channels(Msg) \in Seq(ChannelNames)  BY <3>1, ChannelsTyped DEF Typed
      <3> QED BY <3>2
    <2> QED BY <1>3, <2>1, <2>2
  <1> HIDE DEF chan
  <1>5. \A j \in 1 .. Len(queue') : queue'[j] = chan[Tried' + j]
    <2> TAKE j \in 1 .. Len(queue')
    <2>1. j + 1 \in 1 .. Len(queue) /\ Tried' + j = Tried + (j + 1)
      <3>1. Len(queue) \in Nat /\ Len(queue') = Len(queue) - 1 /\ j \in 1 .. Len(queue')
        BY <1>3
      <3>2. Tried \in Nat  BY DEF QueueOK
      <3>3. \A l, i \in Nat : i \in 1 .. (l - 1) => i + 1 \in 1 .. l  OBVIOUS
      <3>4. \A p, i \in Nat : (p + 1) + i = p + (i + 1)  OBVIOUS
      <3>5. j \in Nat  BY <3>1
      <3> QED BY <1>4, <3>1, <3>2, <3>3, <3>4, <3>5
    <2> QED BY <1>1, <1>3, <2>1
  <1>6. ASSUME NEW v \in Results, NEW c \in done'[v] PROVE \E j \in 1 .. Tried' : chan[j] = c
    <2>1. CASE c \in done[v]
      <3>1. PICK j \in 1 .. Tried : chan[j] = c  BY <1>1, <2>1
      <3> QED BY <1>1, <1>4, <3>1
    <2>2. CASE c = queue[1]
      <3>1. queue[1] = chan[Tried + 1]  BY <1>1, <1>3
      <3> QED BY <1>1, <1>4, <2>2, <3>1
    <2> QED BY <2>1, <2>2
  <1> QED BY <1>1, <1>2, <1>3, <1>4, <1>5, <1>6 DEF QueueOK

LEMMA SameChannels ==
  ASSUME UNCHANGED <<conf, asked>>
  PROVE  /\ Msg' = Msg /\ Channels(Msg)' = Channels(Msg)
         /\ \A m, c : NamedOnce(m, c)' = NamedOnce(m, c)
  BY DEF Msg, NamedOnce, Channels, DetermineChannels, Enabled

LEMMA QueueStep ==
  ASSUME RoutingAssumption, RoutingInv, RoutingNext
  PROVE  QueueOK'
  <1> USE DEF RoutingInv
  <1>1. CASE phase' \notin {"channel", "send"}  BY <1>1 DEF QueueOK
  <1>2. CASE Resolve /\ phase' = "channel"
    <2>1. /\ queue' = Channels(Msg) /\ done' = NoResult /\ UNCHANGED <<conf, asked, only>>
          /\ Len(asked) >= 1
      BY <1>2 DEF Resolve, Typed
    <2>2. Channels(Msg)' = Channels(Msg)  BY <2>1, SameChannels
    <2>3. Channels(Msg) \in Seq(ChannelNames)  BY <2>1, MsgTyped, ChannelsTyped DEF Typed
    <2>4. Tried' = 0  BY <2>1, <2>2, <2>3 DEF Tried
    <2>5. \A j \in 1 .. Len(queue') : Tried' + j = j  BY <2>4
    <2>6. \A v \in Results : done'[v] = {}  BY <2>1 DEF NoResult, Results
    <2> QED BY <1>2, <2>1, <2>2, <2>3, <2>4, <2>5, <2>6 DEF QueueOK
  <1>3. CASE TakeChannel
    <2> DEFINE c == Head(queue)
               v == Verdict(c, Msg)
    <2>1. /\ phase = "channel" /\ queue # << >> /\ UNCHANGED <<conf, asked, only>>
          /\ queue \in Seq(ChannelNames)
      BY <1>3 DEF TakeChannel, QueueOK
    <2>2. Len(queue) >= 1 /\ c = queue[1]  BY <2>1
    <2>3. CASE Wanted(c) /\ v = "send"
      <3>1. phase' = "send" /\ UNCHANGED <<queue, done>>  BY <1>3, <2>3 DEF TakeChannel
      <3>2. Channels(Msg)' = Channels(Msg)  BY <2>1, SameChannels
      <3>3. Tried' = Tried  BY <3>1, <3>2 DEF Tried
      <3>4. Wanted(queue[1])'  BY <2>1, <2>2, <2>3, <3>1 DEF Wanted
      <3> QED BY <2>1, <2>2, <3>1, <3>2, <3>3, <3>4 DEF QueueOK
    <2>4. CASE ~ (Wanted(c) /\ v = "send")
      <3>1. /\ queue' = Tail(queue) /\ phase' = "channel"
            /\ done' = IF Wanted(c) THEN [done EXCEPT ![v] = @ \cup {c}] ELSE done
        BY <1>3, <2>1, <2>4 DEF TakeChannel
      <3> HIDE DEF v
      <3>2. \A u \in Results : done'[u] \subseteq done[u] \cup {queue[1]}
        BY <2>2, <3>1 DEF Typed
      <3> QED BY <2>1, <2>2, <3>1, <3>2, TailKeeps
    <2> QED BY <2>3, <2>4
  <1>4. ASSUME NEW entry \in entries, SendTo(entry) PROVE QueueOK'
    <2>1. phase = "send" /\ UNCHANGED <<conf, asked, only, phase, queue, done>>  BY <1>4 DEF SendTo
    <2>2. Channels(Msg)' = Channels(Msg)  BY <2>1, SameChannels
    <2>3. Tried' = Tried  BY <2>1, <2>2 DEF Tried
    <2>4. Wanted(queue[1])' = Wanted(queue[1])  BY <2>1 DEF Wanted
    <2> QED BY <2>1, <2>2, <2>3, <2>4 DEF QueueOK
  <1>5. CASE EndChannel
    <2> DEFINE v == IF ChannelSent(Head(queue)) THEN "ok" ELSE "failed"
    <2>1. /\ phase = "send" /\ UNCHANGED <<conf, asked, only>> /\ phase' = "channel"
          /\ queue \in Seq(ChannelNames) /\ Len(queue) >= 1 /\ queue' = Tail(queue)
          /\ done' = [done EXCEPT ![v] = @ \cup {Head(queue)}]
      BY <1>5 DEF EndChannel, QueueOK
    <2>2. Head(queue) = queue[1]  BY <2>1
    <2> HIDE DEF v
    <2>3. \A u \in Results : done'[u] \subseteq done[u] \cup {queue[1]}  BY <2>1, <2>2 DEF Typed
    <2> QED BY <2>1, <2>3, TailKeeps
  <1>6. ASSUME phase' \in {"channel", "send"}
        PROVE  \/ Resolve /\ phase' = "channel"
               \/ TakeChannel \/ EndChannel \/ \E entry \in entries : SendTo(entry)
    BY <1>6 DEF RoutingNext, Dispatch, DispatchChannels, DieAndReturn, Resolve, EndDispatch
  <1> QED BY <1>1, <1>2, <1>3, <1>4, <1>5, <1>6

-----------------------------------------------------------------------------
(* Copies.                                                                 *)

(* A step that delivers nothing and opens no way for another copy.         *)
LEMMA NothingDelivered ==
  ASSUME CopiesOK, UNCHANGED <<conf, asked, deliveries, repeats>>,
         \A c \in ChannelNames, entry \in Nat : MayGet(c, entry)' => MayGet(c, entry)
  PROVE  CopiesOK'
  <1>1. \A i, c, entry : Copies(i, c, entry)' = Copies(i, c, entry)  BY DEF Copies
  <1>2. \A m, c : NamedOnce(m, c)' = NamedOnce(m, c)  BY SameChannels
  <1> QED BY <1>1, <1>2 DEF CopiesOK

LEMMA CopiesDispatch ==
  ASSUME RoutingAssumption, RoutingInv, NEW m \in Messages, Dispatch(m)
  PROVE  CopiesOK'
  <1>0. Typed  BY DEF RoutingInv
  <1>1. /\ asked' = Append(asked, m) /\ Len(asked) < MaxMessages
        /\ UNCHANGED <<conf, deliveries, repeats>>
    BY DEF Dispatch, ghostVars
  <1>2. /\ Len(asked') = Len(asked) + 1 /\ Len(asked) \in Nat
        /\ \A i \in 1 .. Len(asked) : asked'[i] = asked[i]
    BY <1>0, <1>1 DEF Typed
  <1>3. \A i, c, entry : Copies(i, c, entry)' = Copies(i, c, entry)  BY <1>1 DEF Copies
  <1>4. \A i, c : NamedOnce(asked[i], c)' = NamedOnce(asked'[i], c)
    BY <1>1 DEF NamedOnce, Channels, DetermineChannels, Enabled
  <1>5. ASSUME NEW c, NEW entry PROVE Copies(Len(asked) + 1, c, entry) = 0
    <2>1. \A d \in DOMAIN deliveries : deliveries[d].msg # Len(asked) + 1
      <3>1. \A d \in DOMAIN deliveries : deliveries[d].msg \in 1 .. Len(asked)
        BY <1>0 DEF Typed
      <3>2. \A i \in 1 .. Len(asked) : i # Len(asked) + 1  BY <1>2
      <3> QED BY <3>1, <3>2
    <2>2. {d \in DOMAIN deliveries :
             deliveries[d] = [msg |-> Len(asked) + 1, channel |-> c, entry |-> entry]} = {}
      BY <2>1
    <2> QED BY <2>2, FS_EmptySet DEF Copies
  <1> SUFFICES ASSUME NEW i \in 1 .. Len(asked'), NEW c \in ChannelNames, NEW entry \in Nat,
                      NamedOnce(asked'[i], c)
               PROVE  /\ Copies(i, c, entry) <= 1 + repeats[i]
                      /\ i = Len(asked') => Copies(i, c, entry) <= repeats[i]
    BY <1>1, <1>3, <1>4 DEF CopiesOK
  <1>6. CASE i \in 1 .. Len(asked)
    <2>1. NamedOnce(asked[i], c)  BY <1>2, <1>6
    <2> QED BY <1>2, <1>6, <2>1 DEF RoutingInv, CopiesOK
  <1>7. CASE i = Len(asked) + 1
    <2>1. repeats[i] \in Nat  BY <1>0, <1>1, <1>2, <1>7 DEF Typed, RoutingAssumption
    <2> QED BY <1>5, <1>7, <2>1
  <1> QED BY <1>2, <1>6, <1>7

LEMMA CopiesDie ==
  ASSUME RoutingAssumption, RoutingInv, DieAndReturn
  PROVE  CopiesOK'
  <1>0. Typed  BY DEF RoutingInv
  <1>1. /\ Len(asked) \in 1 .. MaxMessages
        /\ repeats' = [repeats EXCEPT ![Len(asked)] = @ + 1]
        /\ UNCHANGED <<conf, asked, deliveries>>
    BY <1>0 DEF DieAndReturn, Typed
  <1>2. \A i \in 1 .. MaxMessages :
          repeats[i] \in Nat /\ repeats'[i] = IF i = Len(asked) THEN repeats[i] + 1 ELSE repeats[i]
    BY <1>0, <1>1 DEF Typed
  <1>3. \A i, c, entry : Copies(i, c, entry)' = Copies(i, c, entry)  BY <1>1 DEF Copies
  <1>4. \A m, c : NamedOnce(m, c)' = NamedOnce(m, c)  BY <1>1, SameChannels
  <1> SUFFICES ASSUME NEW i \in 1 .. Len(asked), NEW c \in ChannelNames, NEW entry \in Nat,
                      NamedOnce(asked[i], c)
               PROVE  /\ Copies(i, c, entry) <= 1 + repeats'[i]
                      /\ i = Len(asked) => Copies(i, c, entry) <= repeats'[i]
    BY <1>1, <1>3, <1>4 DEF CopiesOK
  <1>5. Copies(i, c, entry) <= 1 + repeats[i]  BY DEF RoutingInv, CopiesOK
  <1>6. Copies(i, c, entry) \in Nat  BY <1>0, CopiesCounted
  <1>7. i \in 1 .. MaxMessages  BY <1>1
  <1> QED BY <1>2, <1>5, <1>6, <1>7

(* A channel that the list names once has no result while it is in hand,   *)
(* and does not come again.                                                *)
LEMMA OnlyHere ==
  ASSUME RoutingAssumption, Typed, QueueOK, phase = "send", NamedOnce(asked[Len(asked)], queue[1])
  PROVE  queue[1] \notin done.failed /\ \A j \in 2 .. Len(queue) : queue[j] # queue[1]
  <1> DEFINE chan == Channels(Msg)
  <1>1. Len(asked) >= 1 /\ Msg = asked[Len(asked)] /\ Msg \in Messages  BY MsgTyped DEF Typed
  <1>2. chan \in Seq(ChannelNames)  BY <1>1, ChannelsTyped DEF Typed
  <1>3. /\ queue \in Seq(ChannelNames) /\ Tried \in Nat /\ Len(queue) >= 1
        /\ \A j \in 1 .. Len(queue) : queue[j] = chan[Tried + j]
        /\ \A c \in done["failed"] : \E j \in 1 .. Tried : chan[j] = c
    BY DEF QueueOK, Results
  <1>4. \A i, j \in DOMAIN chan : chan[i] = queue[1] /\ chan[j] = queue[1] => i = j
    BY <1>1 DEF NamedOnce
  <1>5. Tried = Len(chan) - Len(queue)  BY DEF Tried
  <1> HIDE DEF chan
  <1>6. Len(chan) \in Nat /\ DOMAIN chan = 1 .. Len(chan) /\ Len(queue) \in Nat  BY <1>2, <1>3
  <1>7. Tried + 1 \in DOMAIN chan /\ chan[Tried + 1] = queue[1]  BY <1>3, <1>5, <1>6
  <1>8. ASSUME queue[1] \in done["failed"] PROVE FALSE
    <2>1. PICK j \in 1 .. Tried : chan[j] = queue[1]  BY <1>3, <1>8
    <2>2. j \in DOMAIN chan /\ j # Tried + 1  BY <1>3, <1>5, <1>6, <2>1
    <2> QED BY <1>4, <1>7, <2>1, <2>2
  <1>9. ASSUME NEW j \in 2 .. Len(queue), queue[j] = queue[1] PROVE FALSE
    <2>1. Tried + j \in DOMAIN chan /\ chan[Tried + j] = queue[1] /\ Tried + j # Tried + 1
      BY <1>3, <1>5, <1>6, <1>9
    <2> QED BY <1>4, <1>7, <2>1
  <1> QED BY <1>8, <1>9

LEMMA CopiesSend ==
  ASSUME RoutingAssumption, RoutingInv, NEW to \in entries, SendTo(to)
  PROVE  CopiesOK'
  <1> DEFINE k == Len(asked)
             x == [msg |-> Len(asked), channel |-> Head(queue), entry |-> to]
  <1>0. Typed /\ QueueOK /\ CopiesOK  BY DEF RoutingInv
  <1>1. /\ phase = "send" /\ entries' = entries \ {to}
        /\ UNCHANGED <<conf, sentToday, asked, only, phase, queue, done, owed, uncounted>>
    BY DEF SendTo
  <1>2. \/ reached' = reached + 1 /\ deliveries' = Append(deliveries, x) /\ repeats' = repeats
        \/ reached' = reached /\ deliveries' = deliveries /\ repeats' = repeats
        \/ /\ reached' = reached /\ deliveries' = Append(deliveries, x)
           /\ repeats' = [repeats EXCEPT ![Len(asked)] = @ + 1]
    BY DEF SendTo
  <1>3. /\ Len(queue) >= 1 /\ Head(queue) = queue[1] /\ queue[1] \in ChannelNames
        /\ k \in 1 .. MaxMessages /\ to \in Nat /\ reached \in Nat
    BY <1>0, <1>1 DEF Typed, QueueOK
  <1>4. x \in [msg : Nat, channel : ChannelNames, entry : Nat]  BY <1>3
  <1>5. ASSUME NEW c \in ChannelNames, NEW entry \in Nat, MayGet(c, entry)' PROVE MayGet(c, entry)
    <2>1. Wanted(c)' = Wanted(c)  BY <1>1 DEF Wanted
    <2>2. entries' \subseteq entries /\ (reached' = 0 => reached = 0)  BY <1>1, <1>2, <1>3
    <2> QED BY <1>1, <1>5, <2>1, <2>2 DEF MayGet
  <1>6. \A m, c : NamedOnce(m, c)' = NamedOnce(m, c)  BY <1>1, SameChannels
  <1>7. CASE deliveries' = deliveries /\ repeats' = repeats
    BY <1>0, <1>1, <1>5, <1>7, NothingDelivered
  <1>8. ASSUME deliveries' = Append(deliveries, x),
               NEW i, NEW c, NEW entry
        PROVE  /\ Copies(i, c, entry) \in Nat
               /\ x = [msg |-> i, channel |-> c, entry |-> entry]
                    => Copies(i, c, entry)' = Copies(i, c, entry) + 1
               /\ x # [msg |-> i, channel |-> c, entry |-> entry]
                    => Copies(i, c, entry)' = Copies(i, c, entry)
    <2> HIDE DEF x
    <2> QED BY <1>0, <1>4, <1>8, OneMoreCopy, CopiesCounted
  <1>9. ASSUME NEW i, NEW c, NEW entry
        PROVE  x = [msg |-> i, channel |-> c, entry |-> entry] <=> i = k /\ c = queue[1] /\ entry = to
    BY <1>3
  <1>10. CASE deliveries' = Append(deliveries, x) /\ repeats' = repeats /\ reached' = reached + 1
    <2> SUFFICES ASSUME NEW i \in 1 .. k, NEW c \in ChannelNames, NEW entry \in Nat,
                        NamedOnce(asked[i], c)
                 PROVE  /\ Copies(i, c, entry)' <= 1 + repeats[i]
                        /\ i = k /\ MayGet(c, entry)' => Copies(i, c, entry)' <= repeats[i]
      BY <1>1, <1>6, <1>10 DEF CopiesOK
    <2>1. /\ Copies(i, c, entry) <= 1 + repeats[i]
          /\ i = k /\ MayGet(c, entry) => Copies(i, c, entry) <= repeats[i]
      BY <1>0 DEF CopiesOK
    <2>2. repeats[i] \in Nat
      <3>1. repeats \in [1 .. MaxMessages -> Nat] /\ Len(asked) <= MaxMessages
        BY <1>0 DEF Typed
      <3>2. i \in 1 .. MaxMessages  BY <1>3, <3>1
      <3> QED BY <3>1, <3>2
    <2>3. CASE i = k /\ c = queue[1] /\ entry = to
      <3>1. MayGet(c, entry)  BY <1>1, <2>3 DEF MayGet
      <3>2. Copies(i, c, entry)' = Copies(i, c, entry) + 1 /\ Copies(i, c, entry) \in Nat
        BY <1>8, <1>9, <1>10, <2>3
      <3>3. Copies(i, c, entry)' <= 1 + repeats[i]  BY <2>1, <2>2, <2>3, <3>1, <3>2
      <3>4. queue[1] \notin done.failed /\ \A j \in 2 .. Len(queue) : queue[j] # queue[1]
        BY <1>0, <1>1, <2>3, OnlyHere
      <3>5. ~ MayGet(c, entry)'
        <4>1. reached' # 0 /\ entry \notin entries'  BY <1>1, <1>3, <1>10, <2>3
        <4> QED BY <1>1, <2>3, <3>4, <4>1 DEF MayGet
      <3> QED BY <3>3, <3>5
    <2>4. CASE ~ (i = k /\ c = queue[1] /\ entry = to)
      <3>1. Copies(i, c, entry)' = Copies(i, c, entry)  BY <1>8, <1>9, <1>10, <2>4
      <3> QED BY <1>5, <2>1, <3>1
    <2> QED BY <2>3, <2>4
  <1>11. CASE /\ deliveries' = Append(deliveries, x) /\ reached' = reached
              /\ repeats' = [repeats EXCEPT ![Len(asked)] = @ + 1]
    <2> SUFFICES ASSUME NEW i \in 1 .. k, NEW c \in ChannelNames, NEW entry \in Nat,
                        NamedOnce(asked[i], c)
                 PROVE  /\ Copies(i, c, entry)' <= 1 + repeats'[i]
                        /\ i = k /\ MayGet(c, entry)' => Copies(i, c, entry)' <= repeats'[i]
      BY <1>1, <1>6 DEF CopiesOK
    <2>1. /\ Copies(i, c, entry) <= 1 + repeats[i]
          /\ i = k /\ MayGet(c, entry) => Copies(i, c, entry) <= repeats[i]
      BY <1>0 DEF CopiesOK
    <2>2. /\ repeats[i] \in Nat
          /\ repeats'[i] = IF i = k THEN repeats[i] + 1 ELSE repeats[i]
      <3>1. repeats \in [1 .. MaxMessages -> Nat] /\ Len(asked) <= MaxMessages
        BY <1>0 DEF Typed
      <3>2. i \in 1 .. MaxMessages  BY <1>3, <3>1
      <3> QED BY <1>3, <1>11, <3>1, <3>2
    <2>3. CASE i = k /\ c = queue[1] /\ entry = to
      <3>1. Copies(i, c, entry)' = Copies(i, c, entry) + 1 /\ Copies(i, c, entry) \in Nat
        BY <1>8, <1>9, <1>11, <2>3
      <3>2. MayGet(c, entry)' => MayGet(c, entry)  BY <1>5
      <3> QED BY <2>1, <2>2, <2>3, <3>1, <3>2
    <2>4. CASE ~ (i = k /\ c = queue[1] /\ entry = to)
      <3>1. Copies(i, c, entry)' = Copies(i, c, entry) /\ Copies(i, c, entry) \in Nat
        BY <1>8, <1>9, <1>11, <2>4
      <3>2. MayGet(c, entry)' => MayGet(c, entry)  BY <1>5
      <3> QED BY <2>1, <2>2, <3>1, <3>2
    <2> QED BY <2>3, <2>4
  <1> QED BY <1>2, <1>7, <1>10, <1>11

LEMMA CopiesStep ==
  ASSUME RoutingAssumption, RoutingInv, RoutingNext
  PROVE  CopiesOK'
  <1>0. Typed /\ QueueOK /\ CopiesOK  BY DEF RoutingInv
  <1>1. ASSUME NEW m \in Messages, Dispatch(m) PROVE CopiesOK'  BY <1>1, CopiesDispatch
  <1>2. CASE DieAndReturn  BY <1>2, CopiesDie
  <1>3. ASSUME NEW to \in entries, SendTo(to) PROVE CopiesOK'  BY <1>3, CopiesSend
  <1>4. CASE DispatchChannels
    <2>1. /\ phase = "idle" /\ phase' = "resolve" /\ only' = owed /\ owed # {}
          /\ UNCHANGED <<conf, asked, deliveries, repeats>>
      BY <1>4 DEF DispatchChannels, ghostVars
    <2>2. \A c, entry : MayGet(c, entry)' => MayGet(c, entry)  BY <2>1 DEF MayGet, Wanted
    <2> QED BY <1>0, <2>1, <2>2, NothingDelivered
  <1>5. CASE Resolve
    <2>1. /\ phase = "resolve" /\ UNCHANGED <<conf, asked, only, deliveries, repeats>>
          /\ \/ phase' = "idle" /\ owed' \subseteq owed
             \/ phase' = "channel" /\ done' = NoResult
      BY <1>5 DEF Resolve, ghostVars
    <2>2. only = owed  BY <1>0, <2>1 DEF Typed
    <2>3. ASSUME NEW c \in ChannelNames, NEW entry \in Nat, MayGet(c, entry)' PROVE MayGet(c, entry)
      <3>1. CASE phase' = "idle" /\ owed' \subseteq owed
        BY <2>1, <2>2, <2>3, <3>1 DEF MayGet, Wanted
      <3>2. CASE phase' = "channel" /\ done' = NoResult
        BY <2>1, <2>3, <3>2 DEF MayGet, Wanted, NoResult
      <3> QED BY <2>1, <3>1, <3>2
    <2> QED BY <1>0, <2>1, <2>3, NothingDelivered
  <1>6. CASE TakeChannel
    <2> DEFINE h == Head(queue)
               v == Verdict(h, Msg)
    <2>1. /\ phase = "channel" /\ queue # << >> /\ queue \in Seq(ChannelNames)
          /\ UNCHANGED <<conf, asked, only, deliveries, repeats>>
      BY <1>0, <1>6 DEF TakeChannel, QueueOK
    <2>2. Len(queue) \in Nat /\ Len(queue) >= 1 /\ h = queue[1]  BY <2>1
    <2>3. ASSUME NEW c \in ChannelNames, NEW entry \in Nat, MayGet(c, entry)' PROVE MayGet(c, entry)
      <3>0. Wanted(c)' = Wanted(c)  BY <2>1 DEF Wanted
      <3>1. CASE Wanted(h) /\ v = "send"
        <4>1. phase' = "send" /\ UNCHANGED <<queue, done>>  BY <1>6, <3>1 DEF TakeChannel
        <4>2. CASE c \in done.failed  BY <2>1, <4>2 DEF MayGet
        <4>3. CASE Wanted(c) /\ \E j \in 2 .. Len(queue) : queue[j] = c
          <5>1. \E j \in 1 .. Len(queue) : queue[j] = c  BY <2>2, <4>3
          <5> QED BY <2>1, <4>3, <5>1 DEF MayGet
        <4>4. CASE c = queue[1]
          <5>1. 1 \in 1 .. Len(queue) /\ Wanted(c)  BY <2>2, <3>1, <4>4
          <5> QED BY <2>1, <4>4, <5>1 DEF MayGet
        <4> QED BY <2>3, <3>0, <4>1, <4>2, <4>3, <4>4 DEF MayGet
      <3>2. CASE ~ (Wanted(h) /\ v = "send")
        <4>1. /\ queue' = Tail(queue) /\ phase' = "channel"
              /\ done' = IF Wanted(h) THEN [done EXCEPT ![v] = @ \cup {h}] ELSE done
          BY <1>6, <2>1, <3>2 DEF TakeChannel
        <4>2. /\ Len(queue') = Len(queue) - 1
              /\ \A j \in 1 .. Len(queue') : queue'[j] = queue[j + 1] /\ j + 1 \in 1 .. Len(queue)
          BY <2>1, <2>2, <4>1
        <4>3. CASE Wanted(c) /\ \E j \in 1 .. Len(queue') : queue'[j] = c
          <5>1. \E j \in 1 .. Len(queue) : queue[j] = c  BY <4>2, <4>3
          <5> QED BY <2>1, <4>3, <5>1 DEF MayGet
        <4>4. CASE c \in done'.failed
          <5>1. c \in done.failed \/ (c = h /\ Wanted(h))
            <6> HIDE DEF v, h
            <6> QED BY <1>0, <4>1, <4>4 DEF Typed, Results
          <5>2. CASE c \in done.failed  BY <2>1, <5>2 DEF MayGet
          <5>3. CASE c = h /\ Wanted(h)
            <6>1. 1 \in 1 .. Len(queue) /\ queue[1] = c  BY <2>2, <5>3
            <6> QED BY <2>1, <5>3, <6>1 DEF MayGet
          <5> QED BY <5>1, <5>2, <5>3
        <4> QED BY <2>3, <3>0, <4>1, <4>3, <4>4 DEF MayGet
      <3> QED BY <3>1, <3>2
    <2> QED BY <1>0, <2>1, <2>3, NothingDelivered
  <1>7. CASE EndChannel
    <2> DEFINE v == IF ChannelSent(Head(queue)) THEN "ok" ELSE "failed"
    <2>1. /\ phase = "send" /\ phase' = "channel" /\ queue' = Tail(queue) /\ entries = {}
          /\ queue \in Seq(ChannelNames) /\ Len(queue) >= 1
          /\ done' = [done EXCEPT ![v] = @ \cup {Head(queue)}]
          /\ UNCHANGED <<conf, asked, only, deliveries, repeats>>
      BY <1>0, <1>7 DEF EndChannel, QueueOK
    <2>2. /\ Head(queue) = queue[1] /\ Len(queue') = Len(queue) - 1 /\ Len(queue) \in Nat
          /\ \A j \in 1 .. Len(queue') : queue'[j] = queue[j + 1] /\ j + 1 \in 2 .. Len(queue)
      BY <2>1
    <2>3. v = "failed" => reached = 0  BY <1>0 DEF ChannelSent, Typed
    <2>4. ASSUME NEW c \in ChannelNames, NEW entry \in Nat, MayGet(c, entry)' PROVE MayGet(c, entry)
      <3>0. Wanted(c)' = Wanted(c)  BY <2>1 DEF Wanted
      <3>1. CASE c \in done'.failed
        <4>1. c \in done.failed \/ (c = queue[1] /\ v = "failed")
          <5> HIDE DEF v
          <5> QED BY <1>0, <2>1, <2>2, <3>1 DEF Typed, Results
        <4> QED BY <2>1, <2>3, <4>1 DEF MayGet
      <3>2. CASE Wanted(c) /\ \E j \in 1 .. Len(queue') : queue'[j] = c
        <4>1. \E j \in 2 .. Len(queue) : queue[j] = c  BY <2>2, <3>2
        <4> QED BY <2>1, <3>2, <4>1 DEF MayGet
      <3> QED BY <2>1, <2>4, <3>0, <3>1, <3>2 DEF MayGet
    <2> QED BY <1>0, <2>1, <2>4, NothingDelivered
  <1>8. CASE EndDispatch
    <2>1. /\ phase = "channel" /\ phase' = "idle" /\ owed' = done.failed
          /\ UNCHANGED <<conf, asked, deliveries, repeats>>
      BY <1>8 DEF EndDispatch
    <2>2. \A c, entry : MayGet(c, entry)' => MayGet(c, entry)  BY <2>1 DEF MayGet
    <2> QED BY <1>0, <2>1, <2>2, NothingDelivered
  <1> QED BY <1>1, <1>2, <1>3, <1>4, <1>5, <1>6, <1>7, <1>8 DEF RoutingNext

-----------------------------------------------------------------------------
(* The cap.                                                                *)

(* An addressed message has one channel: it has a result or is queued.     *)
LEMMA AddressedQueue ==
  ASSUME RoutingAssumption, Typed, QueueOK, Sending
  PROVE  /\ queue # << >> => done.ok = {}
         /\ done.ok \subseteq {"email", "telegram"}
  <1>1. Len(asked) >= 1 /\ Msg = asked[Len(asked)] /\ Msg \in Messages /\ Msg.to # "nobody"
    BY MsgTyped DEF Typed, Sending, AddressedTo
  <1>2. Len(Channels(Msg)) = 1 /\ Channels(Msg)[1] \in {"email", "telegram"}
    BY <1>1, ChannelsTyped DEF Typed
  <1>3. /\ queue \in Seq(ChannelNames) /\ Tried \in Nat
        /\ \A c \in done["ok"] : \E j \in 1 .. Tried : Channels(Msg)[j] = c
    BY DEF QueueOK, Results, Sending
  <1>4. Tried = 1 - Len(queue) /\ Len(queue) \in Nat  BY <1>2, <1>3 DEF Tried
  <1>5. ASSUME queue # << >> PROVE Tried = 0
    <2>1. Len(queue) >= 1  BY <1>3, <1>4, <1>5
    <2>2. \A p, l \in Nat : p = 1 - l /\ l >= 1 => p = 0  OBVIOUS
    <2>3. Tried \in Nat /\ Len(queue) \in Nat  BY <1>3, <1>4
    <2> QED BY <1>4, <2>1, <2>2, <2>3
  <1>6. \A j \in 1 .. Tried : j = 1  BY <1>3, <1>4
  <1>7. queue # << >> => done["ok"] = {}  BY <1>3, <1>5
  <1>8. done["ok"] \subseteq {"email", "telegram"}  BY <1>2, <1>3, <1>6
  <1> QED BY <1>7, <1>8

(* What came does not change, and neither does what must explain it.       *)
LEMMA CapFrame ==
  ASSUME RoutingAssumption, Typed, CapInv,
         UNCHANGED <<conf, asked, deliveries, repeats, sentToday, uncounted>>,
         InFlight => InFlight', Sending' => sentToday < conf.dailyCap
  PROVE  CapInv'
  <1>1. Arrived' = Arrived  BY DEF Arrived, AddressedTo
  <1>2. Summed(repeats') = Summed(repeats)  OBVIOUS
  <1>3. /\ Arrived \in Nat /\ Summed(repeats) \in Nat
        /\ sentToday \in Nat /\ uncounted \in Nat
    BY ArrivedCounted, SummedCounted DEF Typed
  <1>4. CASE InFlight  BY <1>1, <1>2, <1>4 DEF CapInv
  <1>5. CASE ~ InFlight /\ ~ InFlight'  BY <1>1, <1>2, <1>5 DEF CapInv
  <1>6. CASE ~ InFlight /\ InFlight'  BY <1>1, <1>2, <1>3, <1>6 DEF CapInv
  <1> QED BY <1>4, <1>5, <1>6

LEMMA CapStep ==
  ASSUME RoutingAssumption, RoutingInv, RoutingNext
  PROVE  OneEntry' /\ CapInv'
  <1>0. Typed /\ QueueOK /\ OneEntry /\ CapInv  BY DEF RoutingInv
  <1>9. /\ Arrived \in Nat /\ Summed(repeats) \in Nat /\ sentToday \in Nat /\ uncounted \in Nat
        /\ conf.dailyCap \in Nat
    BY <1>0, ArrivedCounted, SummedCounted DEF Typed, RoutingAssumption
  <1>1. ASSUME NEW m \in Messages, Dispatch(m) PROVE OneEntry' /\ CapInv'
    <2>1. /\ phase = "idle" /\ phase' = "resolve" /\ asked' = Append(asked, m)
          /\ UNCHANGED <<conf, sentToday, deliveries, repeats, uncounted>>
      BY <1>1 DEF Dispatch, ghostVars
    <2>2. \A d \in DOMAIN deliveries :
            AddressedTo(deliveries[d].msg)' = AddressedTo(deliveries[d].msg)
      <3>1. asked \in Seq(Messages)
            /\ \A d \in DOMAIN deliveries : deliveries[d].msg \in 1 .. Len(asked)
        BY <1>0 DEF Typed
      <3>2. \A i \in 1 .. Len(asked) : asked'[i] = asked[i]  BY <2>1, <3>1
      <3> QED BY <2>1, <3>1, <3>2 DEF AddressedTo
    <2>3. Arrived' = Arrived  BY <2>1, <2>2 DEF Arrived
    <2>4. ~ InFlight /\ ~ InFlight' /\ ~ Sending'  BY <2>1 DEF InFlight, Sending
    <2>5. CapInv'  BY <1>0, <2>1, <2>3, <2>4 DEF CapInv
    <2> QED BY <2>1, <2>5 DEF OneEntry
  <1>2. CASE DispatchChannels
    <2>1. /\ phase = "idle" /\ phase' = "resolve"
          /\ UNCHANGED <<conf, asked, sentToday, deliveries, repeats, uncounted>>
      BY <1>2 DEF DispatchChannels, ghostVars
    <2>2. ~ InFlight /\ ~ Sending'  BY <2>1 DEF InFlight, Sending
    <2> QED BY <1>0, <2>1, <2>2, CapFrame DEF OneEntry
  <1>3. CASE DieAndReturn
    <2>1. /\ phase' = "resolve" /\ faults > 0 /\ Len(asked) \in 1 .. MaxMessages
          /\ repeats' = [repeats EXCEPT ![Len(asked)] = @ + 1]
          /\ UNCHANGED <<conf, asked, sentToday, deliveries, uncounted>>
      BY <1>0, <1>3 DEF DieAndReturn, Fault, Typed
    <2>2. Summed(repeats') = Summed(repeats) + 1
      <3>1. repeats[Len(asked)] + 1 <= MaxFaults
        <4>1. repeats[Len(asked)] + faults <= MaxFaults /\ repeats[Len(asked)] \in Nat /\ faults \in Nat
          BY <1>0, <2>1 DEF Typed
        <4> QED BY <2>1, <4>1 DEF RoutingAssumption
      <3>2. repeats \in [1 .. MaxMessages -> Nat]  BY <1>0 DEF Typed
      <3> QED BY <2>1, <3>1, <3>2, OneMoreSummed
    <2>3. Arrived' = Arrived  BY <2>1 DEF Arrived, AddressedTo
    <2>4. ~ InFlight' /\ ~ Sending'  BY <2>1 DEF InFlight, Sending
    <2>5. Arrived <= sentToday + Summed(repeats) + uncounted + 1  BY <1>0, <1>9 DEF CapInv
    <2>6. CapInv'  BY <1>0, <1>9, <2>1, <2>2, <2>3, <2>4, <2>5 DEF CapInv
    <2> QED BY <2>1, <2>6 DEF OneEntry
  <1>4. CASE Resolve
    <2>1. /\ phase = "resolve" /\ phase' \in {"idle", "channel"}
          /\ UNCHANGED <<conf, asked, sentToday, deliveries, repeats, uncounted>>
          /\ phase' = "channel" => Msg.to = "nobody" \/ ~ Refused(Msg)
      BY <1>4 DEF Resolve, ghostVars
    <2>2. ~ InFlight  BY <2>1 DEF InFlight, Sending
    <2>3. Sending' => sentToday < conf.dailyCap
      <3> SUFFICES ASSUME Sending' PROVE sentToday < conf.dailyCap
        OBVIOUS
      <3>1. phase' = "channel" /\ Msg.to # "nobody"  BY <2>1 DEF Sending, AddressedTo, Msg
      <3>2. ~ (sentToday >= conf.dailyCap)  BY <2>1, <3>1 DEF Refused
      <3> QED BY <1>9, <3>2
    <2> QED BY <1>0, <2>1, <2>2, <2>3, CapFrame DEF OneEntry
  <1>5. CASE TakeChannel
    <2> DEFINE h == Head(queue)
               v == Verdict(h, Msg)
    <2>1. /\ phase = "channel" /\ queue # << >> /\ Len(asked) >= 1
          /\ UNCHANGED <<conf, asked, sentToday, deliveries, repeats, uncounted>>
      BY <1>0, <1>5 DEF TakeChannel, Typed
    <2>2. Sending' => Sending  BY <2>1 DEF Sending, AddressedTo
    <2>3. ~ InFlight  BY <1>0, <2>1, AddressedQueue DEF InFlight
    <2>4. CapInv'  BY <1>0, <2>1, <2>2, <2>3, CapFrame DEF CapInv
    <2>5. OneEntry'
      <3> SUFFICES ASSUME phase' = "send", Sending'
                   PROVE  reached' = 0 /\ entries' \subseteq {1}
        BY DEF OneEntry
      <3>1. v = "send" /\ entries' = Recipients(h, Msg) /\ reached' = 0
        BY <1>5, <2>1 DEF TakeChannel
      <3>2. Msg \in Messages /\ Msg.to # "nobody"
        BY <1>0, <2>1, <2>2, MsgTyped DEF Sending, AddressedTo
      <3> QED BY <1>0, <3>1, <3>2, RecipientsTyped DEF Typed
    <2> QED BY <2>4, <2>5
  <1>6. ASSUME NEW to \in entries, SendTo(to) PROVE OneEntry' /\ CapInv'
    <2> DEFINE x == [msg |-> Len(asked), channel |-> Head(queue), entry |-> to]
    <2>1. /\ phase = "send" /\ phase' = "send" /\ entries' = entries \ {to}
          /\ UNCHANGED <<conf, asked, sentToday, uncounted>>
      BY <1>6 DEF SendTo
    <2>2. \/ reached' = reached + 1 /\ deliveries' = Append(deliveries, x) /\ repeats' = repeats
          \/ reached' = reached /\ deliveries' = deliveries /\ repeats' = repeats
          \/ /\ reached' = reached /\ deliveries' = Append(deliveries, x) /\ faults > 0
             /\ repeats' = [repeats EXCEPT ![Len(asked)] = @ + 1]
      BY <1>6 DEF SendTo, Fault
    <2>3. /\ queue \in Seq(ChannelNames) /\ Len(queue) >= 1 /\ Len(asked) \in 1 .. MaxMessages
          /\ to \in Nat /\ reached \in Nat
      BY <1>0, <2>1 DEF Typed, QueueOK
    <2>4. x \in [msg : Nat, channel : ChannelNames, entry : Nat] /\ x.msg = Len(asked)  BY <2>3
    <2>5. Sending' = Sending /\ (Sending <=> AddressedTo(Len(asked)))
      BY <2>1 DEF Sending, AddressedTo
    <2>6. Sending => reached = 0 /\ entries' = {}  BY <1>0, <2>1 DEF OneEntry
    <2>7. OneEntry'
      <3> SUFFICES ASSUME Sending
                   PROVE  (reached' = 0 /\ entries' \subseteq {1})
                          \/ (reached' = 1 /\ entries' = {})
        BY <2>5 DEF OneEntry
      <3> QED BY <2>2, <2>3, <2>6
    <2>8. InFlight <=> Sending /\ reached = 1  BY <2>1 DEF InFlight
    <2>9. InFlight' <=> Sending /\ reached' = 1  BY <2>1, <2>5 DEF InFlight
    <2>10. deliveries' = Append(deliveries, x) => Arrived' = Arrived + (IF Sending THEN 1 ELSE 0)
      <3> SUFFICES ASSUME deliveries' = Append(deliveries, x)
                   PROVE  Arrived' = Arrived + (IF Sending THEN 1 ELSE 0)
        OBVIOUS
      <3> HIDE DEF x
      <3> QED BY <1>0, <2>1, <2>4, <2>5, OneMoreArrived
    <2>11. Arrived <= sentToday + Summed(repeats) + uncounted + (IF InFlight THEN 1 ELSE 0)
      BY <1>0 DEF CapInv
    <2>12. Arrived' <= sentToday + Summed(repeats') + uncounted + (IF InFlight' THEN 1 ELSE 0)
      <3> HIDE DEF x
      <3>1. CASE reached' = reached + 1 /\ deliveries' = Append(deliveries, x) /\ repeats' = repeats
        <4>1. CASE Sending
          <5>1. ~ InFlight /\ InFlight' /\ Arrived' = Arrived + 1
            BY <2>6, <2>8, <2>9, <2>10, <3>1, <4>1
          <5> QED BY <1>9, <2>11, <3>1, <5>1
        <4>2. CASE ~ Sending
          <5>1. ~ InFlight /\ ~ InFlight' /\ Arrived' = Arrived
            BY <1>9, <2>8, <2>9, <2>10, <3>1, <4>2
          <5> QED BY <2>11, <3>1, <5>1
        <4> QED BY <4>1, <4>2
      <3>2. CASE reached' = reached /\ deliveries' = deliveries /\ repeats' = repeats
        <4>1. Arrived' = Arrived  BY <2>1, <3>2 DEF Arrived, AddressedTo
        <4>2. InFlight' <=> InFlight  BY <2>8, <2>9, <3>2
        <4> QED BY <2>11, <3>2, <4>1, <4>2
      <3>3. CASE /\ reached' = reached /\ deliveries' = Append(deliveries, x) /\ faults > 0
                 /\ repeats' = [repeats EXCEPT ![Len(asked)] = @ + 1]
        <4>1. Summed(repeats') = Summed(repeats) + 1
          <5>1. repeats[Len(asked)] + 1 <= MaxFaults
            <6>1. /\ repeats[Len(asked)] + faults <= MaxFaults /\ repeats[Len(asked)] \in Nat
                  /\ faults \in Nat
              BY <1>0, <2>3 DEF Typed
            <6> QED BY <3>3, <6>1 DEF RoutingAssumption
          <5>2. repeats \in [1 .. MaxMessages -> Nat]  BY <1>0 DEF Typed
          <5> QED BY <2>3, <3>3, <5>1, <5>2, OneMoreSummed
        <4>2. Arrived' <= Arrived + 1 /\ Arrived' \in Nat  BY <1>9, <2>10, <3>3
        <4>3. InFlight' <=> InFlight  BY <2>8, <2>9, <3>3
        <4> QED BY <1>9, <2>11, <4>1, <4>2, <4>3
      <3> QED BY <2>2, <3>1, <3>2, <3>3
    <2>13. CapInv'  BY <1>0, <2>1, <2>5, <2>12 DEF CapInv
    <2> QED BY <2>7, <2>13
  <1>7. CASE EndChannel
    <2> DEFINE v == IF ChannelSent(Head(queue)) THEN "ok" ELSE "failed"
    <2>1. /\ phase = "send" /\ phase' = "channel"
          /\ done' = [done EXCEPT ![v] = @ \cup {Head(queue)}]
          /\ UNCHANGED <<conf, asked, sentToday, deliveries, repeats, uncounted>>
      BY <1>7 DEF EndChannel
    <2>2. Sending' = Sending  BY <2>1 DEF Sending, AddressedTo
    <2>3. InFlight => InFlight'
      <3> SUFFICES ASSUME InFlight PROVE InFlight'
        OBVIOUS
      <3>1. Sending /\ reached = 1  BY <2>1 DEF InFlight
      <3>2. v = "ok"  BY <3>1 DEF ChannelSent
      <3>3. done'["ok"] # {}  BY <1>0, <2>1, <3>2 DEF Typed, Results
      <3> QED BY <2>1, <2>2, <3>1, <3>3 DEF InFlight
    <2> QED BY <1>0, <2>1, <2>2, <2>3, CapFrame DEF OneEntry, CapInv
  <1>8. CASE EndDispatch
    <2>1. /\ phase = "channel" /\ phase' = "idle"
          /\ UNCHANGED <<conf, asked, deliveries, repeats>>
      BY <1>8 DEF EndDispatch
    <2>2. IF Msg.to # "nobody" /\ done.ok \cap {"email", "telegram"} # {}
          THEN \/ sentToday' = sentToday + 1 /\ uncounted' = uncounted
               \/ uncounted' = uncounted + 1 /\ sentToday' = sentToday
          ELSE sentToday' = sentToday /\ uncounted' = uncounted
      BY <1>8 DEF EndDispatch
    <2>3. Sending <=> Msg.to # "nobody"  BY <2>1 DEF Sending, AddressedTo, Msg
    <2>4. InFlight => Msg.to # "nobody" /\ done.ok \cap {"email", "telegram"} # {}
      BY <1>0, <2>1, <2>3, AddressedQueue DEF InFlight
    <2>5. Arrived' = Arrived  BY <2>1 DEF Arrived, AddressedTo
    <2>6. ~ Sending' /\ ~ InFlight'  BY <2>1 DEF Sending, InFlight
    <2>7. Arrived <= sentToday' + Summed(repeats) + uncounted'
      <3>1. Arrived <= sentToday + Summed(repeats) + uncounted + (IF InFlight THEN 1 ELSE 0)
        BY <1>0 DEF CapInv
      <3>2. CASE Msg.to # "nobody" /\ done.ok \cap {"email", "telegram"} # {}
        BY <1>9, <2>2, <3>1, <3>2
      <3>3. CASE ~ (Msg.to # "nobody" /\ done.ok \cap {"email", "telegram"} # {})
        <4>1. ~ InFlight  BY <2>4, <3>3
        <4> QED BY <1>9, <2>2, <3>1, <3>3, <4>1
      <3> QED BY <3>2, <3>3
    <2>8. sentToday' <= conf.dailyCap
      <3>1. sentToday <= conf.dailyCap /\ (Sending => sentToday < conf.dailyCap)
        BY <1>0 DEF CapInv
      <3>2. CASE sentToday' = sentToday  BY <3>1, <3>2
      <3>3. CASE sentToday' = sentToday + 1 /\ Sending  BY <1>9, <3>1, <3>3
      <3> QED BY <2>2, <2>3, <3>2, <3>3
    <2>9. CapInv'
      <3>1. Arrived' <= sentToday' + Summed(repeats') + uncounted' + 0
        BY <1>9, <2>1, <2>2, <2>5, <2>7
      <3> QED BY <2>1, <2>6, <2>8, <3>1 DEF CapInv
    <2> QED BY <2>1, <2>9 DEF OneEntry
  <1> QED BY <1>1, <1>2, <1>3, <1>4, <1>5, <1>6, <1>7, <1>8 DEF RoutingNext

-----------------------------------------------------------------------------

LEMMA RoutingStays ==
  ASSUME RoutingAssumption, RoutingInv, UNCHANGED routingVars
  PROVE  RoutingInv'
  <1> USE DEF RoutingInv, routingVars, dispatchVars, ghostVars
  <1>1. Typed'  BY DEF Typed
  <1>2. Channels(Msg)' = Channels(Msg) /\ Tried' = Tried  BY SameChannels DEF Tried
  <1>3. \A c : Wanted(c)' = Wanted(c)  BY DEF Wanted
  <1>4. QueueOK'  BY <1>2, <1>3 DEF QueueOK
  <1>5. \A c, entry : MayGet(c, entry)' = MayGet(c, entry)  BY <1>3 DEF MayGet
  <1>6. CopiesOK'  BY <1>5, NothingDelivered
  <1>7. Sending' = Sending /\ InFlight' = InFlight  BY DEF Sending, InFlight, AddressedTo
  <1>8. OneEntry'  BY <1>7 DEF OneEntry
  <1>9. CapInv'  BY <1>7, CapFrame DEF CapInv
  <1> QED BY <1>1, <1>4, <1>6, <1>8, <1>9

LEMMA RoutingSteps == RoutingAssumption /\ RoutingInv /\ [RoutingNext]_routingVars => RoutingInv'
  BY DispatchStep, QueueStep, CopiesStep, CapStep, RoutingStays DEF RoutingInv

LEMMA RoutingInvariant == RoutingSpec => []RoutingInv
  BY RoutingAssumption, RoutingBegins, RoutingSteps, PTL DEF RoutingSpec

(* No entry of a channel's recipients is sent a second copy that no lost   *)
(* answer or crash explains: a copy comes only where the dispatch, or the  *)
(* retry it leaves, still owes one, and a channel that reached anybody     *)
(* owes nobody.                                                            *)
THEOREM OneCopyEach == RoutingSpec => []NoSecondCopy
  <1>1. RoutingInv => NoSecondCopy
    <2> SUFFICES ASSUME RoutingInv, NEW d \in DOMAIN deliveries,
                        NamedOnce(asked[deliveries[d].msg], deliveries[d].channel)
                 PROVE  Copies(deliveries[d].msg, deliveries[d].channel, deliveries[d].entry)
                          <= 1 + repeats[deliveries[d].msg]
      BY DEF NoSecondCopy
    <2>1. Typed /\ CopiesOK  BY DEF RoutingInv
    <2>2. deliveries[d] \in [msg : Nat, channel : ChannelNames, entry : Nat]
      <3> DEFINE D == [msg : Nat, channel : ChannelNames, entry : Nat]
      <3>1. deliveries \in Seq(D)  BY <2>1 DEF Typed
      <3> HIDE DEF D
      <3>2. deliveries[d] \in D  BY <3>1
      <3> QED BY <3>2 DEF D
    <2>3. deliveries[d].msg \in 1 .. Len(asked)  BY <2>1 DEF Typed
    <2> QED BY <2>1, <2>2, <2>3 DEF CopiesOK
  <1> QED BY <1>1, RoutingInvariant, PTL

(* The addressed messages that arrive in a day stay within the cap, but    *)
(* for lost answers, crashes and lost counts, although the day's count is  *)
(* read before the sends and written after them.                           *)
THEOREM CapHolds == RoutingSpec => []CapKept
  <1>1. RoutingAssumption /\ RoutingInv => CapKept
    <2> SUFFICES ASSUME RoutingAssumption, RoutingInv PROVE CapKept
      OBVIOUS
    <2>1. Typed /\ CapInv  BY DEF RoutingInv
    <2>2. /\ Arrived \in Nat /\ Summed(repeats) \in Nat /\ sentToday \in Nat /\ uncounted \in Nat
          /\ conf.dailyCap \in Nat
      BY <2>1, ArrivedCounted, SummedCounted DEF Typed, RoutingAssumption
    <2>3. InFlight => sentToday < conf.dailyCap  BY <2>1 DEF CapInv, InFlight
    <2>4. Arrived <= conf.dailyCap + Summed(repeats) + uncounted
      <3>1. CASE InFlight  BY <2>1, <2>2, <2>3, <3>1 DEF CapInv
      <3>2. CASE ~ InFlight  BY <2>1, <2>2, <3>2 DEF CapInv
      <3> QED BY <3>1, <3>2
    <2> QED BY <2>4 DEF CapKept, Arrived, AddressedTo
  <1> QED BY <1>1, RoutingAssumption, RoutingInvariant, PTL

-----------------------------------------------------------------------------
(* The types, for which the numbers need bounds: each dispatch of each     *)
(* message counts against the day once at most.                            *)
Allowed == Len(asked) * (1 + MaxRetryRuns)

RunsOK ==
  /\ runs \in 0 .. 1 + MaxRetryRuns
  /\ uncounted + faults <= MaxFaults
  /\ asked = << >> => sentToday = 0 /\ runs = 0
  /\ asked # << >> =>
       sentToday + (IF phase = "idle" THEN 0 ELSE 1) + (1 + MaxRetryRuns) <= Allowed + runs

LEMMA Times ==
  /\ \A n, k \in Nat : n * k \in Nat /\ (n + 1) * k = n * k + k
  /\ \A m, n, k \in Nat : m <= n => m * k <= n * k
  OBVIOUS

LEMMA RunsStep ==
  ASSUME RoutingAssumption, Typed, RunsOK, [RoutingNext]_routingVars
  PROVE  RunsOK'
  <1> DEFINE K == 1 + MaxRetryRuns
             busy == IF phase = "idle" THEN 0 ELSE 1
  <1>1. /\ MaxRetryRuns \in Nat /\ K \in Nat /\ MaxFaults \in Nat
        /\ runs \in Nat /\ runs <= K /\ sentToday \in Nat /\ uncounted \in Nat /\ faults \in Nat
        /\ Len(asked) \in Nat /\ asked \in Seq(Messages) /\ busy \in {0, 1}
    BY DEF RoutingAssumption, Typed, RunsOK
  <1>2. Allowed \in Nat  BY <1>1, Times DEF Allowed
  <1>3. CASE UNCHANGED routingVars
    BY <1>3 DEF routingVars, dispatchVars, ghostVars, RunsOK, Allowed
  <1>4. ASSUME NEW m \in Messages, Dispatch(m) PROVE RunsOK'
    <2>1. /\ Len(asked') = Len(asked) + 1 /\ asked' # << >> /\ runs' = 1 /\ phase' = "resolve"
          /\ phase = "idle" /\ UNCHANGED <<sentToday, uncounted, faults>>
      BY <1>1, <1>4 DEF Dispatch, ghostVars
    <2>2. Allowed' = Allowed + K  BY <1>1, <2>1, Times DEF Allowed
    <2>3. sentToday <= Allowed
      <3>1. CASE asked = << >>  BY <1>1, <1>2, <3>1 DEF RunsOK
      <3>2. CASE asked # << >>
        <4>1. sentToday + 0 + K <= Allowed + runs  BY <2>1, <3>2 DEF RunsOK
        <4> QED BY <1>1, <1>2, <4>1
      <3> QED BY <3>1, <3>2
    <2> QED BY <1>1, <1>2, <2>1, <2>2, <2>3 DEF RunsOK
  <1>5. CASE DispatchChannels \/ DieAndReturn
    <2>1. Len(asked) >= 1  BY <1>5 DEF DispatchChannels, DieAndReturn, Typed
    <2>2. asked # << >>  BY <1>1, <2>1
    <2>3. sentToday + busy + K <= Allowed + runs  BY <2>2 DEF RunsOK
    <2>4. /\ UNCHANGED <<sentToday, asked, uncounted>> /\ runs' = runs + 1
          /\ phase' = "resolve" /\ runs <= MaxRetryRuns
          /\ faults' = faults \/ (faults > 0 /\ faults' = faults - 1)
      BY <1>5 DEF DispatchChannels, DieAndReturn, Fault, ghostVars
    <2>5. Allowed' = Allowed  BY <2>4 DEF Allowed
    <2>6. uncounted + faults <= MaxFaults  BY DEF RunsOK
    <2> QED BY <1>1, <1>2, <2>2, <2>3, <2>4, <2>5, <2>6 DEF RunsOK
  <1>6. CASE Resolve \/ TakeChannel \/ EndChannel \/ EndDispatch \/ \E entry \in entries : SendTo(entry)
    <2>1. phase # "idle" /\ UNCHANGED <<asked, runs>>
      BY <1>6 DEF Resolve, TakeChannel, EndChannel, EndDispatch, SendTo
    <2>2. asked # << >>  BY <1>1, <2>1 DEF Typed
    <2>3. sentToday + 1 + K <= Allowed + runs  BY <2>1, <2>2 DEF RunsOK
    <2>4. \/ sentToday' = sentToday
          \/ sentToday' = sentToday + 1 /\ phase' = "idle"
      BY <1>6 DEF Resolve, TakeChannel, EndChannel, EndDispatch, SendTo
    <2>5. \/ UNCHANGED <<uncounted, faults>>
          \/ uncounted' = uncounted /\ faults > 0 /\ faults' = faults - 1
          \/ uncounted' = uncounted + 1 /\ faults > 0 /\ faults' = faults - 1
      BY <1>6 DEF Resolve, TakeChannel, EndChannel, EndDispatch, SendTo, Fault, NoFault, ghostVars
    <2>6. Allowed' = Allowed  BY <2>1 DEF Allowed
    <2>7. uncounted + faults <= MaxFaults  BY DEF RunsOK
    <2>8. uncounted' + faults' <= MaxFaults  BY <1>1, <2>5, <2>7
    <2>9. sentToday' + (IF phase' = "idle" THEN 0 ELSE 1) + K <= Allowed' + runs'
      BY <1>1, <1>2, <2>1, <2>3, <2>4, <2>6
    <2> QED BY <1>1, <2>1, <2>2, <2>8, <2>9 DEF RunsOK
  <1> QED BY <1>3, <1>4, <1>5, <1>6 DEF RoutingNext

LEMMA RoutingTyped == RoutingSpec => []RoutingTypeOK
  <1>1. RoutingAssumption /\ RoutingInit => RunsOK
    BY DEF RoutingAssumption, RoutingInit, RunsOK
  <1>2. RoutingAssumption /\ RoutingInv /\ RunsOK /\ [RoutingNext]_routingVars => RunsOK'
    BY RunsStep DEF RoutingInv
  <1>3. RoutingAssumption /\ RoutingInv /\ RunsOK => RoutingTypeOK
    <2> SUFFICES ASSUME RoutingAssumption, RoutingInv, RunsOK PROVE RoutingTypeOK
      OBVIOUS
    <2> DEFINE K == 1 + MaxRetryRuns
    <2>1. Typed  BY DEF RoutingInv
    <2>2. /\ K \in Nat /\ MaxMessages \in Nat /\ MaxFaults \in Nat /\ Len(asked) \in Nat
          /\ Len(asked) <= MaxMessages /\ sentToday \in Nat /\ runs \in Nat /\ runs <= K
          /\ uncounted \in Nat /\ faults \in Nat /\ uncounted + faults <= MaxFaults
      BY <2>1 DEF RoutingAssumption, Typed, RunsOK
    <2>3. Allowed \in Nat /\ Allowed <= MaxMessages * K /\ MaxMessages * K \in Nat
      BY <2>2, Times DEF Allowed
    <2>4. sentToday <= MaxMessages * K
      <3>1. CASE asked = << >>  BY <2>2, <2>3, <3>1 DEF RunsOK
      <3>2. CASE asked # << >>
        <4> DEFINE busy == IF phase = "idle" THEN 0 ELSE 1
        <4>1. sentToday + busy + K <= Allowed + runs /\ busy \in {0, 1}  BY <3>2 DEF RunsOK
        <4> HIDE DEF busy
        <4> QED BY <2>2, <2>3, <4>1
      <3> QED BY <3>1, <3>2
    <2>5. ASSUME NEW i \in 1 .. MaxMessages PROVE repeats[i] \in 0 .. MaxFaults
      <3>1. repeats[i] \in Nat /\ repeats[i] + faults <= MaxFaults  BY <2>1 DEF Typed
      <3> QED BY <2>2, <3>1
    <2>6. repeats \in [1 .. MaxMessages -> 0 .. MaxFaults]  BY <2>1, <2>5 DEF Typed
    <2>7. DOMAIN done = {"ok", "failed", "skipped"}  BY <2>1 DEF Typed, Results
    <2>8. faults \in 0 .. MaxFaults /\ uncounted \in 0 .. MaxFaults  BY <2>2
    <2>9. sentToday \in 0 .. MaxMessages * K
      <3> DEFINE most == MaxMessages * K
      <3>1. most \in Nat /\ sentToday \in Nat /\ sentToday <= most  BY <2>2, <2>3, <2>4
      <3> HIDE DEF most
      <3>2. sentToday \in 0 .. most  BY <3>1
      <3> QED BY <3>2 DEF most
    <2>10. runs \in 0 .. 1 + MaxRetryRuns  BY DEF RunsOK
    <2> QED BY <2>1, <2>6, <2>7, <2>8, <2>9, <2>10, Zenon DEF RoutingTypeOK, Typed
  <1> QED BY <1>1, <1>2, <1>3, RoutingInvariant, RoutingAssumption, PTL DEF RoutingSpec
=============================================================================
