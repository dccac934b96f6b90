---------------------------- MODULE InboundProofs ----------------------------
(* Theorems about CommsInbound, for every value of its constants: the      *)
(* path of an update from Telegram to its handler, the polls, and the web  *)
(* links.                                                                  *)
EXTENDS CommsInbound, FiniteSetTheorems, WellFoundedInduction, TLAPS

USE InboundAssumption, LinkAssumption, UpdateAssumption

-----------------------------------------------------------------------------
(* The type invariant, and what makes it inductive: a daemon that is down  *)
(* holds nothing, a stage belongs to the kind of update in hand, and a     *)
(* handler that has found the account's record goes on having it.          *)

LinkHand   == {"link.code", "link.route", "link.old", "link.web", "link.put", "link.answer"}
UnlinkHand == {"unlink.web", "unlink.route", "unlink.del", "unlink.record"}
AskHand    == {"ask.web", "ask.route", "ask.drop", "ask.relay"}

Handling == Stages \ {"idle"}

SentOK ==
  /\ sent \in Seq(Updates) /\ Len(sent) <= MaxSent
  /\ confirmed \in 0 .. Len(sent)
  /\ offset \in Nat /\ fetched \in Nat /\ offset <= fetched /\ fetched <= Len(sent)

StreamOK ==
  /\ stream \in Seq(Numbers)
  /\ \A i \in DOMAIN stream : stream[i] \in 1 .. Len(sent)

GroupOK ==
  /\ given \in 0 .. Len(stream)
  /\ unacked \subseteq 1 .. given /\ toHandle \subseteq unacked

HandOK ==
  /\ running \in BOOLEAN /\ (~running => hand = 0 /\ toHandle = {})
  /\ hand \in unacked \cup {0} /\ hand \notin toHandle
  /\ stage \in Stages /\ (stage = "idle" <=> hand = 0)

CountOK == handled \in [Numbers -> Nat]

TroubleOK == trouble \in 0 .. MaxTrouble /\ met \subseteq TroubleKinds

StageFits ==
  /\ stage \in LinkHand   => InHand.kind = "link"
  /\ stage \in UnlinkHand => InHand.kind = "unlink"
  /\ stage \in AskHand    => InHand.kind = "ask"
  /\ stage \in PollStages => InHand.kind = "press"

RecordHeld ==
  stage \in {"unlink.route", "unlink.del", "ask.route", "ask.relay"} => web[Who] # None

PathOK == SentOK /\ StreamOK /\ GroupOK /\ HandOK /\ CountOK /\ TroubleOK

TypeInv == PathOK /\ LinkTypeOK /\ PollTypeOK /\ StageFits /\ RecordHeld

LEMMA AllStages ==
  /\ Stages = {"idle", "ack"} \cup LinkHand \cup UnlinkHand \cup AskHand \cup PollStages
  /\ Handling = {"ack"} \cup LinkHand \cup UnlinkHand \cup AskHand \cup PollStages
  BY DEF Stages, Handling, LinkStages, LinkHand, UnlinkHand, AskHand, PollStages

LEMMA TypeInit == Init => TypeInv
  <1> SUFFICES ASSUME Init PROVE TypeInv
    OBVIOUS
  <1>1. PathOK
    BY DEF Init, InboundInit, LoopStarts, PathOK, SentOK, StreamOK, GroupOK, HandOK, CountOK,
           TroubleOK, Stages, Numbers
  <1>2. LinkTypeOK
    BY DEF Init, LinkInit, LinkTypeOK, CodeStates
  <1>3. PollTypeOK
    BY DEF Init, PollInit, PollTypeOK, Contexts
  <1>4. stage = "idle"  BY DEF Init, InboundInit, LoopStarts
  <1>5. StageFits /\ RecordHeld
    BY <1>4 DEF StageFits, RecordHeld, LinkHand, UnlinkHand, AskHand, PollStages
  <1> QED BY <1>1, <1>2, <1>3, <1>5 DEF TypeInv

LEMMA TypeInvType == TypeInv => TypeOK
  BY DEF TypeInv, TypeOK, PathOK, SentOK, StreamOK, GroupOK, HandOK, CountOK, TroubleOK,
         InboundTypeOK

(* What does not change keeps its type.                                    *)
LEMMA PathParts ==
  ASSUME PathOK
  PROVE  /\ UNCHANGED telegramVars => SentOK'
         /\ UNCHANGED <<sent, stream>> => StreamOK'
         /\ UNCHANGED <<stream, given, unacked, toHandle>> => GroupOK'
         /\ UNCHANGED <<running, hand, stage, unacked, toHandle>> => HandOK'
         /\ UNCHANGED handled => CountOK'
         /\ NoTrouble \/ (\E kind \in TroubleKinds : Trouble(kind)) => TroubleOK'
  <1>1. UNCHANGED telegramVars => SentOK'
    BY DEF PathOK, SentOK, telegramVars
  <1>2. UNCHANGED <<sent, stream>> => StreamOK'
    BY DEF PathOK, StreamOK
  <1>3. UNCHANGED <<stream, given, unacked, toHandle>> => GroupOK'
    BY DEF PathOK, GroupOK
  <1>4. UNCHANGED <<running, hand, stage, unacked, toHandle>> => HandOK'
    BY DEF PathOK, HandOK
  <1>5. UNCHANGED handled => CountOK'
    BY DEF PathOK, CountOK
  <1>6. NoTrouble \/ (\E kind \in TroubleKinds : Trouble(kind)) => TroubleOK'
    BY DEF PathOK, TroubleOK, NoTrouble, Trouble, troubleVars
  <1> QED BY <1>1, <1>2, <1>3, <1>4, <1>5, <1>6

(* Every step of a handler leaves the path as it is, but for its stage,    *)
(* and stays with its kind of update until the acknowledgement.            *)
LEMMA HandlerAdvances ==
  ASSUME LinkSteps \/ PressSteps
  PROVE  \E G \in {LinkHand, UnlinkHand, AskHand, PollStages} :
         \E from \in G, to \in G \cup {"ack"} :
           Advance(from, to) /\ (NoTrouble \/ Trouble("valkey"))
  <1>1. LinkCode \/ LinkRoute \/ LinkEndsOld \/ LinkRecords \/ LinkPuts \/ LinkAnswers =>
          \E from \in LinkHand, to \in LinkHand \cup {"ack"} :
            Advance(from, to) /\ (NoTrouble \/ Trouble("valkey"))
    BY DEF LinkHand, LinkCode, LinkRoute, LinkEndsOld, LinkRecords, LinkPuts, LinkAnswers, Put
  <1>2. UnlinkWeb \/ UnlinkRoute \/ UnlinkDeletes \/ UnlinkForgets =>
          \E from \in UnlinkHand, to \in UnlinkHand \cup {"ack"} :
            Advance(from, to) /\ (NoTrouble \/ Trouble("valkey"))
    BY DEF UnlinkHand, UnlinkWeb, UnlinkRoute, UnlinkDeletes, UnlinkForgets, Put
  <1>3. AskWeb \/ AskRoute \/ AskDrops \/ AskRelays =>
          \E from \in AskHand, to \in AskHand \cup {"ack"} :
            Advance(from, to) /\ (NoTrouble \/ Trouble("valkey"))
    BY DEF AskHand, AskWeb, AskRoute, AskDrops, AskRelays, Put
  <1>4. PressSteps =>
          \E from \in PollStages, to \in PollStages \cup {"ack"} :
            Advance(from, to) /\ (NoTrouble \/ Trouble("valkey"))
    BY DEF PollStages, PressSteps, PressReads, PressClaims, PressVotes
  <1> QED BY <1>1, <1>2, <1>3, <1>4 DEF LinkSteps

LEMMA HandlerStages ==
  ASSUME NEW G \in {LinkHand, UnlinkHand, AskHand, PollStages}
  PROVE  G \subseteq Handling /\ G \cup {"ack"} \subseteq Handling
  BY AllStages

(* Type preservation of the path, step by step.                            *)

LEMMA PathHandler ==
  ASSUME PathOK, NEW from \in Handling, NEW to \in Handling, Advance(from, to),
         NoTrouble \/ Trouble("valkey")
  PROVE  PathOK'
  <1>1. HandOK'  BY DEF Advance, Handling, groupVars, PathOK, HandOK
  <1>2. TroubleOK'  BY PathParts DEF TroubleKinds
  <1> QED BY <1>1, <1>2, PathParts DEF Advance, groupVars, telegramVars, PathOK

LEMMA PathReceiver ==
  ASSUME PathOK, Poll \/ Receive \/ (Refuse /\ (NoTrouble \/ Trouble("valkey")))
  PROVE  PathOK'
  <1>1. CASE Poll
    <2>1. SentOK'  BY <1>1 DEF Poll, PathOK, SentOK
    <2> QED BY <2>1, <1>1, PathParts DEF Poll, groupVars, handVars, NoTrouble, PathOK
  <1>2. CASE Receive
    <2>1. TroubleOK'  BY <1>2, PathParts DEF Receive, TroubleKinds
    <2>2. offset + 1 \in Numbers /\ offset + 1 \in 1 .. Len(sent)
      BY <1>2 DEF Receive, Receiving, PathOK, SentOK, Numbers
    <2>3. SentOK'  BY <1>2, <2>2 DEF Receive, Receiving, PathOK, SentOK
    <2>4. StreamOK' /\ Len(stream') \in Nat /\ Len(stream) \in Nat /\ Len(stream) <= Len(stream')
      <3>1. CASE stream' = Append(stream, offset + 1)
        BY <3>1, <2>2, <1>2 DEF Receive, PathOK, StreamOK
      <3>2. CASE stream' = stream
        BY <3>2, <1>2 DEF Receive, PathOK, StreamOK
      <3> QED BY <3>1, <3>2, <1>2 DEF Receive
    <2>5. GroupOK'  BY <2>4, <1>2 DEF Receive, groupVars, PathOK, GroupOK
    <2> QED BY <1>2, <2>1, <2>3, <2>4, <2>5, PathParts DEF Receive, groupVars, handVars, PathOK
  <1>3. CASE Refuse /\ (NoTrouble \/ Trouble("valkey"))
    <2>1. TroubleOK'  BY <1>3, PathParts DEF TroubleKinds
    <2>2. SentOK'  BY <1>3 DEF Refuse, Receiving, PathOK, SentOK
    <2> QED BY <1>3, <2>1, <2>2, PathParts DEF Refuse, groupVars, handVars, PathOK
  <1> QED BY <1>1, <1>2, <1>3

LEMMA PathTake ==
  ASSUME PathOK, NEW i \in toHandle, NEW first \in Handling, TakeUp(i, first)
  PROVE  PathOK'
  <1>1. i \in DOMAIN stream /\ i # 0 /\ stream[i] \in Numbers
    BY DEF PathOK, GroupOK, StreamOK
  <1>2. CountOK'  BY <1>1 DEF TakeUp, PathOK, CountOK
  <1>3. HandOK'   BY <1>1 DEF TakeUp, groupVars, PathOK, GroupOK, HandOK, Handling
  <1>4. GroupOK'  BY DEF TakeUp, groupVars, PathOK, GroupOK
  <1> QED BY <1>2, <1>3, <1>4, PathParts DEF TakeUp, telegramVars, NoTrouble, PathOK

LEMMA PathGroup ==
  ASSUME PathOK, ReadInbound \/ AckInbound
  PROVE  PathOK'
  <1>1. CASE ReadInbound
    <2>1. TroubleOK'  BY <1>1, PathParts DEF ReadInbound, TroubleKinds
    <2>2. Len(stream) \in Nat /\ given \in 0 .. Len(stream) /\ unacked \subseteq 1 .. given
      BY DEF PathOK, StreamOK, GroupOK
    <2>3. /\ given' \in 0 .. Len(stream) /\ unacked' \subseteq 1 .. given'
          /\ toHandle' \subseteq unacked' /\ unacked \subseteq unacked'
      <3>1. CASE given' = given
        BY <3>1, <2>2, <1>1 DEF ReadInbound, Unread
      <3>2. CASE given' # given
        <4>1. given' = Len(stream) /\ unacked' = unacked \cup Unread
              /\ toHandle' \subseteq unacked \cup Unread
          BY <3>2, <1>1 DEF ReadInbound
        <4>2. Unread \subseteq 1 .. Len(stream)  BY <2>2 DEF Unread
        <4>3. unacked \subseteq 1 .. Len(stream)  BY <2>2
        <4>4. unacked' \subseteq 1 .. Len(stream)  BY <4>1, <4>2, <4>3
        <4> QED BY <4>1, <4>4, <2>2
      <3> QED BY <3>1, <3>2
    <2>4. GroupOK'  BY <2>2, <2>3, <1>1 DEF ReadInbound, GroupOK
    <2>5. HandOK'  BY <2>3, <1>1 DEF ReadInbound, handVars, PathOK, HandOK
    <2> QED BY <1>1, <2>1, <2>4, <2>5, PathParts DEF ReadInbound, telegramVars, PathOK
  <1>2. CASE AckInbound
    <2>1. TroubleOK'  BY <1>2, PathParts DEF AckInbound, TroubleKinds
    <2>2. GroupOK'  BY <1>2 DEF AckInbound, PathOK, GroupOK, HandOK
    <2>3. HandOK'  BY <1>2 DEF AckInbound, PathOK, HandOK, GroupOK, Stages
    <2> QED BY <1>2, <2>1, <2>2, <2>3, PathParts DEF AckInbound, telegramVars, PathOK
  <1> QED BY <1>1, <1>2

LEMMA PathLife ==
  ASSUME PathOK, StartInbound \/ StopInbound
  PROVE  PathOK'
  <1>1. CASE StartInbound
    <2>1. HandOK'  BY <1>1 DEF StartInbound, groupVars, handVars, PathOK, HandOK
    <2> QED BY <1>1, <2>1, PathParts DEF StartInbound, groupVars, telegramVars, NoTrouble, PathOK
  <1>2. CASE StopInbound
    <2>1. TroubleOK'  BY <1>2, PathParts DEF StopInbound, TroubleKinds
    <2>2. SentOK'   BY <1>2 DEF StopInbound, PathOK, SentOK
    <2>3. GroupOK' /\ HandOK'
      BY <1>2 DEF StopInbound, groupVars, PathOK, GroupOK, HandOK, Stages
    <2> QED BY <1>2, <2>1, <2>2, <2>3, PathParts DEF StopInbound, PathOK
  <1> QED BY <1>1, <1>2

LEMMA PathPerson ==
  ASSUME PathOK, NEW x \in Updates, PersonSends(x)
  PROVE  PathOK'
  <1>1. Len(sent') = Len(sent) + 1  BY DEF PersonSends, PathOK, SentOK
  <1>2. SentOK'  BY <1>1 DEF PersonSends, PathOK, SentOK
  <1>3. StreamOK'  BY <1>1 DEF PersonSends, PathOK, SentOK, StreamOK
  <1> QED BY <1>2, <1>3, PathParts DEF PersonSends, groupVars, handVars, NoTrouble, PathOK

(* The kind of an update says at which stage its handler starts.           *)
LEMMA FirstStageFits ==
  ASSUME NEW x \in Updates
  PROVE  /\ FirstStage(x) \in Handling
         /\ FirstStage(x) \in LinkHand   => x.kind = "link"
         /\ FirstStage(x) \in UnlinkHand => x.kind = "unlink"
         /\ FirstStage(x) \in AskHand    => x.kind = "ask"
         /\ FirstStage(x) \in PollStages => x.kind = "press"
         /\ FirstStage(x) \notin {"unlink.route", "unlink.del", "ask.route", "ask.relay", "ack"}
  BY AllStages DEF FirstStage, LinkHand, UnlinkHand, AskHand, PollStages, UpdateKinds

(* A step is one of these.                                                 *)
LEMMA Steps ==
  ASSUME Next
  PROVE  \/ (\E x \in Updates : PersonSends(x)) /\ UNCHANGED <<linkVars, pollVars>>
         \/ Poll /\ UNCHANGED <<linkVars, pollVars>>
         \/ Receive /\ MayPass(sent[offset + 1]) /\ UNCHANGED <<linkVars, pollVars>>
         \/ /\ Refuse /\ (NoTrouble \/ Trouble("valkey")) /\ UNCHANGED <<linkVars, pollVars>>
            /\ ~MayPass(sent[offset + 1]) \/ LinkChecked(sent[offset + 1])
         \/ (\E i \in toHandle : TakeUp(i, FirstStage(UpdateOf(i)))) /\ UNCHANGED <<linkVars, pollVars>>
         \/ ReadInbound /\ UNCHANGED <<linkVars, pollVars>>
         \/ AckInbound /\ UNCHANGED <<linkVars, pollVars>>
         \/ LinkSteps /\ UNCHANGED pollVars
         \/ PressSteps /\ UNCHANGED linkVars
         \/ StartInbound /\ UNCHANGED <<linkVars, pollVars>>
         \/ StopInbound /\ UNCHANGED <<linkVars, pollVars>>
         \/ Site /\ UNCHANGED <<inboundVars, pollVars>>
         \/ (\E p \in Polls : TrackPoll(p) \/ PollExpires(p)) /\ UNCHANGED <<inboundVars, linkVars>>
  <1>1. Site => UNCHANGED inboundVars  BY DEF Site, MakeCode, CodeExpires, WindowUnlinks
  <1>2. \A p \in Polls : TrackPoll(p) \/ PollExpires(p) => UNCHANGED inboundVars
    BY DEF TrackPoll, PollExpires
  <1> QED BY <1>1, <1>2 DEF Next, Person, Receiver, Take, Group, Handle, Start, Stop, Sites

LEMMA PathUnchanged ==
  ASSUME PathOK, UNCHANGED inboundVars
  PROVE  PathOK'
  BY PathParts DEF inboundVars, telegramVars, groupVars, handVars, NoTrouble, PathOK

(* An entry of the stream is of an update that was sent.                   *)
LEMMA EntryType ==
  ASSUME PathOK, NEW i \in DOMAIN stream
  PROVE  /\ stream[i] \in Numbers /\ stream[i] \in DOMAIN sent
         /\ UpdateOf(i) \in Updates
  BY DEF PathOK, SentOK, StreamOK, UpdateOf

LEMMA PathNext == PathOK /\ [Next]_vars => PathOK'
  <1> SUFFICES ASSUME PathOK, [Next]_vars PROVE PathOK'
    OBVIOUS
  <1>1. CASE UNCHANGED inboundVars  BY <1>1, PathUnchanged
  <1>2. ASSUME NEW i \in toHandle, TakeUp(i, FirstStage(UpdateOf(i))) PROVE PathOK'
    <2>1. i \in DOMAIN stream  BY DEF PathOK, GroupOK, StreamOK
    <2> QED BY <2>1, <1>2, EntryType, FirstStageFits, PathTake
  <1>3. CASE LinkSteps \/ PressSteps  BY <1>3, HandlerAdvances, HandlerStages, PathHandler
  <1>4. CASE Next
    BY <1>1, <1>2, <1>3, <1>4, Steps, PathPerson, PathReceiver, PathGroup, PathLife
  <1> QED BY <1>1, <1>4 DEF vars

-----------------------------------------------------------------------------
LEMMA AppendKeeps ==
  ASSUME NEW S, NEW s \in Seq(S), NEW x \in S, NEW i \in DOMAIN s
  PROVE  i \in DOMAIN Append(s, x) /\ Append(s, x)[i] = s[i]
  OBVIOUS

(* What was sent and what was written stays.                               *)
LEMMA Kept ==
  ASSUME PathOK, [Next]_vars
  PROVE  /\ \A u \in DOMAIN sent : u \in DOMAIN sent' /\ sent'[u] = sent[u]
         /\ \A i \in DOMAIN stream : /\ i \in DOMAIN stream' /\ stream'[i] = stream[i]
                                     /\ UpdateOf(i)' = UpdateOf(i)
  <1>1. UNCHANGED sent \/ \E x \in Updates : sent' = Append(sent, x)
    <2>1. LinkSteps \/ PressSteps => UNCHANGED sent
      BY HandlerAdvances DEF Advance, telegramVars
    <2> QED
      BY <2>1, Steps DEF PersonSends, Poll, Receive, Refuse, TakeUp, ReadInbound, AckInbound,
             StartInbound, StopInbound, vars, inboundVars, telegramVars
  <1>2. UNCHANGED stream \/ \E u \in Numbers : stream' = Append(stream, u)
    <2>0. Receive => UNCHANGED stream \/ \E u \in Numbers : stream' = Append(stream, u)
      BY DEF Receive, Receiving, PathOK, SentOK, Numbers
    <2>1. LinkSteps \/ PressSteps => UNCHANGED stream
      BY HandlerAdvances DEF Advance, telegramVars
    <2> QED
      BY <2>0, <2>1, Steps DEF PersonSends, Poll, Refuse, TakeUp, ReadInbound, AckInbound,
             StartInbound, StopInbound, vars, inboundVars, telegramVars
  <1>3. sent \in Seq(Updates) /\ stream \in Seq(Numbers)
        /\ \A i \in DOMAIN stream : stream[i] \in DOMAIN sent
    BY DEF PathOK, SentOK, StreamOK
  <1>4. \A u \in DOMAIN sent : u \in DOMAIN sent' /\ sent'[u] = sent[u]
    BY <1>1, <1>3, AppendKeeps
  <1>5. \A i \in DOMAIN stream : i \in DOMAIN stream' /\ stream'[i] = stream[i]
    <2> SUFFICES ASSUME NEW i \in DOMAIN stream
                 PROVE  i \in DOMAIN stream' /\ stream'[i] = stream[i]
      OBVIOUS
    <2>1. CASE UNCHANGED stream  BY <2>1
    <2>2. ASSUME NEW u \in Numbers, stream' = Append(stream, u)
          PROVE  i \in DOMAIN stream' /\ stream'[i] = stream[i]
      BY <2>2, <1>3, AppendKeeps
    <2> QED BY <2>1, <2>2, <1>2
  <1> QED BY <1>3, <1>4, <1>5 DEF UpdateOf

(* Whoever does not handle an entry leaves hand and stage alone.           *)
LEMMA HandKept ==
  ASSUME PathOK, Next
  PROVE  \/ UNCHANGED <<hand, stage>>
         \/ \E i \in toHandle : TakeUp(i, FirstStage(UpdateOf(i))) /\ UNCHANGED <<linkVars, pollVars>>
         \/ AckInbound /\ UNCHANGED <<linkVars, pollVars>>
         \/ LinkSteps /\ UNCHANGED pollVars
         \/ PressSteps /\ UNCHANGED linkVars
         \/ StopInbound /\ UNCHANGED <<linkVars, pollVars>>
  BY Steps DEF PersonSends, Poll, Receive, Refuse, ReadInbound, StartInbound, inboundVars, handVars

(* The update in hand is one that was sent, and stays the same one while   *)
(* it is handled.                                                          *)
LEMMA InHandType ==
  ASSUME PathOK, hand # 0
  PROVE  /\ hand \in DOMAIN stream /\ stream[hand] \in Numbers /\ stream[hand] \in DOMAIN sent
         /\ InHand \in Updates /\ Who \in Operators
         /\ InHand.kind = "link" => Code \in Codes /\ Target \in Consumers
         /\ InHand.kind = "press" => ThePoll \in Polls
         /\ [Next]_vars /\ hand' = hand => InHand' = InHand /\ Who' = Who /\ Press' = Press
  <1>1. hand \in DOMAIN stream  BY DEF PathOK, HandOK, GroupOK, StreamOK
  <1>2. InHand \in Updates /\ stream[hand] \in Numbers /\ stream[hand] \in DOMAIN sent
    BY <1>1, EntryType DEF InHand
  <1>3. [Next]_vars /\ hand' = hand => InHand' = InHand /\ Who' = Who /\ Press' = Press
    BY <1>1, Kept DEF InHand, Who, Press
  <1> QED BY <1>1, <1>2, <1>3 DEF Who, Code, Target, ThePoll

-----------------------------------------------------------------------------
(* Type preservation of the handlers.                                      *)

LEMMA FitsNext == TypeInv /\ [Next]_vars => StageFits'
  <1> SUFFICES ASSUME TypeInv, [Next]_vars PROVE StageFits'
    OBVIOUS
  <1>0. PathOK /\ StageFits /\ (stage = "idle" <=> hand = 0)
    BY DEF TypeInv, PathOK, HandOK
  <1>i. stage' = "idle" \/ stage' = "ack" => StageFits'
    BY DEF StageFits, LinkHand, UnlinkHand, AskHand, PollStages
  <1>1. CASE UNCHANGED <<hand, stage>>
    <2>1. hand # 0 => InHand' = InHand  BY <1>0, <1>1, InHandType
    <2> QED BY <2>1, <1>1, <1>0, <1>i DEF StageFits
  <1>2. ASSUME NEW i \in toHandle, TakeUp(i, FirstStage(UpdateOf(i))) PROVE StageFits'
    <2>1. i \in DOMAIN stream  BY <1>0 DEF PathOK, GroupOK, StreamOK
    <2>2. InHand' = UpdateOf(i) /\ stage' = FirstStage(UpdateOf(i))
      BY <1>2 DEF TakeUp, InHand, UpdateOf, telegramVars
    <2> QED BY <2>1, <2>2, <1>0, EntryType, FirstStageFits DEF StageFits
  <1>3. CASE AckInbound \/ StopInbound  BY <1>3, <1>i DEF AckInbound, StopInbound
  <1>4. CASE LinkSteps \/ PressSteps
    <2>1. PICK G \in {LinkHand, UnlinkHand, AskHand, PollStages} :
            stage \in G /\ stage' \in G \cup {"ack"} /\ hand' = hand
      BY <1>4, HandlerAdvances DEF Advance
    <2>2. hand # 0 /\ InHand' = InHand
      BY <2>1, <1>0, InHandType, HandlerStages DEF Handling
    <2> QED BY <2>1, <2>2, <1>0
            DEF StageFits, LinkHand, UnlinkHand, AskHand, PollStages
  <1> QED BY <1>0, <1>1, <1>2, <1>3, <1>4, HandKept DEF vars, inboundVars, handVars

(* A write that may fail keeps the type of the record.                     *)
LEMMA PutType ==
  ASSUME NEW S, NEW T, NEW f \in [S -> T], NEW g, NEW x, NEW value \in T,
         g = [f EXCEPT ![x] = value] \/ g = f
  PROVE  g \in [S -> T]
  OBVIOUS

(* Who writes the records of links and of polls.                           *)
LEMMA LinkFrame ==
  ASSUME [Next]_vars
  PROVE  \/ UNCHANGED linkVars
         \/ LinkSteps /\ UNCHANGED pollVars
         \/ Site /\ UNCHANGED <<inboundVars, pollVars>>
  BY Steps DEF vars

LEMMA PollFrame ==
  ASSUME [Next]_vars
  PROVE  \/ UNCHANGED pollVars
         \/ PressSteps /\ UNCHANGED linkVars
         \/ (\E p \in Polls : TrackPoll(p) \/ PollExpires(p)) /\ UNCHANGED <<inboundVars, linkVars>>
  BY Steps DEF vars

LEMMA LinkTypeNext == TypeInv /\ [Next]_vars => LinkTypeOK'
  <1> SUFFICES ASSUME TypeInv, [Next]_vars PROVE LinkTypeOK'
    OBVIOUS
  <1>0. PathOK /\ StageFits /\ RecordHeld /\ LinkTypeOK /\ (stage = "idle" <=> hand = 0)
    BY DEF TypeInv, PathOK, HandOK
  <1>1. CASE UNCHANGED linkVars  BY <1>0, <1>1 DEF LinkTypeOK, linkVars
  <1>2. CASE Site
    <2>1. ASSUME NEW k \in Codes, MakeCode(k) PROVE LinkTypeOK'
      <3>1. route' \in [Consumers -> Operators \cup {None, Gone}]
        BY <2>1, <1>0 DEF MakeCode, LinkTypeOK
      <3> QED BY <3>1, <2>1, <1>0 DEF MakeCode, LinkTypeOK, CodeStates
    <2>2. ASSUME NEW k \in Codes, CodeExpires(k) PROVE LinkTypeOK'
      BY <2>2, <1>0 DEF CodeExpires, LinkTypeOK, CodeStates
    <2>3. ASSUME NEW c \in Consumers, WindowUnlinks(c) PROVE LinkTypeOK'
      BY <2>3, <1>0 DEF WindowUnlinks, LinkTypeOK
    <2> QED BY <1>2, <2>1, <2>2, <2>3 DEF Site
  <1>3. CASE LinkSteps
    <2>1. hand # 0 /\ stage # "idle"
      BY <1>3, <1>0, HandlerAdvances, HandlerStages DEF Advance, Handling
    <2>2. Who \in Operators /\ stream[hand] \in Numbers  BY <2>1, <1>0, InHandType
    <2>3. stage \in LinkHand => Code \in Codes /\ Target \in Consumers
      BY <2>1, <1>0, InHandType DEF StageFits
    <2>4. CASE LinkCode \/ LinkRoute \/ UnlinkWeb \/ UnlinkRoute \/ AskWeb \/ AskRoute
      BY <2>4, <1>0 DEF LinkCode, LinkRoute, UnlinkWeb, UnlinkRoute, AskWeb, AskRoute, LinkTypeOK,
                        linkVars
    <2>5. CASE LinkEndsOld \/ UnlinkDeletes
      <3>1. route' \in [Consumers -> Operators \cup {None, Gone}]
        BY <2>5, <1>0, PutType DEF LinkEndsOld, UnlinkDeletes, Put, LinkTypeOK
      <3> QED BY <3>1, <2>5, <1>0 DEF LinkEndsOld, UnlinkDeletes, LinkTypeOK
    <2>6. CASE LinkPuts
      <3>1. route' \in [Consumers -> Operators \cup {None, Gone}]
        BY <2>2, <2>6, <1>0, PutType DEF LinkPuts, Put, LinkTypeOK
      <3> QED BY <3>1, <2>6, <1>0 DEF LinkPuts, LinkTypeOK
    <2>7. CASE LinkRecords
      <3>1. Target \in Consumers /\ Code \in Codes
        BY <2>7, <2>3 DEF LinkRecords, Advance, LinkHand
      <3>2. web' \in [Operators -> Consumers \cup {None}]
        BY <3>1, <2>7, <1>0, PutType DEF LinkRecords, Put, LinkTypeOK
      <3>3. spentBy' \in [Codes -> SUBSET Operators]
        BY <3>1, <2>2, <2>7, <1>0 DEF LinkRecords, LinkTypeOK
      <3> QED BY <3>2, <3>3, <2>7, <1>0 DEF LinkRecords, LinkTypeOK
    <2>8. CASE LinkAnswers
      <3>1. code' \in [Codes -> CodeStates]
        BY <2>8, <1>0, PutType DEF LinkAnswers, Put, LinkTypeOK, CodeStates
      <3> QED BY <3>1, <2>8, <1>0 DEF LinkAnswers, LinkTypeOK
    <2>9. CASE UnlinkForgets \/ AskDrops
      <3>1. web' \in [Operators -> Consumers \cup {None}]
        BY <2>9, <1>0, PutType DEF UnlinkForgets, AskDrops, Put, LinkTypeOK
      <3> QED BY <3>1, <2>9, <1>0 DEF UnlinkForgets, AskDrops, LinkTypeOK
    <2>10. CASE AskRelays
      <3>1. web[Who] \in Consumers
        BY <2>2, <2>10, <1>0 DEF AskRelays, Advance, RecordHeld, LinkTypeOK
      <3>2. relayed' \subseteq Numbers \X Consumers
        BY <3>1, <2>2, <2>10, <1>0 DEF AskRelays, LinkTypeOK
      <3> QED BY <3>2, <2>10, <1>0 DEF AskRelays, LinkTypeOK
    <2> QED BY <1>3, <2>4, <2>5, <2>6, <2>7, <2>8, <2>9, <2>10 DEF LinkSteps
  <1> QED BY <1>1, <1>2, <1>3, LinkFrame

LEMMA RecordNext == TypeInv /\ [Next]_vars => RecordHeld'
  <1> SUFFICES ASSUME TypeInv, [Next]_vars PROVE RecordHeld'
    OBVIOUS
  <1>0. PathOK /\ RecordHeld /\ (stage = "idle" <=> hand = 0)
    BY DEF TypeInv, PathOK, HandOK
  <1>1. CASE LinkSteps
    <2>1. hand # 0 /\ hand' = hand
      BY <1>1, <1>0, HandlerAdvances, HandlerStages DEF Advance, Handling
    <2>2. Who' = Who  BY <2>1, <1>0, InHandType
    <2>3. CASE LinkCode \/ LinkRoute \/ LinkEndsOld \/ LinkRecords \/ LinkPuts \/ LinkAnswers
      BY <2>3 DEF LinkCode, LinkRoute, LinkEndsOld, LinkRecords, LinkPuts, LinkAnswers, Advance,
                  RecordHeld
    <2>4. CASE UnlinkWeb \/ AskWeb
      BY <2>2, <2>4 DEF UnlinkWeb, AskWeb, Advance, RecordHeld, linkVars
    <2>5. CASE UnlinkRoute \/ AskRoute
      BY <2>2, <2>5, <1>0 DEF UnlinkRoute, AskRoute, Advance, RecordHeld, linkVars
    <2>6. CASE UnlinkDeletes \/ UnlinkForgets \/ AskDrops \/ AskRelays
      BY <2>6 DEF UnlinkDeletes, UnlinkForgets, AskDrops, AskRelays, Advance, RecordHeld
    <2> QED BY <1>1, <2>3, <2>4, <2>5, <2>6 DEF LinkSteps
  <1>2. CASE UNCHANGED <<hand, stage, web>>
    <2>1. hand # 0 => Who' = Who  BY <1>0, <1>2, InHandType
    <2> QED BY <2>1, <1>0, <1>2 DEF RecordHeld
  <1>3. ASSUME NEW i \in toHandle, TakeUp(i, FirstStage(UpdateOf(i))) PROVE RecordHeld'
    <2>1. i \in DOMAIN stream  BY <1>0 DEF PathOK, GroupOK, StreamOK
    <2> QED BY <2>1, <1>3, <1>0, EntryType, FirstStageFits DEF TakeUp, RecordHeld
  <1>4. CASE AckInbound \/ StopInbound
    BY <1>4 DEF AckInbound, StopInbound, RecordHeld
  <1>5. CASE PressSteps
    BY <1>5, HandlerAdvances
       DEF PressSteps, PressReads, PressClaims, PressVotes, Advance, RecordHeld
  <1>6. UNCHANGED web \/ LinkSteps
    BY LinkFrame DEF linkVars, Site, MakeCode, CodeExpires, WindowUnlinks
  <1> QED BY <1>0, <1>1, <1>2, <1>3, <1>4, <1>5, <1>6, HandKept DEF vars, inboundVars, handVars

LEMMA PollTypeNext == TypeInv /\ [Next]_vars => PollTypeOK'
  <1> SUFFICES ASSUME TypeInv, [Next]_vars PROVE PollTypeOK'
    OBVIOUS
  <1>0. PathOK /\ StageFits /\ PollTypeOK /\ (stage = "idle" <=> hand = 0)
    BY DEF TypeInv, PathOK, HandOK
  <1>1. CASE UNCHANGED pollVars  BY <1>0, <1>1 DEF PollTypeOK, pollVars
  <1>2. ASSUME NEW p \in Polls, TrackPoll(p) \/ PollExpires(p) PROVE PollTypeOK'
    <2>1. made' \in [Polls -> Nat]
      <3>1. made \in [Polls -> Nat] /\ made[p] + 1 \in Nat  BY <1>0 DEF PollTypeOK
      <3> QED BY <1>2, <3>1 DEF TrackPoll, PollExpires
    <2> QED BY <1>0, <1>2, <2>1 DEF TrackPoll, PollExpires, PollTypeOK, Contexts
  <1>3. CASE PressSteps
    <2>1. hand # 0 /\ stage \in PollStages
      BY <1>3, <1>0 DEF PressSteps, PressReads, PressClaims, PressVotes, Advance, PollStages
    <2>2. ThePoll \in Polls /\ Press \in Numbers
      BY <2>1, <1>0, InHandType DEF StageFits, Press
    <2>3. CASE PressReads  BY <2>3, <1>0 DEF PressReads, PollTypeOK, pollVars
    <2>4. CASE PressClaims
      <3>1. CASE Claimed
        <4>1. claim' \in [Polls -> Numbers \cup {0}]
          BY <3>1, <2>2, <1>0 DEF Claimed, Writes, PollTypeOK
        <4>2. context' \in [Polls -> Contexts] /\ made' \in [Polls -> Nat]
          <5>1. context \in [Polls -> Contexts] /\ made \in [Polls -> Nat]  BY <1>0 DEF PollTypeOK
          <5>2. made[ThePoll] + 1 \in Nat /\ "untimed" \in Contexts  BY <5>1, <2>2 DEF Contexts
          <5> QED BY <3>1, <2>2, <5>1, <5>2 DEF Claimed, Writes
        <4> QED BY <4>1, <4>2, <2>4, <1>0 DEF PressClaims, PollTypeOK
      <3>2. CASE UNCHANGED <<claim, context, made>>
        BY <3>2, <2>4, <1>0 DEF PressClaims, PollTypeOK
      <3> QED BY <3>1, <3>2, <2>4 DEF PressClaims
    <2>5. CASE PressVotes
      <3>1. votes' \in [Polls -> Seq(Numbers)]
        <4>1. votes \in [Polls -> Seq(Numbers)]  BY <1>0 DEF PollTypeOK
        <4>2. votes[ThePoll] \in Seq(Numbers)  BY <4>1, <2>2
        <4>3. Append(votes[ThePoll], Press) \in Seq(Numbers)  BY <4>2, <2>2
        <4> QED BY <4>1, <4>3, <2>2, <2>5 DEF PressVotes
      <3> QED BY <3>1, <2>5, <1>0 DEF PressVotes, PollTypeOK
    <2> QED BY <1>3, <2>3, <2>4, <2>5 DEF PressSteps
  <1> QED BY <1>1, <1>2, <1>3, PollFrame

LEMMA TypeNext == TypeInv /\ [Next]_vars => TypeInv'
  BY PathNext, LinkTypeNext, PollTypeNext, FitsNext, RecordNext DEF TypeInv

(* In every reachable state the variables have their types: the offset     *)
(* never passes what was fetched, the loop holds only entries the group    *)
(* gave it and has not seen acknowledged, and it is idle exactly when it   *)
(* has none in hand.                                                       *)
THEOREM InboundTypeCorrect == Spec => []TypeOK
  BY TypeInit, TypeNext, TypeInvType, PTL DEF Spec

-----------------------------------------------------------------------------
(* How often an update is taken up. What is still to come of it counts:    *)
(* its entries that will be taken up again or for the first time, and one  *)
(* more while the receiver has not passed it. A failed acknowledgement     *)
(* adds one, a crash the entry in hand and the update itself.              *)

Waiting(u) == {i \in DOMAIN stream :
                 stream[i] = u /\ i # hand /\ (i > given \/ i \in unacked)}

ToCome(u) == IF u > offset THEN 1 ELSE 0

Spent == MaxTrouble - trouble

RepeatInv ==
  \A u \in Numbers : handled[u] + Cardinality(Waiting(u)) + ToCome(u) <= 1 + 2 * Spent

(* Counting a finite set that shrinks, or grows by one element.            *)
LEMMA Counting ==
  ASSUME NEW S, IsFiniteSet(S), NEW T, NEW x
  PROVE  /\ T \subseteq S => Cardinality(T) \in Nat /\ Cardinality(T) <= Cardinality(S)
         /\ T \subseteq S \cup {x} =>
              Cardinality(T) \in Nat /\ Cardinality(T) <= Cardinality(S) + 1
         /\ x \in S /\ T \subseteq S \ {x} =>
              Cardinality(T) \in Nat /\ Cardinality(T) <= Cardinality(S) - 1
  <1>1. Cardinality(S) \in Nat  BY FS_CardinalityType
  <1>2. ASSUME T \subseteq S
        PROVE  Cardinality(T) \in Nat /\ Cardinality(T) <= Cardinality(S)
    BY <1>2, FS_Subset, FS_CardinalityType
  <1>3. ASSUME T \subseteq S \cup {x}
        PROVE  Cardinality(T) \in Nat /\ Cardinality(T) <= Cardinality(S) + 1
    <2>1. IsFiniteSet(S \cup {x}) /\ Cardinality(S \cup {x}) <= Cardinality(S) + 1
      <3>1. /\ IsFiniteSet(S \cup {x})
            /\ Cardinality(S \cup {x}) = IF x \in S THEN Cardinality(S) ELSE Cardinality(S) + 1
        BY FS_AddElement, Zenon
      <3> QED BY <3>1, <1>1
    <2>2. IsFiniteSet(T) /\ Cardinality(T) <= Cardinality(S \cup {x})
      BY <1>3, <2>1, FS_Subset
    <2>3. Cardinality(T) \in Nat /\ Cardinality(S \cup {x}) \in Nat
      BY <2>1, <2>2, FS_CardinalityType
    <2> QED BY <1>1, <2>1, <2>2, <2>3
  <1>4. ASSUME x \in S, T \subseteq S \ {x}
        PROVE  Cardinality(T) \in Nat /\ Cardinality(T) <= Cardinality(S) - 1
    <2>1. IsFiniteSet(S \ {x}) /\ Cardinality(S \ {x}) = Cardinality(S) - 1
      BY <1>4, FS_RemoveElement
    <2>2. IsFiniteSet(T) /\ Cardinality(T) <= Cardinality(S \ {x})
      BY <1>4, <2>1, FS_Subset
    <2>3. Cardinality(T) \in Nat  BY <2>2, FS_CardinalityType
    <2> QED BY <1>1, <2>1, <2>2, <2>3
  <1> QED BY <1>2, <1>3, <1>4

LEMMA WaitingFinite ==
  ASSUME PathOK, NEW u
  PROVE  IsFiniteSet(Waiting(u)) /\ Cardinality(Waiting(u)) \in Nat
  <1>1. DOMAIN stream = 1 .. Len(stream) /\ Len(stream) \in Nat  BY DEF PathOK, StreamOK
  <1>2. IsFiniteSet(DOMAIN stream)  BY <1>1, FS_Interval
  <1>3. Waiting(u) \subseteq DOMAIN stream  BY DEF Waiting
  <1> QED BY <1>2, <1>3, FS_Subset, FS_CardinalityType

LEMMA RepeatInit == Init => RepeatInv
  <1> SUFFICES ASSUME Init, NEW u \in Numbers
               PROVE  handled[u] + Cardinality(Waiting(u)) + ToCome(u) <= 1 + 2 * Spent
    BY DEF RepeatInv
  <1>1. Waiting(u) = {}  BY DEF Init, InboundInit, Waiting
  <1>2. Cardinality(Waiting(u)) = 0  BY <1>1, FS_EmptySet
  <1> QED BY <1>2 DEF Init, InboundInit, LoopStarts, ToCome, Spent

(* The steps that add nothing to what is to come.                          *)
LEMMA RepeatQuiet ==
  ASSUME PathOK, PathOK', NEW u \in Numbers,
         handled[u] + Cardinality(Waiting(u)) + ToCome(u) <= 1 + 2 * Spent,
         UNCHANGED handled, offset <= offset', trouble' <= trouble,
         Waiting(u)' \subseteq Waiting(u)
  PROVE  handled'[u] + Cardinality(Waiting(u)') + ToCome(u)' <= 1 + 2 * Spent'
  <1>1. Cardinality(Waiting(u)') <= Cardinality(Waiting(u))
    BY WaitingFinite, Counting
  <1>2. Cardinality(Waiting(u)) \in Nat /\ Cardinality(Waiting(u)') \in Nat
    BY WaitingFinite, Counting
  <1>3. ToCome(u)' <= ToCome(u) /\ ToCome(u) \in Nat /\ ToCome(u)' \in Nat
    BY DEF ToCome, PathOK, SentOK, Numbers
  <1>4. handled[u] \in Nat /\ trouble \in Nat /\ trouble' \in Nat
    BY DEF PathOK, CountOK, TroubleOK
  <1> QED BY <1>1, <1>2, <1>3, <1>4 DEF Spent

LEMMA RepeatNext == PathOK /\ RepeatInv /\ [Next]_vars => RepeatInv'
  <1> SUFFICES ASSUME PathOK, RepeatInv, [Next]_vars, NEW u \in Numbers
               PROVE  handled'[u] + Cardinality(Waiting(u)') + ToCome(u)' <= 1 + 2 * Spent'
    BY DEF RepeatInv, Spent, Waiting, ToCome
  <1>p. PathOK'  BY PathNext
  <1>0. handled[u] + Cardinality(Waiting(u)) + ToCome(u) <= 1 + 2 * Spent
    BY DEF RepeatInv
  <1>t. /\ trouble \in Nat /\ trouble' \in Nat /\ handled[u] \in Nat
        /\ offset \in Nat /\ offset' \in Nat /\ u \in Nat
        /\ Cardinality(Waiting(u)) \in Nat
    BY <1>p, WaitingFinite DEF PathOK, CountOK, TroubleOK, SentOK, Numbers
  <1>1. CASE UNCHANGED inboundVars
    BY <1>p, <1>0, <1>t, <1>1, RepeatQuiet
       DEF inboundVars, telegramVars, groupVars, handVars, troubleVars, Waiting
  <1>2. ASSUME NEW x \in Updates, PersonSends(x)
        PROVE  handled'[u] + Cardinality(Waiting(u)') + ToCome(u)' <= 1 + 2 * Spent'
    BY <1>p, <1>0, <1>t, <1>2, RepeatQuiet
       DEF PersonSends, groupVars, handVars, troubleVars, Waiting
  <1>3. CASE Poll
    <2>1. offset <= offset'  BY <1>3, <1>t DEF Poll, PathOK, SentOK
    <2>2. UNCHANGED <<handled, trouble, stream, given, unacked, hand>>
      BY <1>3 DEF Poll, groupVars, handVars, troubleVars
    <2> QED BY <1>p, <1>0, <1>t, <2>1, <2>2, RepeatQuiet DEF Waiting
  <1>4. CASE Refuse /\ (NoTrouble \/ Trouble("valkey"))
    BY <1>p, <1>0, <1>t, <1>4, RepeatQuiet
       DEF Refuse, Receiving, NoTrouble, Trouble, groupVars, handVars, troubleVars, Waiting
  <1>5. CASE Receive
    <2>1. handled' = handled /\ offset' = offset + 1 /\ trouble' <= trouble
      BY <1>5, <1>t DEF Receive, Receiving, NoTrouble, Trouble, troubleVars
    <2>2. given \in Nat /\ DOMAIN stream = 1 .. Len(stream) /\ Len(stream) \in Nat
          /\ given <= Len(stream) /\ stream \in Seq(Numbers) /\ offset + 1 \in Numbers
      BY <1>5 DEF Receive, Receiving, PathOK, StreamOK, GroupOK, SentOK, Numbers
    <2>3. CASE stream' = stream
      <3>1. Waiting(u)' \subseteq Waiting(u)
        BY <2>3, <1>5 DEF Receive, groupVars, handVars, Waiting
      <3> QED BY <1>p, <1>0, <1>t, <2>1, <3>1, RepeatQuiet
    <2>4. CASE stream' = Append(stream, offset + 1)
      <3>1. DOMAIN stream' = 1 .. (Len(stream) + 1)
            /\ stream'[Len(stream) + 1] = offset + 1
            /\ \A i \in DOMAIN stream : stream'[i] = stream[i]
        BY <2>4, <2>2
      <3>2. CASE u = offset + 1
        <4>1. Waiting(u)' \subseteq Waiting(u) \cup {Len(stream) + 1}
          BY <3>1, <2>2, <1>5 DEF Receive, groupVars, handVars, Waiting
        <4>2. Cardinality(Waiting(u)') \in Nat /\ Cardinality(Waiting(u)') <= Cardinality(Waiting(u)) + 1
          BY <4>1, WaitingFinite, Counting
        <4>3. ToCome(u) = 1 /\ ToCome(u)' = 0
          BY <3>2, <2>1, <1>t DEF ToCome
        <4> QED BY <4>2, <4>3, <2>1, <1>0, <1>t DEF Spent
      <3>3. CASE u # offset + 1
        <4>1. Waiting(u)' \subseteq Waiting(u)
          BY <3>1, <3>3, <2>2, <1>5 DEF Receive, groupVars, handVars, Waiting
        <4> QED BY <1>p, <1>0, <1>t, <2>1, <4>1, RepeatQuiet
      <3> QED BY <3>2, <3>3
    <2> QED BY <2>3, <2>4, <1>5 DEF Receive
  <1>6. ASSUME NEW i \in toHandle, TakeUp(i, FirstStage(UpdateOf(i)))
        PROVE  handled'[u] + Cardinality(Waiting(u)') + ToCome(u)' <= 1 + 2 * Spent'
    <2>1. i \in DOMAIN stream /\ i \in unacked /\ 0 \notin DOMAIN stream /\ stream[i] \in Numbers
      BY DEF PathOK, GroupOK, StreamOK
    <2>0. offset' = offset /\ trouble' = trouble
      BY <1>6 DEF TakeUp, telegramVars, troubleVars
    <2>2. CASE stream[i] = u
      <3>1. i \in Waiting(u) /\ Waiting(u)' \subseteq Waiting(u) \ {i}
        BY <2>1, <2>2, <1>6 DEF TakeUp, groupVars, Waiting
      <3>2. Cardinality(Waiting(u)') \in Nat /\ Cardinality(Waiting(u)') <= Cardinality(Waiting(u)) - 1
        BY <3>1, WaitingFinite, Counting
      <3>3. handled'[u] = handled[u] + 1
        BY <2>2, <1>6 DEF TakeUp, PathOK, CountOK
      <3>4. ToCome(u)' = ToCome(u) /\ ToCome(u) \in Nat /\ trouble' = trouble
        BY <2>0, <1>t DEF ToCome
      <3> QED BY <3>2, <3>3, <3>4, <1>0, <1>t DEF Spent
    <2>3. CASE stream[i] # u
      <3>1. Waiting(u)' \subseteq Waiting(u)
        BY <2>1, <2>3, <1>6 DEF TakeUp, groupVars, Waiting
      <3>2. Cardinality(Waiting(u)') \in Nat /\ Cardinality(Waiting(u)') <= Cardinality(Waiting(u))
        BY <3>1, WaitingFinite, Counting
      <3>3. handled'[u] = handled[u]
        BY <2>3, <1>6 DEF TakeUp, PathOK, CountOK
      <3>4. ToCome(u)' = ToCome(u) /\ ToCome(u) \in Nat /\ trouble' = trouble
        BY <2>0, <1>t DEF ToCome
      <3> QED BY <3>2, <3>3, <3>4, <1>0, <1>t DEF Spent
    <2> QED BY <2>2, <2>3
  <1>7. CASE ReadInbound
    <2>1. Waiting(u)' \subseteq Waiting(u)
      BY <1>7 DEF ReadInbound, Unread, handVars, Waiting, PathOK, StreamOK, GroupOK
    <2>2. UNCHANGED <<handled, offset>> /\ trouble' <= trouble
      BY <1>7, <1>t DEF ReadInbound, NoTrouble, Trouble, telegramVars, troubleVars
    <2> QED BY <1>p, <1>0, <1>t, <2>1, <2>2, RepeatQuiet
  <1>8. CASE AckInbound
    <2>0. UNCHANGED <<handled, offset, stream, given>> /\ hand' = 0
      BY <1>8 DEF AckInbound, telegramVars
    <2>1. CASE unacked' = unacked \ {hand} /\ NoTrouble
      <3>1. Waiting(u)' \subseteq Waiting(u)
        BY <2>0, <2>1, <1>8 DEF Waiting, AckInbound, PathOK, HandOK, GroupOK
      <3> QED BY <1>p, <1>0, <1>t, <2>0, <2>1, <3>1, RepeatQuiet DEF NoTrouble, troubleVars
    <2>2. CASE unacked' = unacked /\ Trouble("ack")
      <3>1. Waiting(u)' \subseteq Waiting(u) \cup {hand}
        BY <2>0, <2>2 DEF Waiting
      <3>2. Cardinality(Waiting(u)') \in Nat /\ Cardinality(Waiting(u)') <= Cardinality(Waiting(u)) + 1
        BY <3>1, WaitingFinite, Counting
      <3>3. ToCome(u)' = ToCome(u) /\ ToCome(u) \in Nat /\ trouble' = trouble - 1
        BY <2>0, <2>2 DEF Trouble, ToCome
      <3> QED BY <3>2, <3>3, <2>0, <1>0, <1>t DEF Spent
    <2> QED BY <2>1, <2>2, <1>8 DEF AckInbound
  <1>9. CASE LinkSteps \/ PressSteps
    <2>1. UNCHANGED <<handled, offset, stream, given, unacked, hand>> /\ trouble' <= trouble
      BY <1>9, <1>t, HandlerAdvances
         DEF Advance, NoTrouble, Trouble, telegramVars, groupVars, troubleVars
    <2> QED BY <1>p, <1>0, <1>t, <2>1, RepeatQuiet DEF Waiting
  <1>10. CASE StartInbound
    BY <1>p, <1>0, <1>t, <1>10, RepeatQuiet
       DEF StartInbound, telegramVars, groupVars, handVars, troubleVars, Waiting
  <1>11. CASE StopInbound
    <2>1. Waiting(u)' \subseteq Waiting(u) \cup {hand}
      BY <1>11 DEF StopInbound, groupVars, Waiting
    <2>2. Cardinality(Waiting(u)') \in Nat /\ Cardinality(Waiting(u)') <= Cardinality(Waiting(u)) + 1
      BY <2>1, WaitingFinite, Counting
    <2>3. handled' = handled /\ trouble' = trouble - 1 /\ ToCome(u)' <= ToCome(u) + 1
          /\ ToCome(u) \in Nat /\ ToCome(u)' \in Nat
      BY <1>11, <1>t DEF StopInbound, Trouble, ToCome
    <2> QED BY <2>2, <2>3, <1>0, <1>t DEF Spent
  <1>12. CASE Next
    BY <1>1, <1>2, <1>3, <1>4, <1>5, <1>6, <1>7, <1>8, <1>9, <1>10, <1>11, <1>12, Steps
  <1> QED BY <1>1, <1>12 DEF vars

(* An update is taken up once, and at most twice more for each failure or  *)
(* crash: the receiver's offset in memory and the group's pending list     *)
(* repeat nothing by themselves.                                           *)
THEOREM RepeatsPaidFor == Spec => []RepeatsExplained
  <1>1. TypeInv /\ RepeatInv => RepeatsExplained
    <2> SUFFICES ASSUME TypeInv, RepeatInv, NEW u \in Numbers
                 PROVE  handled[u] <= 1 + 2 * Spent
      BY DEF RepeatsExplained, Spent
    <2>1. PathOK  BY DEF TypeInv
    <2>2. handled[u] \in Nat /\ trouble \in Nat /\ ToCome(u) \in Nat
          /\ Cardinality(Waiting(u)) \in Nat
      BY <2>1, WaitingFinite DEF PathOK, CountOK, TroubleOK, ToCome
    <2> QED BY <2>2 DEF RepeatInv, Spent
  <1>2. TypeInv => PathOK  BY DEF TypeInv
  <1> QED BY <1>1, <1>2, TypeInit, TypeNext, RepeatInit, RepeatNext, PTL DEF Spec
-----------------------------------------------------------------------------
(* Who touches what the group handed out.                                  *)
LEMMA PathFrame ==
  ASSUME PathOK, [Next]_vars
  PROVE  /\ \/ UNCHANGED <<given, unacked, toHandle, hand, handled>>
            \/ \E i \in toHandle : TakeUp(i, FirstStage(UpdateOf(i)))
            \/ ReadInbound
            \/ AckInbound
            \/ StopInbound
         /\ UNCHANGED stream \/ Receive
         /\ met \subseteq met'
  <1>1. LinkSteps \/ PressSteps =>
          UNCHANGED <<given, unacked, toHandle, hand, handled, stream>> /\ met \subseteq met'
    BY HandlerAdvances DEF Advance, NoTrouble, Trouble, telegramVars, groupVars, troubleVars
  <1> QED
    BY <1>1, Steps
       DEF PersonSends, Poll, Receive, Refuse, TakeUp, ReadInbound, AckInbound, StartInbound,
           StopInbound, NoTrouble, Trouble, vars, inboundVars, telegramVars, groupVars, handVars,
           troubleVars

-----------------------------------------------------------------------------
(* The order entries are taken up in. As long as no read failed, an entry  *)
(* the group handed out is pending or was taken up, and while the loop     *)
(* works on a merged reply, so is every pending entry it has looked at; an *)
(* update taken up is one that was written.                                *)

Placed ==
  "read" \notin met =>
    /\ \A i \in 1 .. given : i \in unacked \/ handled[stream[i]] > 0
    /\ hand # 0 \/ toHandle # {} => \A i \in unacked \ toHandle : handled[stream[i]] > 0

Written == \A u \in Numbers : handled[u] > 0 => \E i \in DOMAIN stream : stream[i] = u

OrderInv == Placed /\ Written /\ InOrder

LEMMA OrderInit == Init => OrderInv
  BY DEF Init, InboundInit, LoopStarts, OrderInv, Placed, Written, InOrder

(* An update taken up once was taken up ever after.                        *)
LEMMA HandledGrows ==
  ASSUME PathOK, [Next]_vars, NEW u \in Numbers, handled[u] > 0
  PROVE  handled'[u] > 0
  <1>1. ASSUME NEW i \in toHandle, TakeUp(i, FirstStage(UpdateOf(i)))
        PROVE  handled'[u] > 0
    <2>1. stream[i] \in Numbers /\ handled \in [Numbers -> Nat]
      BY DEF PathOK, GroupOK, StreamOK, CountOK
    <2> QED BY <2>1, <1>1 DEF TakeUp
  <1> QED BY <1>1, PathFrame DEF ReadInbound, AckInbound, StopInbound

LEMMA PlacedNext == PathOK /\ Placed /\ [Next]_vars => Placed'
  <1> SUFFICES ASSUME PathOK, Placed, [Next]_vars, "read" \notin met'
               PROVE  /\ \A i \in 1 .. given' : i \in unacked' \/ handled'[stream'[i]] > 0
                      /\ hand' # 0 \/ toHandle' # {} =>
                           \A i \in unacked' \ toHandle' : handled'[stream'[i]] > 0
    BY DEF Placed
  <1>1. /\ \A i \in 1 .. given : i \in unacked \/ handled[stream[i]] > 0
        /\ hand # 0 \/ toHandle # {} => \A i \in unacked \ toHandle : handled[stream[i]] > 0
    BY PathFrame DEF Placed
  <1>2. /\ 1 .. given \subseteq DOMAIN stream /\ unacked \subseteq 1 .. given /\ given \in Nat
        /\ DOMAIN stream = 1 .. Len(stream) /\ Len(stream) \in Nat
    BY DEF PathOK, GroupOK, StreamOK
  <1>3. \A i \in DOMAIN stream : stream'[i] = stream[i] /\ stream[i] \in Numbers
    BY Kept DEF PathOK, StreamOK
  <1>4. \A i \in DOMAIN stream : handled[stream[i]] > 0 => handled'[stream'[i]] > 0
    BY <1>3, HandledGrows
  <1>5. CASE UNCHANGED <<given, unacked, toHandle, hand, handled>>
    BY <1>1, <1>2, <1>4, <1>5
  <1>6. ASSUME NEW i \in toHandle, TakeUp(i, FirstStage(UpdateOf(i)))
        PROVE  /\ \A j \in 1 .. given' : j \in unacked' \/ handled'[stream'[j]] > 0
               /\ \A j \in unacked' \ toHandle' : handled'[stream'[j]] > 0
    <2>1. i \in DOMAIN stream  BY <1>2 DEF PathOK, GroupOK
    <2>2. handled'[stream'[i]] > 0
      BY <2>1, <1>3, <1>6 DEF TakeUp, PathOK, CountOK
    <2> QED BY <2>1, <2>2, <1>1, <1>2, <1>4, <1>6 DEF TakeUp, groupVars
  <1>7. CASE ReadInbound
    <2>1. toHandle' = unacked \cup Unread /\ given' = Len(stream)
      BY <1>7 DEF ReadInbound, Trouble
    <2>2. unacked' = unacked \cup Unread
      BY <2>1, <1>2, <1>7 DEF ReadInbound, Unread
    <2>3. \A i \in 1 .. given' : i \in 1 .. given \/ i \in unacked'
      BY <2>1, <2>2, <1>2 DEF Unread
    <2> QED BY <2>1, <2>2, <2>3, <1>1, <1>2, <1>4
  <1>8. CASE AckInbound
    <2>1. hand \in unacked \ toHandle  BY <1>8 DEF AckInbound, PathOK, HandOK
    <2>2. handled'[stream'[hand]] > 0  BY <2>1, <1>1, <1>2, <1>4 DEF PathOK, HandOK
    <2>3. \A i \in unacked \ toHandle : handled'[stream'[i]] > 0
      BY <2>1, <1>1, <1>2, <1>4 DEF PathOK, HandOK
    <2>4. \A i \in unacked : i \in unacked' \/ i = hand  BY <1>8 DEF AckInbound
    <2>5. unacked' \subseteq unacked /\ given' = given /\ toHandle' = toHandle
      BY <1>8 DEF AckInbound
    <2> QED BY <2>2, <2>3, <2>4, <2>5, <1>1, <1>2, <1>4
  <1>9. CASE StopInbound
    BY <1>1, <1>2, <1>4, <1>9 DEF StopInbound, groupVars
  <1> QED BY <1>5, <1>6, <1>7, <1>8, <1>9, PathFrame

LEMMA WrittenNext == PathOK /\ Written /\ [Next]_vars => Written'
  <1> SUFFICES ASSUME PathOK, Written, [Next]_vars, NEW u \in Numbers, handled'[u] > 0
               PROVE  \E i \in DOMAIN stream' : stream'[i] = u
    BY DEF Written
  <1>1. CASE handled[u] > 0
    BY <1>1, Kept DEF Written
  <1>2. ASSUME NEW i \in toHandle, TakeUp(i, FirstStage(UpdateOf(i))), ~(handled[u] > 0)
        PROVE  \E j \in DOMAIN stream' : stream'[j] = u
    <2>1. i \in DOMAIN stream  BY DEF PathOK, GroupOK, StreamOK
    <2>2. u = stream[i]  BY <1>2 DEF TakeUp, PathOK, CountOK
    <2> QED BY <2>1, <2>2, Kept
  <1> QED BY <1>1, <1>2, PathFrame DEF ReadInbound, AckInbound, StopInbound

LEMMA InOrderNext == PathOK /\ OrderInv /\ [Next]_vars => InOrder'
  <1> SUFFICES ASSUME PathOK, OrderInv, [Next]_vars, "read" \notin met',
                      NEW j \in DOMAIN stream', handled'[stream'[j]] > 0,
                      \A i \in 1 .. (j - 1) : stream'[i] # stream'[j],
                      NEW k \in 1 .. (j - 1)
               PROVE  handled'[stream'[k]] > 0
    BY DEF InOrder
  <1>0. /\ given \in Nat /\ given <= Len(stream) /\ DOMAIN stream = 1 .. Len(stream)
        /\ Len(stream) \in Nat /\ toHandle \subseteq unacked /\ unacked \subseteq 1 .. given
        /\ \A i \in DOMAIN stream : stream'[i] = stream[i] /\ stream[i] \in Numbers
        /\ PathOK'
    BY Kept, PathNext, SMTT(20) DEF PathOK, GroupOK, StreamOK
  <1>1. "read" \notin met  BY PathFrame
  <1>2. CASE j \notin DOMAIN stream
    <2>1. Receive /\ UNCHANGED handled
      BY <1>2, PathFrame DEF Receive
    <2>2. stream'[j] \in Numbers  BY <1>0 DEF PathOK, StreamOK
    <2>3. PICK i \in DOMAIN stream : stream[i] = stream'[j]
      BY <2>1, <2>2 DEF OrderInv, Written
    <2>4. i \in 1 .. (j - 1)
      <3>1. j \in Nat /\ j >= 1  BY <1>0 DEF PathOK, StreamOK
      <3> QED BY <3>1, <2>3, <1>0, <1>2
    <2> QED BY <2>3, <2>4, <1>0
  <1>3. CASE j \in DOMAIN stream
    <2>0. k \in DOMAIN stream /\ k < j /\ j \in Nat /\ k \in Nat  BY <1>0, <1>3
    <2>1. \A i \in 1 .. (j - 1) : stream[i] # stream[j]  BY <1>0, <1>3
    <2>2. CASE handled[stream[j]] > 0
      <3>1. handled[stream[k]] > 0
        BY <1>1, <1>3, <2>1, <2>2 DEF OrderInv, InOrder
      <3> QED BY <3>1, <2>0, <1>0, HandledGrows
    <2>3. CASE ~(handled[stream[j]] > 0)
      <3>1. PICK i \in toHandle : TakeUp(i, FirstStage(UpdateOf(i)))
        BY <2>3, <1>3, <1>0, PathFrame DEF ReadInbound, AckInbound, StopInbound
      <3>2. stream[i] = stream[j] /\ i \in 1 .. given
        BY <3>1, <2>3, <1>3, <1>0 DEF TakeUp, PathOK, CountOK
      <3>3. j <= i  BY <3>2, <2>1, <2>0, <1>0
      <3>4. k \in 1 .. given /\ k \notin toHandle
        BY <3>1, <3>2, <3>3, <2>0, <1>0 DEF TakeUp
      <3>5. handled[stream[k]] > 0
        BY <3>1, <3>4, <1>1 DEF OrderInv, Placed
      <3> QED BY <3>5, <2>0, <1>0, HandledGrows
    <2> QED BY <2>2, <2>3
  <1> QED BY <1>2, <1>3

(* Unless a read failed, entries are first taken up in the order they were *)
(* written, across crashes and failed acknowledgements: the pending ones   *)
(* come before the new ones.                                               *)
THEOREM TakenInOrder == Spec => []InOrder
  <1>1. OrderInv => InOrder  BY DEF OrderInv
  <1>2. PathOK /\ OrderInv /\ [Next]_vars => OrderInv'
    BY PlacedNext, WrittenNext, InOrderNext DEF OrderInv
  <1>3. TypeInv => PathOK  BY DEF TypeInv
  <1> QED BY <1>1, <1>2, <1>3, TypeInit, TypeNext, OrderInit, PTL DEF Spec
-----------------------------------------------------------------------------
(* The polls. While a poll has not expired its context keeps the claim; a  *)
(* vote is on its way only from the press that holds it, and no vote was   *)
(* put on the stream before. A context made again is told by the count.    *)

Open(p) == context[p] \in {"none", "live"} /\ made[p] <= 1

MadeOK(p) == /\ context[p] # "none" => made[p] >= 1
             /\ context[p] = "untimed" => made[p] >= 2

Voting(p) == stage = "press.vote" /\ ThePoll = p

(* A button is pressed on a poll that was sent.                            *)
Pressable ==
  \A i \in DOMAIN sent : sent[i].kind = "press" => context[sent[i].poll] # "none"

VoteInv ==
  /\ Pressable
  /\ \A p \in Polls :
       /\ MadeOK(p)
       /\ Open(p) =>
            /\ claim[p] = 0 => votes[p] = <<>>
            /\ votes[p] = <<>> \/ votes[p] = <<claim[p]>>
            /\ Voting(p) => claim[p] = Press /\ votes[p] = <<>>

LEMMA VoteInit == Init => VoteInv
  BY DEF Init, InboundInit, LoopStarts, PollInit, VoteInv, Pressable, MadeOK, Open, Voting

(* What becomes of a context, and of the count.                            *)
LEMMA MadeSteps ==
  ASSUME TypeInv, [Next]_vars, NEW p \in Polls
  PROVE  \/ context'[p] = context[p] /\ made'[p] = made[p]
         \/ ~ Exists(p) /\ context'[p] = "live" /\ made'[p] = made[p] + 1 /\ claim' = claim
            /\ ~ PressSteps
         \/ context[p] = "untimed" /\ context'[p] = "live" /\ made'[p] = made[p] /\ claim' = claim
            /\ ~ PressSteps
         \/ context[p] = "live" /\ context'[p] = "expired" /\ made'[p] = made[p] /\ ~ PressSteps
         \/ ~ Exists(p) /\ context'[p] = "untimed" /\ made'[p] = made[p] + 1 /\ PressClaims
            /\ ThePoll = p /\ Claimed
  <1>0. context \in [Polls -> Contexts] /\ made \in [Polls -> Nat] /\ PathOK
    BY DEF TypeInv, PollTypeOK
  <1>1. ASSUME NEW q \in Polls, TrackPoll(q) \/ PollExpires(q)
        PROVE  \/ context'[p] = context[p] /\ made'[p] = made[p]
               \/ ~ Exists(p) /\ context'[p] = "live" /\ made'[p] = made[p] + 1 /\ claim' = claim
               \/ context[p] = "untimed" /\ context'[p] = "live" /\ made'[p] = made[p] /\ claim' = claim
               \/ context[p] = "live" /\ context'[p] = "expired" /\ made'[p] = made[p]
    BY <1>0, <1>1 DEF TrackPoll, PollExpires
  <1>2. CASE PressReads \/ PressVotes
    BY <1>2 DEF PressReads, PressVotes, pollVars
  <1>3. CASE PressClaims
    <2>1. CASE UNCHANGED <<claim, context, made>>  BY <2>1
    <2>2. CASE Claimed
      <3>1. CASE Exists(ThePoll)  BY <2>2, <3>1 DEF Claimed, Writes
      <3>2. CASE ~ Exists(ThePoll) /\ ThePoll = p
        BY <1>0, <1>3, <2>2, <3>2 DEF Claimed, Writes
      <3>3. CASE ThePoll # p
        BY <1>0, <2>2, <3>3 DEF Claimed, Writes
      <3> QED BY <3>1, <3>2, <3>3
    <2> QED BY <1>3, <2>1, <2>2 DEF PressClaims
  <1>4. CASE UNCHANGED pollVars  BY <1>4 DEF pollVars
  <1>5. PressSteps => stage' # stage
    BY DEF PressSteps, PressReads, PressClaims, PressVotes, Advance
  <1>6. ASSUME NEW q \in Polls, TrackPoll(q) \/ PollExpires(q) PROVE ~ PressSteps
    BY <1>5, <1>6 DEF TrackPoll, PollExpires, inboundVars, handVars
  <1> QED BY <1>1, <1>2, <1>3, <1>4, <1>6, PollFrame DEF PressSteps

LEMMA PressableNext ==
  ASSUME TypeInv, Pressable, [Next]_vars
  PROVE  /\ Pressable'
         /\ PressSteps => context[ThePoll] # "none"
  <1>0. PathOK /\ StageFits /\ (stage = "idle" <=> hand = 0)
        /\ DOMAIN sent = 1 .. Len(sent) /\ sent \in Seq(Updates)
    BY DEF TypeInv, PathOK, HandOK, SentOK
  <1>1. PressSteps => context[ThePoll] # "none"
    <2> SUFFICES ASSUME PressSteps PROVE context[ThePoll] # "none"
      OBVIOUS
    <2>1. stage \in PollStages /\ hand # 0
      BY <1>0 DEF PressSteps, PressReads, PressClaims, PressVotes, Advance, PollStages
    <2>2. Press \in DOMAIN sent /\ InHand = sent[Press] /\ InHand.kind = "press"
      BY <1>0, <2>1, InHandType DEF StageFits, Press, InHand, UpdateOf
    <2>3. Pressable  OBVIOUS
    <2> QED BY <2>2, <2>3 DEF Pressable, ThePoll
  <1>2. \A p \in Polls : context[p] # "none" => context'[p] # "none"
    BY MadeSteps
  <1>3. \A x \in Updates : x.kind = "press" => x.poll \in Polls
    OBVIOUS
  <1>4. ASSUME UNCHANGED sent PROVE Pressable'
    <2>1. \A i \in DOMAIN sent : sent[i] \in Updates  BY <1>0
    <2>2. ASSUME NEW i \in DOMAIN sent, sent[i].kind = "press"
          PROVE  context'[sent[i].poll] # "none"
      BY <1>2, <1>3, <2>1, <2>2 DEF Pressable
    <2> QED BY <1>4, <2>2 DEF Pressable
  <1>5. ASSUME NEW x \in Updates, PersonSends(x), x.kind = "press" => context[x.poll] # "none",
               UNCHANGED pollVars
        PROVE  Pressable'
    <2>1. sent' = Append(sent, x) /\ context' = context  BY <1>5 DEF PersonSends, pollVars
    <2>2. ASSUME NEW i \in DOMAIN sent' 
          PROVE  (i \in DOMAIN sent /\ sent'[i] = sent[i]) \/ sent'[i] = x
      BY <1>0, <2>1
    <2> QED BY <1>5, <2>1, <2>2 DEF Pressable
  <1>6. UNCHANGED sent \/ Person
    <2>1. LinkSteps \/ PressSteps => UNCHANGED sent
      BY HandlerAdvances DEF Advance, telegramVars
    <2>2. Receiver \/ Take \/ Group \/ Start \/ Stop => UNCHANGED sent
      BY DEF Receiver, Take, Group, Start, Stop, Poll, Receive, Refuse, TakeUp, ReadInbound,
             AckInbound, StartInbound, StopInbound, telegramVars
    <2>3. Sites => UNCHANGED inboundVars
      BY DEF Sites, Site, MakeCode, CodeExpires, WindowUnlinks, TrackPoll, PollExpires
    <2> QED BY <2>1, <2>2, <2>3 DEF Next, Handle, inboundVars, telegramVars, vars
  <1>7. Person => Pressable'  BY <1>5 DEF Person
  <1> QED BY <1>1, <1>4, <1>6, <1>7

(* The press being handled stays the same.                                 *)
LEMMA PressKept ==
  ASSUME TypeInv, [Next]_vars, stage \in PollStages, hand' = hand
  PROVE  hand # 0 /\ ThePoll \in Polls /\ ThePoll' = ThePoll /\ Press' = Press /\ Press \in Numbers
  <1>1. hand # 0 /\ PathOK /\ InHand.kind = "press"
    BY DEF TypeInv, PathOK, HandOK, StageFits, PollStages
  <1> QED BY <1>1, InHandType DEF ThePoll, Press

LEMMA PressStage ==
  ASSUME PressSteps
  PROVE  stage \in PollStages /\ hand' = hand
  BY DEF PressSteps, PressReads, PressClaims, PressVotes, Advance, PollStages

(* A vote is on its way only after a claim, and a context made once that   *)
(* has expired is never again a context made once.                         *)
LEMMA VotingFrame ==
  ASSUME TypeInv, VoteInv, [Next]_vars, NEW p \in Polls
  PROVE  /\ Voting(p)' => (Voting(p) /\ hand' = hand /\ Press' = Press) \/ PressClaims
         /\ Open(p)' => Open(p)
         /\ MadeOK(p)'
  <1>0. PathOK /\ (stage = "idle" <=> hand = 0)  BY DEF TypeInv, PathOK, HandOK
  <1>1. ASSUME Voting(p)', ~PressClaims
        PROVE  Voting(p) /\ hand' = hand /\ Press' = Press
    <2>1. UNCHANGED <<hand, stage>>
      <3>1. ~(\E i \in toHandle : TakeUp(i, FirstStage(UpdateOf(i))))
        <4> SUFFICES ASSUME NEW i \in toHandle, TakeUp(i, FirstStage(UpdateOf(i)))
                     PROVE  FALSE
          OBVIOUS
        <4>1. i \in DOMAIN stream  BY <1>0 DEF PathOK, GroupOK, StreamOK
        <4>2. FirstStage(UpdateOf(i)) = "press.vote"  BY <1>1 DEF Voting, TakeUp
        <4> QED BY <4>1, <4>2, <1>0, EntryType DEF FirstStage, UpdateKinds
      <3>2. ~AckInbound /\ ~StopInbound /\ ~PressReads /\ ~PressVotes
        BY <1>1 DEF Voting, AckInbound, StopInbound, PressReads, PressVotes, Advance
      <3>3. ~LinkSteps
        BY <1>1 DEF Voting, Advance, LinkSteps, LinkCode, LinkRoute, LinkEndsOld, LinkRecords,
                    LinkPuts, LinkAnswers, UnlinkWeb, UnlinkRoute, UnlinkDeletes, UnlinkForgets,
                    AskWeb, AskRoute, AskDrops, AskRelays
      <3> QED BY <1>0, <1>1, <3>1, <3>2, <3>3, HandKept
              DEF PressSteps, vars, inboundVars, handVars
    <2>2. stage \in PollStages  BY <1>1, <2>1 DEF Voting, PollStages
    <2> QED BY <1>1, <2>1, <2>2, PressKept DEF Voting
  <1>2. MadeOK(p)' /\ (Open(p)' => Open(p))
    <2>1. made[p] \in Nat /\ MadeOK(p) /\ context[p] \in Contexts
      BY DEF VoteInv, TypeInv, PollTypeOK
    <2>2. PressClaims /\ ThePoll = p => context[p] # "none"
      BY PressableNext DEF VoteInv, PressSteps
    <2> QED BY <2>1, <2>2, MadeSteps DEF MadeOK, Open, Exists, Contexts
  <1> QED BY <1>1, <1>2

LEMMA VoteNext == TypeInv /\ VoteInv /\ [Next]_vars => VoteInv'
  <1> SUFFICES ASSUME TypeInv, VoteInv, [Next]_vars, NEW p \in Polls, Open(p)'
               PROVE  /\ claim'[p] = 0 => votes'[p] = <<>>
                      /\ votes'[p] = <<>> \/ votes'[p] = <<claim'[p]>>
                      /\ Voting(p)' => claim'[p] = Press' /\ votes'[p] = <<>>
    BY VotingFrame, PressableNext DEF VoteInv
  <1>0. /\ claim[p] = 0 => votes[p] = <<>>
        /\ votes[p] = <<>> \/ votes[p] = <<claim[p]>>
        /\ Voting(p) => claim[p] = Press /\ votes[p] = <<>>
        /\ claim \in [Polls -> Numbers \cup {0}] /\ votes \in [Polls -> Seq(Numbers)]
    BY VotingFrame DEF VoteInv, TypeInv, PollTypeOK
  <1>1. CASE ~PressSteps
    <2>1. (UNCHANGED votes /\ UNCHANGED claim) \/ \E q \in Polls : PollExpires(q)
      BY <1>1, PollFrame DEF pollVars, TrackPoll, PollExpires
    <2>2. claim'[p] = claim[p] /\ votes' = votes
      <3>1. ASSUME NEW q \in Polls, PollExpires(q) PROVE p # q /\ votes' = votes
        BY <3>1 DEF PollExpires, Open, TypeInv, PollTypeOK
      <3> QED BY <2>1, <3>1, <1>0 DEF PollExpires
    <2>3. ~PressClaims  BY <1>1 DEF PressSteps
    <2> QED BY <1>0, <2>2, <2>3, VotingFrame
  <1>2. CASE PressReads
    <2>1. ~Voting(p)'  BY <1>2 DEF PressReads, Advance, Voting
    <2> QED BY <1>0, <1>2, <2>1 DEF PressReads, pollVars
  <1>3. CASE PressClaims
    <2>0. ThePoll \in Polls /\ ThePoll' = ThePoll /\ Press' = Press /\ Press \in Numbers /\ votes' = votes
      BY <1>3, PressStage, PressKept DEF PressSteps, PressClaims
    <2>1. CASE ThePoll = p /\ Claimed
      <3>1. claim'[p] = Press /\ claim[p] = 0  BY <2>0, <2>1, <1>0 DEF Claimed, Writes
      <3> QED BY <3>1, <2>0, <1>0
    <2>2. CASE ThePoll # p \/ UNCHANGED claim
      <3>1. claim'[p] = claim[p]
        BY <2>0, <2>2, <1>0, <1>3 DEF PressClaims, Claimed, Writes
      <3>2. Voting(p)' => FALSE
        <4>1. CASE ThePoll # p  BY <4>1, <2>0 DEF Voting
        <4>2. CASE ThePoll = p /\ UNCHANGED claim
          BY <4>2, <2>0, <1>0, <1>3 DEF PressClaims, Claimed, Writes, Advance, Voting, Numbers
        <4> QED BY <4>1, <4>2, <2>2
      <3> QED BY <3>1, <3>2, <2>0, <1>0
    <2> QED BY <2>1, <2>2, <1>3 DEF PressClaims
  <1>4. CASE PressVotes
    <2>0. ThePoll \in Polls /\ Press \in Numbers /\ claim' = claim
      BY <1>4, PressStage, PressKept DEF PressSteps, PressVotes
    <2>1. ~Voting(p)'  BY <1>4 DEF PressVotes, Advance, Voting
    <2>2. CASE ThePoll = p
      <3>1. claim[p] = Press /\ votes[p] = <<>> /\ claim[p] # 0
        BY <2>0, <2>2, <1>0, <1>4 DEF PressVotes, Advance, Voting, Numbers
      <3>2. votes'[p] = <<>> \/ votes'[p] = Append(votes[p], Press)
        BY <3>1, <2>2, <1>0, <1>4 DEF PressVotes
      <3> QED BY <3>1, <3>2, <2>0, <2>1
    <2>3. CASE ThePoll # p
      <3>1. votes'[p] = votes[p]  BY <2>3, <2>0, <1>0, <1>4 DEF PressVotes
      <3> QED BY <3>1, <2>0, <2>1, <1>0
    <2> QED BY <2>2, <2>3
  <1> QED BY <1>1, <1>2, <1>3, <1>4 DEF PressSteps

(* A poll whose context lives, and was not made again, tells its producer  *)
(* one vote at most, and the vote is the press that claimed it, whatever   *)
(* fails and whoever presses: HSETNX decides, not the read before it.      *)
THEOREM OneVote == Spec => []VoteIsClaim
  <1>1. VoteInv => VoteIsClaim  BY DEF VoteInv, VoteIsClaim, Open
  <1> QED BY <1>1, TypeInit, TypeNext, VoteInit, VoteNext, PTL DEF Spec

(* Every time it is made a context lets one press claim: what was told, is *)
(* on its way or can still be claimed is covered by how often it was made. *)
One(b) == IF b THEN 1 ELSE 0
Free(p) == context[p] = "live" /\ claim[p] = 0

CountInv ==
  \A p \in Polls :
    /\ context[p] = "untimed" => claim[p] # 0
    /\ Len(votes[p]) + One(Voting(p)) + One(Free(p)) <= made[p]

LEMMA CountInit == Init => CountInv
  <1> SUFFICES ASSUME Init, NEW p \in Polls
               PROVE  /\ context[p] = "untimed" => claim[p] # 0
                      /\ Len(votes[p]) + One(Voting(p)) + One(Free(p)) <= made[p]
    BY DEF CountInv
  <1>1. context[p] = "none" /\ ~Voting(p) /\ ~Free(p) /\ votes[p] = << >> /\ made[p] = 0
    BY DEF Init, InboundInit, LoopStarts, PollInit, Voting, Free
  <1>2. One(Voting(p)) = 0 /\ One(Free(p)) = 0  BY <1>1 DEF One
  <1>3. Len(<< >>) = 0 /\ 0 + 0 + 0 <= 0  OBVIOUS
  <1> QED BY <1>1, <1>2, <1>3

LEMMA CountNext == TypeInv /\ VoteInv /\ CountInv /\ [Next]_vars => CountInv'
  <1> SUFFICES ASSUME TypeInv, VoteInv, CountInv, [Next]_vars, NEW p \in Polls
               PROVE  /\ context'[p] = "untimed" => claim'[p] # 0
                      /\ Len(votes'[p]) + One(Voting(p)') + One(Free(p)') <= made'[p]
    BY DEF CountInv, One
  <1> DEFINE n  == Len(votes[p])
             nn == Len(votes'[p])
             v  == One(Voting(p))
             vv == One(Voting(p)')
             w  == One(Free(p))
             ww == One(Free(p)')
             m  == made[p]
             mm == made'[p]
  <1>0. /\ context \in [Polls -> Contexts] /\ claim \in [Polls -> Numbers \cup {0}]
        /\ votes \in [Polls -> Seq(Numbers)] /\ votes' \in [Polls -> Seq(Numbers)]
        /\ context[p] = "untimed" => claim[p] # 0
    BY TypeNext DEF CountInv, TypeInv, PollTypeOK
  <1>n. /\ n \in Nat /\ nn \in Nat /\ m \in Nat /\ n + v + w <= m
        /\ v \in {0, 1} /\ vv \in {0, 1} /\ w \in {0, 1} /\ ww \in {0, 1}
    <2>1. n + v + w <= m /\ m \in Nat  BY DEF CountInv, TypeInv, PollTypeOK
    <2>2. v \in {0, 1} /\ vv \in {0, 1} /\ w \in {0, 1} /\ ww \in {0, 1}  BY DEF One
    <2> QED BY <1>0, <2>1, <2>2
  <1>s. (v = 1 <=> Voting(p)) /\ (vv = 1 <=> Voting(p)') /\ (w = 1 <=> Free(p)) /\ (ww = 1 <=> Free(p)')
    BY DEF One
  <1>g. nn + vv + ww <= mm => Len(votes'[p]) + One(Voting(p)') + One(Free(p)') <= made'[p]
    OBVIOUS
  <1> HIDE DEF n, nn, v, vv, w, ww, m, mm
  <1>1. CASE ~PressSteps
    <2>1. Voting(p)' => Voting(p)  BY <1>1, VotingFrame DEF PressSteps
    <2>2. nn = n
      <3>1. votes' = votes  BY <1>1, PollFrame DEF pollVars, TrackPoll, PollExpires
      <3> QED BY <3>1 DEF n, nn
    <2>3. /\ context'[p] = "untimed" => claim'[p] # 0
          /\ (mm = m /\ (Free(p)' => Free(p))) \/ (mm = m + 1 /\ ~Free(p))
      <3>1. claim'[p] = claim[p] \/ context'[p] = "expired"
        <4>1. ASSUME NEW q \in Polls, PollExpires(q)
              PROVE  claim'[p] = claim[p] \/ context'[p] = "expired"
          BY <1>0, <4>1 DEF PollExpires
        <4> QED BY <1>1, <4>1, PollFrame DEF pollVars, TrackPoll
      <3>2. ~ PressClaims  BY <1>1 DEF PressSteps
      <3>3. \/ context'[p] = context[p] /\ mm = m
            \/ context[p] \notin {"live", "untimed"} /\ context'[p] = "live" /\ mm = m + 1
            \/ context[p] = "untimed" /\ context'[p] = "live" /\ mm = m
            \/ context[p] = "live" /\ context'[p] = "expired" /\ mm = m
        BY <3>2, MadeSteps DEF Exists, m, mm
      <3>4. Free(p)' => context'[p] = "live" /\ claim[p] = 0  BY <3>1 DEF Free
      <3>5. (mm = m /\ (Free(p)' => Free(p))) \/ (mm = m + 1 /\ ~Free(p))
        <4>1. CASE context'[p] = context[p] /\ mm = m
          <5>1. Free(p)' => Free(p)  BY <3>4, <4>1 DEF Free
          <5> QED BY <4>1, <5>1
        <4>2. CASE context[p] \notin {"live", "untimed"} /\ context'[p] = "live" /\ mm = m + 1
          BY <4>2 DEF Free
        <4>3. CASE context[p] = "untimed" /\ context'[p] = "live" /\ mm = m
          BY <1>0, <3>4, <4>3
        <4>4. CASE context[p] = "live" /\ context'[p] = "expired" /\ mm = m
          BY <3>4, <4>4
        <4> QED BY <3>3, <4>1, <4>2, <4>3, <4>4
      <3> QED BY <1>0, <3>1, <3>3, <3>5
    <2> QED BY <1>n, <1>s, <1>g, <2>1, <2>2, <2>3
  <1>2. CASE PressReads
    <2>1. ~Voting(p)'  BY <1>2 DEF PressReads, Advance, Voting
    <2>2. UNCHANGED pollVars  BY <1>2 DEF PressReads
    <2>3. nn = n /\ mm = m /\ (Free(p)' <=> Free(p))  BY <2>2 DEF n, nn, m, mm, pollVars, Free
    <2>4. context'[p] = "untimed" => claim'[p] # 0  BY <1>0, <2>2 DEF pollVars
    <2> QED BY <1>n, <1>s, <1>g, <2>1, <2>3, <2>4
  <1>3. CASE PressClaims
    <2>0. /\ ThePoll \in Polls /\ ThePoll' = ThePoll /\ Press \in Numbers /\ votes' = votes
          /\ ~Voting(p)
      BY <1>3, PressStage, PressKept DEF PressSteps, PressClaims, Advance, Voting
    <2>1. nn = n  BY <2>0 DEF n, nn
    <2>2. CASE ThePoll = p /\ Claimed
      <3>1. claim[p] = 0 /\ claim'[p] = Press /\ Press # 0
        BY <1>0, <2>0, <2>2 DEF Claimed, Writes, Numbers
      <3>2. ~Free(p)' /\ (context'[p] = "untimed" => claim'[p] # 0)  BY <3>1 DEF Free
      <3>3. (Free(p) /\ mm = m) \/ mm = m + 1
        <4>1. CASE Exists(p)
          BY <1>0, <2>2, <3>1, <4>1 DEF Claimed, Writes, Exists, Free, m, mm
        <4>2. CASE ~ Exists(p)
          <5>1. made \in [Polls -> Nat]  BY DEF TypeInv, PollTypeOK
          <5> QED BY <2>2, <4>2, <5>1 DEF Claimed, Writes, m, mm
        <4> QED BY <4>1, <4>2
      <3> QED BY <1>n, <1>s, <1>g, <2>0, <2>1, <3>2, <3>3
    <2>3. CASE ThePoll # p \/ UNCHANGED <<claim, context, made>>
      <3>1. claim'[p] = claim[p] /\ context'[p] = context[p] /\ mm = m
        <4>1. made \in [Polls -> Nat]  BY DEF TypeInv, PollTypeOK
        <4> QED BY <2>0, <2>3, <1>0, <1>3, <4>1 DEF PressClaims, Claimed, Writes, m, mm
      <3>2. ~Voting(p)'
        <4>1. CASE ThePoll # p  BY <4>1, <2>0 DEF Voting
        <4>2. CASE ThePoll = p /\ UNCHANGED <<claim, context, made>>
          BY <4>2, <2>0, <1>0, <1>3 DEF PressClaims, Claimed, Writes, Advance, Voting, Numbers
        <4> QED BY <4>1, <4>2, <2>3
      <3>3. (Free(p)' <=> Free(p)) /\ (context'[p] = "untimed" => claim'[p] # 0)
        BY <1>0, <3>1 DEF Free
      <3> QED BY <1>n, <1>s, <1>g, <2>1, <3>1, <3>2, <3>3
    <2> QED BY <2>2, <2>3, <1>3 DEF PressClaims
  <1>4. CASE PressVotes
    <2>0. ThePoll \in Polls /\ Press \in Numbers /\ UNCHANGED <<claim, context, made>>
      BY <1>4, PressStage, PressKept DEF PressSteps, PressVotes
    <2>1. ~Voting(p)' /\ (ThePoll = p => Voting(p))
      BY <1>4 DEF PressVotes, Advance, Voting
    <2>2. nn <= n + v
      <3>1. CASE ThePoll = p
        <4>1. Len(Append(votes[p], Press)) = n + 1  BY <1>0, <2>0 DEF n
        <4>2. votes'[p] = votes[p] \/ votes'[p] = Append(votes[p], Press)
          BY <1>0, <1>4, <3>1 DEF PressVotes
        <4>3. nn = n \/ nn = n + 1  BY <4>1, <4>2 DEF n, nn
        <4> QED BY <1>n, <1>s, <2>1, <3>1, <4>3
      <3>2. CASE ThePoll # p
        <4>1. votes'[p] = votes[p]  BY <3>2, <2>0, <1>0, <1>4 DEF PressVotes
        <4>2. nn = n  BY <4>1 DEF n, nn
        <4> QED BY <1>n, <4>2
      <3> QED BY <3>1, <3>2
    <2>3. /\ mm = m /\ (Free(p)' <=> Free(p))
          /\ context'[p] = "untimed" => claim'[p] # 0
      BY <1>0, <2>0 DEF m, mm, Free
    <2> QED BY <1>n, <1>s, <1>g, <2>1, <2>2, <2>3
  <1> QED BY <1>1, <1>2, <1>3, <1>4 DEF PressSteps

(* Whatever expires, is sent again or fails: no poll tells its producer    *)
(* more votes than its context was made, and one made once tells the claim.*)
THEOREM VotesAreExplained == Spec => []VotesExplained
  <1> DEFINE Counted == \A p \in Polls : Len(votes[p]) <= made[p]
  <1>1. TypeInv /\ CountInv => Counted
    <2> SUFFICES ASSUME TypeInv, CountInv, NEW p \in Polls PROVE Len(votes[p]) <= made[p]
      OBVIOUS
    <2> DEFINE n == Len(votes[p])
               v == One(Voting(p))
               w == One(Free(p))
    <2>1. n \in Nat /\ v \in {0, 1} /\ w \in {0, 1} /\ made[p] \in Nat
      BY DEF TypeInv, PollTypeOK, One
    <2>2. n + v + w <= made[p]  BY DEF CountInv
    <2> HIDE DEF n, v, w
    <2>3. n <= made[p]  BY <2>1, <2>2
    <2> QED BY <2>3 DEF n
  <1>2. VoteIsClaim /\ Counted => VotesExplained  BY DEF VotesExplained
  <1> HIDE DEF Counted
  <1> QED BY <1>1, <1>2, OneVote, TypeInit, TypeNext, VoteInit, VoteNext, CountInit, CountNext, PTL
          DEF Spec

-----------------------------------------------------------------------------
(* The group without trouble. As long as no read and no acknowledgement    *)
(* failed, the loop works the pending entries off from the front: nothing  *)
(* behind a pending entry is done, and while it has an entry in hand that  *)
(* one is the oldest pending.                                              *)

Done == (1 .. given) \ unacked

Taken == IF hand = 0 THEN {} ELSE {hand}

OneByOne ==
  met \cap {"read", "ack"} = {} =>
    /\ \A i \in unacked, j \in 1 .. given : i <= j => j \in unacked
    /\ hand # 0 \/ toHandle # {} => unacked = toHandle \cup Taken
    /\ hand # 0 => \A i \in toHandle : hand < i

LEMMA OneByOneInit == Init => OneByOne
  BY DEF Init, InboundInit, LoopStarts, OneByOne

LEMMA OneByOneNext == PathOK /\ OneByOne /\ [Next]_vars => OneByOne'
  <1> SUFFICES ASSUME PathOK, OneByOne, [Next]_vars, met' \cap {"read", "ack"} = {}
               PROVE  /\ \A i \in unacked', j \in 1 .. given' : i <= j => j \in unacked'
                      /\ hand' # 0 \/ toHandle' # {} => unacked' = toHandle' \cup Taken'
                      /\ hand' # 0 => \A i \in toHandle' : hand' < i
    BY DEF OneByOne
  <1>1. /\ \A i \in unacked, j \in 1 .. given : i <= j => j \in unacked
        /\ hand # 0 \/ toHandle # {} => unacked = toHandle \cup Taken
        /\ hand # 0 => \A i \in toHandle : hand < i
    BY PathFrame DEF OneByOne
  <1>2. /\ unacked \subseteq 1 .. given /\ given \in Nat /\ Len(stream) \in Nat
        /\ given <= Len(stream) /\ toHandle \subseteq unacked /\ hand \in unacked \cup {0}
    BY DEF PathOK, GroupOK, StreamOK, HandOK
  <1>3. CASE UNCHANGED <<given, unacked, toHandle, hand, handled>>
    BY <1>1, <1>3 DEF Taken
  <1>4. ASSUME NEW i \in toHandle, TakeUp(i, FirstStage(UpdateOf(i)))
        PROVE  /\ UNCHANGED <<given, unacked>>
               /\ unacked' = toHandle' \cup Taken'
               /\ \A j \in toHandle' : hand' < j
    <2>1. i # 0 /\ i \in Nat /\ \A j \in toHandle : j \in Nat  BY <1>2
    <2>2. UNCHANGED <<given, unacked>> /\ hand' = i /\ toHandle' = toHandle \ {i} /\ hand = 0
          /\ \A j \in toHandle : i <= j
      BY <1>4 DEF TakeUp, groupVars
    <2> QED BY <2>1, <2>2, <1>1 DEF Taken
  <1>5. CASE ReadInbound
    <2>1. toHandle' = unacked \cup Unread /\ given' = Len(stream) /\ hand' = 0
      BY <1>2, <1>5 DEF ReadInbound, Trouble, handVars
    <2>2. unacked' = unacked \cup Unread
      BY <2>1, <1>2, <1>5 DEF ReadInbound, Unread
    <2>3. \A i \in unacked', j \in 1 .. given' : i <= j => j \in unacked'
      BY <2>1, <2>2, <1>1, <1>2 DEF Unread
    <2> QED BY <2>1, <2>2, <2>3 DEF Taken
  <1>6. CASE AckInbound
    <2>1. hand # 0 /\ unacked' = unacked \ {hand} /\ hand' = 0 /\ UNCHANGED <<given, toHandle>>
      BY <1>6 DEF AckInbound, Trouble, PathOK, HandOK
    <2>2. unacked = toHandle \cup {hand} /\ hand \notin toHandle
          /\ \A i \in toHandle : hand < i
      BY <2>1, <1>1 DEF Taken, PathOK, HandOK
    <2>3. unacked' = toHandle  BY <2>1, <2>2
    <2>4. \A i \in unacked', j \in 1 .. given' : i <= j => j \in unacked'
      BY <2>1, <2>2, <2>3, <1>1, <1>2
    <2> QED BY <2>1, <2>3, <2>4 DEF Taken
  <1>7. CASE StopInbound
    BY <1>1, <1>7 DEF StopInbound, groupVars
  <1> QED BY <1>1, <1>3, <1>4, <1>5, <1>6, <1>7, PathFrame

(* With nothing in the way, the entries before the one in hand are done.   *)
LEMMA BeforeHand ==
  ASSUME PathOK, OneByOne, met \cap {"read", "ack"} = {}, hand # 0,
         NEW i \in DOMAIN stream, i < hand
  PROVE  i \in Done
  <1>1. unacked = toHandle \cup {hand} /\ \A j \in toHandle : hand < j
    BY DEF OneByOne, Taken
  <1>2. i \in 1 .. given /\ hand \in Nat
    BY DEF PathOK, GroupOK, HandOK, StreamOK
  <1>3. \A j \in toHandle : j \in Nat  BY DEF PathOK, GroupOK
  <1> QED BY <1>1, <1>2, <1>3 DEF Done

-----------------------------------------------------------------------------
(* The first press. When nothing failed, the stream has the updates in the *)
(* order Telegram numbered them, and every operator's that the receiver    *)
(* has passed.                                                             *)

AsSent ==
  met = {} =>
    /\ confirmed <= offset
    /\ \A i, j \in DOMAIN stream : i < j => stream[i] < stream[j]
    /\ \A i \in DOMAIN stream : stream[i] <= offset
    /\ \A u \in 1 .. offset : sent[u].op \in Admins => \E i \in DOMAIN stream : stream[i] = u

PressesPass ==
  \A i \in DOMAIN stream : UpdateOf(i).kind = "press" => UpdateOf(i).op \in Admins

LEMMA AsSentInit == Init => AsSent /\ PressesPass
  BY DEF Init, InboundInit, AsSent, PressesPass

LEMMA AsSentNext == PathOK /\ AsSent /\ [Next]_vars => AsSent'
  <1> SUFFICES ASSUME PathOK, AsSent, [Next]_vars, met' = {}
               PROVE  /\ confirmed' <= offset'
                      /\ \A i, j \in DOMAIN stream' : i < j => stream'[i] < stream'[j]
                      /\ \A i \in DOMAIN stream' : stream'[i] <= offset'
                      /\ \A u \in 1 .. offset' : sent'[u].op \in Admins =>
                           \E i \in DOMAIN stream' : stream'[i] = u
    BY DEF AsSent
  <1>0. /\ confirmed <= offset
        /\ \A i, j \in DOMAIN stream : i < j => stream[i] < stream[j]
        /\ \A i \in DOMAIN stream : stream[i] <= offset
        /\ \A u \in 1 .. offset : sent[u].op \in Admins => \E i \in DOMAIN stream : stream[i] = u
    BY PathFrame DEF AsSent
  <1>1. /\ confirmed \in Nat /\ offset \in Nat /\ DOMAIN stream = 1 .. Len(stream)
        /\ Len(stream) \in Nat /\ \A i \in DOMAIN stream : stream[i] \in Nat
        /\ \A u \in 1 .. offset : u \in DOMAIN sent
    BY DEF PathOK, SentOK, StreamOK, Numbers
  <1>2. \A u \in 1 .. offset : sent'[u] = sent[u]  BY <1>1, Kept
  <1>3. CASE UNCHANGED <<confirmed, offset, stream>>  BY <1>0, <1>1, <1>2, <1>3
  <1>4. CASE Poll
    <2>1. offset' = offset /\ confirmed' = offset /\ stream' = stream
      BY <1>0, <1>1, <1>4 DEF Poll
    <2> QED BY <2>1, <1>0, <1>1, <1>2
  <1>5. CASE Receive /\ MayPass(sent[offset + 1])
    <2>1. stream' = Append(stream, offset + 1) /\ offset' = offset + 1
          /\ UNCHANGED <<sent, confirmed>>
      BY <1>5 DEF Receive, Receiving, Trouble
    <2>2. DOMAIN stream' = 1 .. (Len(stream) + 1) /\ stream'[Len(stream) + 1] = offset + 1
          /\ \A i \in DOMAIN stream : stream'[i] = stream[i]
      BY <2>1, <1>1 DEF PathOK, StreamOK
    <2>3. \A i, j \in DOMAIN stream' : i < j => stream'[i] < stream'[j]
      BY <2>2, <1>0, <1>1
    <2>4. \A i \in DOMAIN stream' : stream'[i] <= offset'
      BY <2>1, <2>2, <1>0, <1>1
    <2>5. \A u \in 1 .. offset' : u \in 1 .. offset \/ u = offset + 1
      BY <2>1, <1>1
    <2>6. \A i \in DOMAIN stream : i \in DOMAIN stream'  BY <2>2, <1>1
    <2>7. Len(stream) + 1 \in DOMAIN stream'  BY <2>2, <1>1
    <2> QED BY <2>1, <2>2, <2>3, <2>4, <2>5, <2>6, <2>7, <1>0, <1>1
  <1>6. CASE Refuse /\ (~MayPass(sent[offset + 1]) \/ LinkChecked(sent[offset + 1]))
    <2>1. offset' = offset + 1 /\ UNCHANGED <<stream, sent, confirmed>>
      BY <1>6 DEF Refuse, Receiving
    <2>2. sent[offset + 1].op \notin Admins  BY <1>6 DEF MayPass, LinkChecked
    <2>3. \A u \in 1 .. offset' : u \in 1 .. offset \/ u = offset + 1
      BY <2>1, <1>1
    <2>4. \A i \in DOMAIN stream : stream[i] <= offset'  BY <2>1, <1>0, <1>1
    <2> QED BY <2>1, <2>2, <2>3, <2>4, <1>0, <1>1
  <1>7. ~StopInbound  BY DEF StopInbound, Trouble
  <1>8. LinkSteps \/ PressSteps => UNCHANGED <<confirmed, offset, stream>>
    BY HandlerAdvances DEF Advance, telegramVars
  <1>9. UNCHANGED inboundVars => UNCHANGED <<confirmed, offset, stream>>
    BY DEF inboundVars, telegramVars
  <1>10. (\/ \E x \in Updates : PersonSends(x)
          \/ \E i \in toHandle : TakeUp(i, FirstStage(UpdateOf(i)))
          \/ ReadInbound \/ AckInbound \/ StartInbound)
         => UNCHANGED <<confirmed, offset, stream>>
    BY DEF PersonSends, TakeUp, ReadInbound, AckInbound, StartInbound, telegramVars
  <1>11. CASE Next
    BY <1>3, <1>4, <1>5, <1>6, <1>7, <1>8, <1>9, <1>10, <1>11, Steps
  <1> QED BY <1>3, <1>9, <1>11 DEF vars

LEMMA PressesPassNext == PathOK /\ PressesPass /\ [Next]_vars => PressesPass'
  <1> SUFFICES ASSUME PathOK, PressesPass, [Next]_vars, NEW i \in DOMAIN stream',
                      UpdateOf(i)'.kind = "press"
               PROVE  UpdateOf(i)'.op \in Admins
    BY DEF PressesPass
  <1>1. CASE i \in DOMAIN stream  BY <1>1, Kept DEF PressesPass
  <1>2. CASE i \notin DOMAIN stream
    <2>1. Receive /\ stream' # stream  BY <1>2, PathFrame
    <2>0. LinkSteps \/ PressSteps \/ UNCHANGED inboundVars => stream' = stream
      BY HandlerAdvances DEF Advance, inboundVars
    <2>2. MayPass(sent[offset + 1])
      BY <2>0, <2>1, Steps DEF PersonSends, Poll, Refuse, TakeUp, ReadInbound, AckInbound,
                               StartInbound, StopInbound, vars
    <2>3. stream' = Append(stream, offset + 1) /\ sent' = sent
      BY <2>1 DEF Receive
    <2>4. i = Len(stream) + 1 /\ stream'[i] = offset + 1
      BY <2>3, <1>2 DEF PathOK, StreamOK
    <2>5. UpdateOf(i)' = sent[offset + 1]  BY <2>3, <2>4 DEF UpdateOf
    <2> QED BY <2>2, <2>5 DEF MayPass
  <1> QED BY <1>1, <1>2
(* Who has won a poll that has not expired, when nothing failed: every     *)
(* press done has been claimed before, the claim is the first press, and a *)
(* claim without its vote is the one on its way.                           *)
FirstInv ==
  met = {} => \A p \in Polls : Open(p) =>
    /\ \A i \in Done : stream[i] \in Presses(p) => claim[p] # 0 /\ votes[p] = <<claim[p]>>
    /\ claim[p] # 0 => claim[p] \in Presses(p) /\ \A v \in Presses(p) : claim[p] <= v
    /\ claim[p] # 0 => votes[p] = <<claim[p]>> \/ Voting(p)
    /\ stage = "ack" /\ Press \in Presses(p) => claim[p] # 0

LEMMA FirstInit == Init => FirstInv
  BY DEF Init, InboundInit, LoopStarts, PollInit, FirstInv, Done

(* A press that is new was sent after all others.                          *)
LEMMA PressesGrow ==
  ASSUME PathOK, [Next]_vars, NEW p
  PROVE  /\ Presses(p) \subseteq Presses(p)'
         /\ \A v \in Presses(p)' : v \in Presses(p) \/ v > Len(sent)
         /\ \A u \in DOMAIN sent : u \in Presses(p)' => u \in Presses(p)
  <1>1. \A u \in DOMAIN sent : u \in DOMAIN sent' /\ sent'[u] = sent[u]  BY Kept
  <1>2. DOMAIN sent = 1 .. Len(sent) /\ Len(sent) \in Nat
        /\ DOMAIN sent' = 1 .. Len(sent') /\ Len(sent') \in Nat
    BY PathNext DEF PathOK, SentOK
  <1> QED BY <1>1, <1>2 DEF Presses

(* What no step on the poll's own press disturbs.                          *)
LEMMA FirstQuiet ==
  ASSUME TypeInv, VoteInv, FirstInv, [Next]_vars, met = {}, NEW p \in Polls, Open(p),
         claim'[p] = claim[p], votes'[p] = votes[p]
  PROVE  /\ \A i \in Done : stream[i] \in Presses(p)' => claim'[p] # 0 /\ votes'[p] = <<claim'[p]>>
         /\ claim'[p] # 0 => claim'[p] \in Presses(p)' /\ \A v \in Presses(p)' : claim'[p] <= v
  <1>1. PathOK /\ claim[p] \in Numbers \cup {0}  BY DEF TypeInv, PollTypeOK
  <1>2. \A i \in Done : stream[i] \in DOMAIN sent
    BY <1>1 DEF Done, PathOK, GroupOK, StreamOK, SentOK
  <1>3. \A v \in Presses(p)' : v \in Nat
    BY <1>1, PathNext DEF Presses, PathOK, SentOK
  <1>4. \A v \in Presses(p) : v \in Nat /\ v <= Len(sent)
    BY <1>1 DEF Presses, PathOK, SentOK
  <1>5. claim'[p] # 0 => \A v \in Presses(p)' : claim'[p] <= v
    BY <1>1, <1>3, <1>4, PressesGrow DEF FirstInv, PathOK, SentOK, Numbers
  <1> QED BY <1>1, <1>2, <1>5, PressesGrow DEF FirstInv

(* The first of the pending presses to reach a poll nobody has claimed is  *)
(* the first of all.                                                       *)
LEMMA FirstClaim ==
  ASSUME TypeInv, OneByOne, AsSent, PressesPass, FirstInv, met = {}, stage \in PollStages,
         Open(ThePoll), claim[ThePoll] = 0
  PROVE  Press \in Presses(ThePoll) /\ \A v \in Presses(ThePoll) : Press <= v
  <1>1. PathOK /\ hand # 0 /\ InHand.kind = "press"
    BY DEF TypeInv, PathOK, HandOK, StageFits, PollStages
  <1>2. /\ hand \in DOMAIN stream /\ Press \in Numbers /\ Press \in DOMAIN sent /\ ThePoll \in Polls
        /\ InHand = sent[Press] /\ InHand = UpdateOf(hand)
    BY <1>1, InHandType DEF InHand, UpdateOf, Press
  <1>3. Press \in Presses(ThePoll)  BY <1>1, <1>2 DEF PressesPass, Presses, ThePoll
  <1>4. ASSUME NEW v \in Presses(ThePoll), ~(Press <= v) PROVE FALSE
    <2>1. v \in DOMAIN sent /\ v \in Nat /\ v >= 1 /\ v < Press /\ Press <= offset /\ offset \in Nat
      BY <1>1, <1>2, <1>4 DEF Presses, PathOK, SentOK, AsSent, Press, Numbers
    <2>p. v \in 1 .. offset  BY <1>2, <2>1 DEF Numbers
    <2>o. sent[v].op \in Admins  BY DEF Presses
    <2>2. PICK i \in DOMAIN stream : stream[i] = v
      BY <2>o, <2>p DEF AsSent
    <2>3. i < hand
      BY <1>1, <1>2, <2>1, <2>2 DEF AsSent, Press, PathOK, StreamOK
    <2>4. i \in Done  BY <1>1, <2>2, <2>3, BeforeHand
    <2> QED BY <2>2, <2>4, <1>2 DEF FirstInv
  <1> QED BY <1>3, <1>4

LEMMA FirstNext ==
  ASSUME TypeInv, VoteInv, OneByOne, AsSent, PressesPass, FirstInv, [Next]_vars
  PROVE  FirstInv'
  <1> SUFFICES ASSUME met' = {}, NEW p \in Polls, Open(p)'
               PROVE  /\ \A i \in Done' : stream'[i] \in Presses(p)' =>
                           claim'[p] # 0 /\ votes'[p] = <<claim'[p]>>
                      /\ claim'[p] # 0 => /\ claim'[p] \in Presses(p)'
                                          /\ \A v \in Presses(p)' : claim'[p] <= v
                      /\ claim'[p] # 0 => votes'[p] = <<claim'[p]>> \/ Voting(p)'
                      /\ stage' = "ack" /\ Press' \in Presses(p)' => claim'[p] # 0
    BY DEF FirstInv
  <1>0. /\ PathOK /\ StageFits /\ (stage = "idle" <=> hand = 0) /\ met = {} /\ Open(p)
        /\ claim \in [Polls -> Numbers \cup {0}] /\ votes \in [Polls -> Seq(Numbers)]
    BY PathFrame, VotingFrame DEF TypeInv, PathOK, HandOK, PollTypeOK
  <1>f. /\ \A i \in Done : stream[i] \in Presses(p) => claim[p] # 0 /\ votes[p] = <<claim[p]>>
        /\ claim[p] # 0 => claim[p] \in Presses(p) /\ \A v \in Presses(p) : claim[p] <= v
        /\ claim[p] # 0 => votes[p] = <<claim[p]>> \/ Voting(p)
        /\ stage = "ack" /\ Press \in Presses(p) => claim[p] # 0
    BY <1>0 DEF FirstInv
  <1>v. /\ claim[p] = 0 => votes[p] = <<>>
        /\ Voting(p) => claim[p] = Press /\ votes[p] = <<>>
    BY <1>0 DEF VoteInv
  <1>k. \A i \in Done : stream'[i] = stream[i]
    BY <1>0, Kept DEF Done, PathOK, GroupOK, StreamOK
  <1>n. ~Trouble("valkey") /\ ~StopInbound  BY DEF StopInbound, Trouble
  (* Everybody but the handler of a press leaves claim and votes alone.    *)
  <1>1. ASSUME ~PressSteps PROVE claim'[p] = claim[p] /\ votes'[p] = votes[p]
    <2>1. ASSUME NEW q \in Polls, PollExpires(q) PROVE claim'[p] = claim[p] /\ votes'[p] = votes[p]
      BY <1>0, <2>1 DEF PollExpires, Open, TypeInv, PollTypeOK
    <2> QED BY <1>1, <2>1, PollFrame DEF pollVars, TrackPoll
  <1>2. CASE UNCHANGED <<given, unacked, hand, stage>> /\ ~PressSteps
    <2>1. Done' = Done  BY <1>2 DEF Done
    <2>2. stage \in PollStages => Voting(p)' = Voting(p)
      BY <1>2, PressKept DEF Voting
    <2>3. Voting(p) => stage \in PollStages  BY DEF Voting, PollStages
    <2>4. stage = "ack" => hand # 0 /\ Press' = Press /\ Press \in DOMAIN sent
      BY <1>0, <1>2, InHandType DEF Press
    <2> QED BY <1>0, <1>1, <1>2, <1>f, <1>k, <2>1, <2>2, <2>3, <2>4, FirstQuiet, PressesGrow
  <1>3. ASSUME NEW i \in toHandle, TakeUp(i, FirstStage(UpdateOf(i))), ~PressSteps
        PROVE  Done' = Done /\ stage' # "ack" /\ ~Voting(p)
    <2>1. i \in DOMAIN stream  BY <1>0 DEF PathOK, GroupOK, StreamOK
    <2>2. stage' # "ack"  BY <1>0, <1>3, <2>1, EntryType, FirstStageFits DEF TakeUp
    <2>3. stage = "idle"  BY <1>0, <1>3 DEF TakeUp
    <2> QED BY <1>3, <2>2, <2>3 DEF TakeUp, groupVars, Done, Voting
  <1>4. CASE ReadInbound /\ ~PressSteps
    <2>1. unacked' = unacked \cup Unread /\ given' = Len(stream) /\ stage = "idle" /\ stage' = "idle"
      <3>1. given' = Len(stream)  BY <1>4 DEF ReadInbound, Trouble
      <3>2. stage = "idle" /\ stage' = "idle"  BY <1>0, <1>4 DEF ReadInbound, handVars
      <3>3. unacked' = unacked \cup Unread
        BY <3>1, <1>0, <1>4 DEF ReadInbound, Unread, PathOK, GroupOK, StreamOK
      <3> QED BY <3>1, <3>2, <3>3
    <2>2. Done' = Done
      BY <1>0, <2>1 DEF Done, Unread, PathOK, GroupOK, StreamOK
    <2> QED BY <1>0, <1>1, <1>4, <1>f, <1>k, <2>1, <2>2, FirstQuiet DEF Voting
  <1>5. CASE AckInbound /\ ~PressSteps
    <2>1. hand # 0 /\ stage = "ack" /\ stage' = "idle" /\ given' = given
          /\ unacked' = unacked \ {hand}
      BY <1>0, <1>5 DEF AckInbound, Trouble
    <2>2. \A i \in Done' : i \in Done \/ i = hand  BY <2>1 DEF Done
    <2>3. stream'[hand] = Press /\ Press \in DOMAIN sent
      BY <1>0, <2>1, InHandType, Kept DEF Press
    <2>4. Press \in Presses(p)' => claim[p] # 0 /\ votes[p] = <<claim[p]>>
      BY <1>0, <1>f, <2>1, <2>3, PressesGrow DEF Voting
    <2> QED BY <1>0, <1>1, <1>5, <1>f, <1>k, <2>1, <2>2, <2>3, <2>4, FirstQuiet DEF Voting
  <1>6. CASE LinkSteps /\ ~PressSteps
    <2>1. /\ UNCHANGED <<given, unacked, hand>> /\ stage # "idle"
          /\ stage \in LinkHand \cup UnlinkHand \cup AskHand
      BY <1>0, <1>6 DEF LinkSteps, LinkCode, LinkRoute, LinkEndsOld, LinkRecords, LinkPuts,
           LinkAnswers, UnlinkWeb, UnlinkRoute, UnlinkDeletes, UnlinkForgets, AskWeb, AskRoute,
           AskDrops, AskRelays, Advance, groupVars, LinkHand, UnlinkHand, AskHand
    <2>2. hand # 0 /\ InHand.kind # "press" /\ Press' = Press /\ Press \in DOMAIN sent
      BY <1>0, <2>1, InHandType DEF StageFits, Press
    <2>3. Press' \notin Presses(p)'
      <3>1. Press \notin Presses(p)  BY <2>2 DEF Presses, InHand, UpdateOf, Press
      <3> QED BY <3>1, <1>0, <2>2, PressesGrow
    <2>4. ~Voting(p) /\ Done' = Done
      BY <2>1 DEF Voting, Done, LinkHand, UnlinkHand, AskHand
    <2> QED BY <1>0, <1>1, <1>6, <1>f, <1>k, <2>3, <2>4, FirstQuiet
  <1>7. CASE PressSteps
    <2>0. /\ stage \in PollStages /\ hand' = hand /\ hand # 0 /\ ThePoll \in Polls
          /\ ThePoll' = ThePoll /\ Press' = Press /\ Press \in Numbers /\ Press \in DOMAIN sent
          /\ UNCHANGED <<given, unacked, sent, stream>>
      BY <1>0, <1>7, PressStage, PressKept, InHandType
         DEF Press, PressSteps, PressReads, PressClaims, PressVotes, Advance, groupVars, telegramVars
    <2>1. Done' = Done /\ Presses(p)' = Presses(p)  BY <2>0 DEF Done, Presses
    <2>2. ThePoll # p => Press \notin Presses(p)
      BY <2>0 DEF Presses, Press, ThePoll, InHand, UpdateOf
    <2>3. CASE PressReads
      <3>1. stage' = "press.claim" \/ ThePoll # p
        <4>1. context[ThePoll] # "none"  BY <1>7, PressableNext DEF VoteInv
        <4> QED BY <1>0, <1>n, <2>3, <4>1 DEF PressReads, Advance, Open, Exists
      <3>2. ~Voting(p) /\ UNCHANGED <<claim, votes>>
        BY <2>3 DEF PressReads, Advance, Voting, pollVars
      <3> QED BY <1>0, <1>f, <1>k, <2>0, <2>1, <2>2, <3>1, <3>2
    <2>4. CASE PressClaims
      <3>1. votes' = votes /\ ~Voting(p)  BY <2>4 DEF PressClaims, Advance, Voting
      <3>2. CASE Claimed /\ Advance("press.claim", "press.vote") /\ ThePoll = p
        <4>1. claim[p] = 0 /\ claim'[p] = Press /\ Voting(p)' /\ votes[p] = <<>>
          BY <1>0, <1>v, <2>0, <3>2 DEF Claimed, Writes, Advance, Voting
        <4>2. \A i \in Done : stream[i] \notin Presses(p)  BY <1>f, <4>1
        <4>3. Press \in Presses(p) /\ \A v \in Presses(p) : Press <= v
          BY <1>0, <2>0, <3>2, <4>1, FirstClaim
        <4>4. stage' # "ack"  BY <3>2 DEF Advance
        <4> QED BY <2>1, <1>k, <4>1, <4>2, <4>3, <4>4
      <3>3. CASE ThePoll # p \/ (claim[p] # 0 /\ UNCHANGED claim)
        <4>1. claim'[p] = claim[p]
          BY <1>0, <2>0, <2>4, <3>3 DEF PressClaims, Claimed, Writes
        <4> QED BY <1>0, <1>f, <1>k, <2>0, <2>1, <2>2, <3>1, <3>3, <4>1
      <3> QED BY <1>n, <2>4, <3>2, <3>3 DEF PressClaims
    <2>5. CASE PressVotes
      <3>1. claim' = claim /\ stage = "press.vote"  BY <2>5 DEF PressVotes, Advance
      <3>2. CASE ThePoll = p
        <4>1. Voting(p) /\ claim[p] = Press /\ votes[p] = <<>> /\ claim[p] # 0
          BY <1>v, <2>0, <3>1, <3>2 DEF Voting, Numbers
        <4>2. votes'[p] = Append(votes[p], Press)
          BY <1>0, <1>n, <2>5, <3>2 DEF PressVotes
        <4>3. votes'[p] = <<claim'[p]>>  BY <4>1, <4>2, <3>1
        <4> QED BY <1>f, <1>k, <2>1, <3>1, <4>1, <4>3
      <3>3. CASE ThePoll # p
        <4>1. votes'[p] = votes[p] /\ ~Voting(p) /\ claim'[p] = claim[p]
          BY <1>0, <2>0, <2>5, <3>1, <3>3 DEF PressVotes, Voting
        <4>2. Press' \notin Presses(p)'  BY <2>0, <2>1, <2>2, <3>3
        <4>3. \A i \in Done' : stream'[i] \in Presses(p)' =>
                claim'[p] # 0 /\ votes'[p] = <<claim'[p]>>
          BY <1>f, <1>k, <2>1, <4>1
        <4>4. claim'[p] # 0 => claim'[p] \in Presses(p)' /\ \A v \in Presses(p)' : claim'[p] <= v
          BY <1>f, <2>1, <4>1
        <4>5. claim'[p] # 0 => votes'[p] = <<claim'[p]>>
          BY <1>f, <4>1
        <4> QED BY <4>2, <4>3, <4>4, <4>5
      <3> QED BY <3>2, <3>3
    <2> QED BY <1>7, <2>3, <2>4, <2>5 DEF PressSteps
  <1> QED
    <2>1. CASE \E i \in toHandle : TakeUp(i, FirstStage(UpdateOf(i))) /\ ~PressSteps
      BY <1>0, <1>1, <1>3, <1>f, <1>k, <2>1, FirstQuiet
    <2>2. CASE UNCHANGED <<given, unacked, toHandle, hand, handled>> /\ ~PressSteps /\ ~LinkSteps
      <3>1. UNCHANGED stage
        BY <1>0, <1>n, <2>2, HandKept DEF TakeUp, AckInbound, vars, inboundVars, handVars
      <3> QED BY <1>2, <2>2, <3>1
    <2> QED BY <1>0, <1>n, <1>4, <1>5, <1>6, <1>7, <2>1, <2>2, PathFrame

(* When nothing failed and everything sent is handled, the vote of a poll  *)
(* whose context lives, and was not made again, is the first press in      *)
(* Telegram's order, although two operators' presses are each read,        *)
(* claimed and answered in separate steps.                                 *)
THEOREM FirstPressIsTheVote == Spec => []FirstPressWins
  <1> DEFINE IInv == TypeInv /\ VoteInv /\ OneByOne /\ AsSent /\ PressesPass /\ FirstInv
  <1>1. IInv => FirstPressWins
    <2> SUFFICES ASSUME IInv, Quiet, met = {}, NEW p \in Polls, context[p] = "live",
                        made[p] = 1, Presses(p) # {}
                 PROVE  votes[p] = <<CHOOSE i \in Presses(p) : \A j \in Presses(p) : i <= j>>
      BY DEF FirstPressWins
    <2>1. PathOK /\ Open(p)  BY DEF TypeInv, Open
    <2>2. PICK v \in Presses(p) : TRUE  OBVIOUS
    <2>3. v \in 1 .. offset  BY <2>1 DEF Presses, Quiet, PathOK, SentOK
    <2>4. PICK i \in DOMAIN stream : stream[i] = v
      BY <2>3 DEF AsSent, Presses
    <2>5. i \in Done  BY <2>1 DEF Done, Quiet, PathOK, StreamOK
    <2>6. votes[p] = <<claim[p]>> /\ claim[p] \in Presses(p)
          /\ \A w \in Presses(p) : claim[p] <= w
      BY <2>1, <2>4, <2>5 DEF FirstInv
    <2>7. \A w \in Presses(p) : w \in Nat  BY <2>1 DEF Presses, PathOK, SentOK
    <2>8. claim[p] = CHOOSE w \in Presses(p) : \A j \in Presses(p) : w <= j
      BY <2>6, <2>7
    <2> QED BY <2>6, <2>8
  <1>2. IInv /\ [Next]_vars => IInv'
    <2> SUFFICES ASSUME IInv, [Next]_vars PROVE IInv'
      OBVIOUS
    <2>1. PathOK  BY DEF TypeInv
    <2> QED BY <2>1, TypeNext, VoteNext, OneByOneNext, AsSentNext, PressesPassNext, FirstNext
  <1>3. Init => IInv
    BY TypeInit, VoteInit, OneByOneInit, AsSentInit, FirstInit
  <1> QED BY <1>1, <1>2, <1>3, PTL DEF Spec

-----------------------------------------------------------------------------
(* The handler of a link has an entry in hand, and goes on with it.        *)
LEMMA LinkHandler ==
  ASSUME TypeInv, [Next]_vars, LinkSteps
  PROVE  /\ hand # 0 /\ hand' = hand /\ InHand \in Updates /\ InHand' = InHand
         /\ Who \in Operators /\ Who' = Who
         /\ stage \in LinkHand => Code \in Codes /\ Target \in Consumers
         /\ stage \in LinkHand \cup UnlinkHand \cup AskHand
         /\ route \in [Consumers -> Operators \cup {None, Gone}]
         /\ web \in [Operators -> Consumers \cup {None}]
         /\ UNCHANGED <<telegramVars, stream, given, unacked, toHandle, handled, running>>
         /\ NoTrouble \/ Trouble("valkey")
  <1>1. PICK G \in {LinkHand, UnlinkHand, AskHand, PollStages} :
          \E from \in G, to \in G \cup {"ack"} :
            Advance(from, to) /\ (NoTrouble \/ Trouble("valkey"))
    BY HandlerAdvances
  <1>2. /\ UNCHANGED <<telegramVars, stream, given, unacked, toHandle, handled, running, hand>>
        /\ NoTrouble \/ Trouble("valkey")
    BY <1>1 DEF Advance, groupVars
  <1>3. PathOK /\ StageFits /\ LinkTypeOK /\ (stage = "idle" <=> hand = 0)
    BY DEF TypeInv, PathOK, HandOK
  <1>4. hand # 0  BY <1>1, <1>3, HandlerStages DEF Advance, Handling
  <1>5. stage \in LinkHand \cup UnlinkHand \cup AskHand
    BY DEF LinkSteps, LinkCode, LinkRoute, LinkEndsOld, LinkRecords, LinkPuts, LinkAnswers,
           UnlinkWeb, UnlinkRoute, UnlinkDeletes, UnlinkForgets, AskWeb, AskRoute, AskDrops,
           AskRelays, Advance, LinkHand, UnlinkHand, AskHand
  <1>6. Who \in Operators /\ InHand \in Updates /\ InHand' = InHand /\ Who' = Who
    BY <1>2, <1>3, <1>4, InHandType
  <1>7. stage \in LinkHand => Code \in Codes /\ Target \in Consumers
    BY <1>3, <1>4, InHandType DEF StageFits
  <1> QED BY <1>2, <1>3, <1>4, <1>5, <1>6, <1>7 DEF LinkTypeOK

(* Whoever else writes the records of links is a site, which puts nobody   *)
(* on a route.                                                             *)
LEMMA SiteWrites ==
  ASSUME TypeInv, Site
  PROVE  /\ UNCHANGED <<web, spentBy, relayed>>
         /\ \A c \in Consumers : route'[c] = route[c] \/ route'[c] \notin Operators
  BY DEF Site, MakeCode, CodeExpires, WindowUnlinks, TypeInv, LinkTypeOK

LEMMA TroubleFalls ==
  ASSUME [Next]_vars, trouble \in Nat
  PROVE  trouble' <= trouble
  <1>1. LinkSteps \/ PressSteps => trouble' <= trouble
    BY HandlerAdvances DEF NoTrouble, Trouble, troubleVars
  <1>2. ReadInbound \/ AckInbound \/ StopInbound \/ Receive => trouble' <= trouble
    BY DEF ReadInbound, AckInbound, StopInbound, Receive, NoTrouble, Trouble, troubleVars
  <1>3. NoTrouble \/ Trouble("valkey") => trouble' <= trouble
    BY DEF NoTrouble, Trouble, troubleVars
  <1>4. ASSUME NEW i, TakeUp(i, FirstStage(UpdateOf(i))) PROVE NoTrouble
    BY <1>4 DEF TakeUp, NoTrouble
  <1>5. Poll \/ StartInbound \/ (\E x \in Updates : PersonSends(x)) \/ UNCHANGED inboundVars
        => NoTrouble
    BY DEF Poll, StartInbound, PersonSends, inboundVars, NoTrouble
  <1> QED BY <1>1, <1>2, <1>3, <1>4, <1>5, Steps DEF vars

(* The update in hand is the same one, or the loop has just taken it up,   *)
(* or has none.                                                            *)
LEMMA StageFrame ==
  ASSUME TypeInv, [Next]_vars
  PROVE  \/ UNCHANGED <<hand, stage>> /\ (hand # 0 => InHand' = InHand /\ Who' = Who)
         \/ \E i \in toHandle : TakeUp(i, FirstStage(UpdateOf(i))) /\ UNCHANGED linkVars
                                /\ stage' = FirstStage(UpdateOf(i)) /\ UpdateOf(i) \in Updates
         \/ AckInbound /\ stage' = "idle" /\ UNCHANGED linkVars
         \/ StopInbound /\ stage' = "idle" /\ UNCHANGED linkVars
         \/ LinkSteps
         \/ PressSteps /\ stage' \in PollStages \cup {"ack"} /\ UNCHANGED linkVars
            /\ stage \in PollStages /\ hand' = hand /\ hand # 0 /\ InHand' = InHand
  <1>0. PathOK /\ (stage = "idle" <=> hand = 0)  BY DEF TypeInv, PathOK, HandOK
  <1>1. CASE UNCHANGED <<hand, stage>>  BY <1>0, <1>1, InHandType
  <1>2. ASSUME NEW i \in toHandle, TakeUp(i, FirstStage(UpdateOf(i)))
        PROVE  stage' = FirstStage(UpdateOf(i)) /\ UpdateOf(i) \in Updates
    <2>1. i \in DOMAIN stream  BY <1>0 DEF PathOK, GroupOK, StreamOK
    <2> QED BY <2>1, <1>0, <1>2, EntryType DEF TakeUp
  <1>3. ASSUME PressSteps
        PROVE  /\ stage \in PollStages /\ stage' \in PollStages \cup {"ack"}
               /\ hand' = hand /\ hand # 0 /\ InHand' = InHand
    <2>1. stage \in PollStages /\ stage' \in PollStages \cup {"ack"} /\ hand' = hand
      BY <1>3 DEF PressSteps, PressReads, PressClaims, PressVotes, Advance, PollStages
    <2>2. hand # 0  BY <1>0, <2>1 DEF PollStages
    <2> QED BY <1>0, <2>1, <2>2, InHandType
  <1> QED
    BY <1>0, <1>1, <1>2, <1>3, HandKept, ZenonT(40)
       DEF AckInbound, StopInbound, vars, inboundVars, handVars, linkVars

-----------------------------------------------------------------------------
(* Records and routes. As long as ValKey refused no write and no read, a   *)
(* handler of link knows at each stage what it has written, and one that   *)
(* is about to forget the record has seen the account on no route.         *)

NoRouteOf(o) == \A c \in Consumers : route[c] # o

RoutesRecorded == \A c \in Consumers, o \in Operators : route[c] = o => web[o] = c

LinkInv ==
  "valkey" \notin met =>
    /\ RoutesRecorded
    /\ stage = "link.web" => \A c \in Consumers : route[c] = Who => c = Target
    /\ stage = "link.put" => web[Who] = Target
    /\ stage \in {"unlink.record", "ask.drop"} => NoRouteOf(Who)

LEMMA LinkInvInit == Init => LinkInv
  BY DEF Init, InboundInit, LoopStarts, LinkInit, LinkInv, RoutesRecorded

LEMMA LinkInvNext == TypeInv /\ LinkInv /\ [Next]_vars => LinkInv'
  <1> SUFFICES ASSUME TypeInv, LinkInv, [Next]_vars, "valkey" \notin met'
               PROVE  /\ RoutesRecorded'
                      /\ stage' = "link.web" => \A c \in Consumers : route'[c] = Who' => c = Target'
                      /\ stage' = "link.put" => web'[Who'] = Target'
                      /\ stage' \in {"unlink.record", "ask.drop"} => NoRouteOf(Who)'
    BY DEF LinkInv
  <1>0. /\ PathOK /\ LinkTypeOK /\ RecordHeld /\ (stage = "idle" <=> hand = 0)
        /\ hand # 0 => Who \in Operators
    BY InHandType DEF TypeInv, PathOK, HandOK
  <1>i. /\ RoutesRecorded
        /\ stage = "link.web" => \A c \in Consumers : route[c] = Who => c = Target
        /\ stage = "link.put" => web[Who] = Target
        /\ stage \in {"unlink.record", "ask.drop"} => NoRouteOf(Who)
    BY <1>0, PathFrame DEF LinkInv
  <1>n. ~Trouble("valkey")  BY DEF Trouble
  <1>1. CASE LinkSteps
    <2>0. /\ hand # 0 /\ Who \in Operators /\ Who' = Who /\ InHand' = InHand
          /\ route \in [Consumers -> Operators \cup {None, Gone}]
          /\ web \in [Operators -> Consumers \cup {None}]
          /\ stage \in LinkHand => Code \in Codes /\ Target \in Consumers
      BY <1>1, LinkHandler
    <2>t. Target' = Target  BY <2>0 DEF Target, Code
    <2>1. CASE LinkCode \/ LinkRoute \/ UnlinkWeb \/ AskWeb
      BY <1>i, <2>1 DEF LinkCode, LinkRoute, UnlinkWeb, AskWeb, Advance, linkVars, RoutesRecorded
    <2>2. CASE LinkEndsOld
      <3>1. stage' = "link.web" /\ web' = web  BY <2>2 DEF LinkEndsOld, Advance
      <3>2. \A c \in Consumers : route'[c] = route[c] \/ route'[c] = Gone
        BY <1>n, <2>0, <2>2 DEF LinkEndsOld, Put
      <3>3. RoutesRecorded'  BY <1>i, <3>1, <3>2 DEF RoutesRecorded
      <3>4. ASSUME NEW c \in Consumers, route'[c] = Who PROVE c = Target
        <4>1. web[Who] = c /\ route[c] = Who
          BY <1>i, <2>0, <3>2, <3>4 DEF RoutesRecorded
        <4>2. route'[web[Who]] = Gone \/ web[Who] \in {None, Target}
          BY <1>n, <2>0, <2>2, <4>1 DEF LinkEndsOld, Put
        <4> QED BY <2>0, <3>4, <4>1, <4>2
      <3> QED BY <2>0, <2>t, <3>1, <3>3, <3>4
    <2>3. CASE LinkRecords
      <3>1. web' = [web EXCEPT ![Who] = Target] /\ route' = route /\ stage = "link.web"
            /\ stage' = "link.put"
        BY <1>n, <2>3 DEF LinkRecords, Put, Advance
      <3> QED BY <1>i, <2>0, <2>t, <3>1 DEF RoutesRecorded
    <2>4. CASE LinkPuts
      <3>1. route' = [route EXCEPT ![Target] = Who] /\ web' = web /\ stage = "link.put"
            /\ stage' = "link.answer" /\ stage \in LinkHand
        BY <1>n, <2>4 DEF LinkPuts, Put, Advance, LinkHand
      <3> QED BY <1>i, <2>0, <3>1 DEF RoutesRecorded
    <2>5. CASE LinkAnswers \/ AskRelays
      BY <1>i, <2>5 DEF LinkAnswers, AskRelays, Advance, RoutesRecorded
    <2>6. CASE UnlinkRoute \/ AskRoute
      <3>1. UNCHANGED <<route, web>> /\ stage' \notin {"link.web", "link.put"}
        BY <2>6 DEF UnlinkRoute, AskRoute, Advance, linkVars
      <3>2. stage' \in {"unlink.record", "ask.drop"} => route[web[Who]] # Who
        BY <1>n, <2>6 DEF UnlinkRoute, AskRoute, Advance
      <3> QED BY <1>i, <2>0, <3>1, <3>2 DEF RoutesRecorded, NoRouteOf
    <2>7. CASE UnlinkDeletes
      <3>1. route' = [route EXCEPT ![web[Who]] = Gone] /\ web' = web /\ stage' = "unlink.record"
            /\ stage = "unlink.del"
        BY <1>n, <2>7 DEF UnlinkDeletes, Put, Advance
      <3>2. web[Who] \in Consumers  BY <1>0, <2>0, <3>1 DEF RecordHeld
      <3>3. route'[web[Who]] = Gone
            /\ \A c \in Consumers : c # web[Who] => route'[c] = route[c]
        BY <2>0, <3>1, <3>2
      <3>4. RoutesRecorded'  BY <1>i, <3>1, <3>3 DEF RoutesRecorded
      <3>5. NoRouteOf(Who)'  BY <1>i, <2>0, <3>1, <3>3 DEF RoutesRecorded, NoRouteOf
      <3> QED BY <3>1, <3>4, <3>5
    <2>8. CASE UnlinkForgets \/ AskDrops
      <3>1. web' = [web EXCEPT ![Who] = None] /\ route' = route /\ stage' = "ack"
            /\ stage \in {"unlink.record", "ask.drop"}
        BY <1>n, <2>8 DEF UnlinkForgets, AskDrops, Put, Advance
      <3> QED BY <1>i, <2>0, <3>1 DEF RoutesRecorded, NoRouteOf
    <2> QED BY <1>1, <2>1, <2>2, <2>3, <2>4, <2>5, <2>6, <2>7, <2>8 DEF LinkSteps
  <1>2. ASSUME ~LinkSteps
        PROVE  /\ web' = web
               /\ \A c \in Consumers : route'[c] = route[c] \/ route'[c] \notin Operators
               /\ RoutesRecorded'
    <2>1. web' = web /\ \A c \in Consumers : route'[c] = route[c] \/ route'[c] \notin Operators
      BY <1>2, LinkFrame, SiteWrites DEF linkVars
    <2> QED BY <1>i, <2>1 DEF RoutesRecorded
  <1>3. CASE ~LinkSteps /\ UNCHANGED <<hand, stage>> /\ hand # 0
    <2>1. InHand' = InHand /\ Who' = Who /\ Target' = Target
      BY <1>0, <1>3, InHandType DEF Target, Code
    <2> QED BY <1>0, <1>2, <1>3, <1>i, <2>1 DEF NoRouteOf
  <1>4. CASE ~LinkSteps /\ stage' \notin {"link.web", "link.put", "unlink.record", "ask.drop"}
    BY <1>2, <1>4
  <1>5. ASSUME NEW i \in toHandle, stage' = FirstStage(UpdateOf(i)), UpdateOf(i) \in Updates
        PROVE  stage' \notin {"link.web", "link.put", "unlink.record", "ask.drop"}
    BY <1>5 DEF FirstStage, UpdateKinds
  <1>6. PollStages \cap {"link.web", "link.put", "unlink.record", "ask.drop"} = {}
    BY DEF PollStages
  <1> QED BY <1>0, <1>1, <1>3, <1>4, <1>5, <1>6, StageFrame

(* An account on a subscriber's route has COMMS's record for that          *)
(* subscriber, as long as ValKey refused nothing: the routes and records   *)
(* agree between any two of the handlers' steps and across crashes.        *)
THEOREM RoutesHaveRecords == Spec => []RouteHasRecord
  <1>1. LinkInv => RouteHasRecord  BY DEF LinkInv, RoutesRecorded, RouteHasRecord
  <1> QED BY <1>1, TypeInit, TypeNext, LinkInvInit, LinkInvNext, PTL DEF Spec

-----------------------------------------------------------------------------
(* Windows linked to an account that has no record of them, and the one    *)
(* that the next write of the handler will add to them, by what its steps  *)
(* so far have read or failed to write. A failure adds one, and nothing    *)
(* else does: what was at risk and is lost was counted before.             *)

AtRisk ==
  {c \in Consumers :
     \/ stage \in {"unlink.record", "ask.drop"} /\ c = web[Who] /\ route[c] = Who
     \/ stage = "link.web" /\ c = web[Who] /\ c # Target /\ route[c] = Who
     \/ stage = "link.put" /\ c = Target /\ c # web[Who]}

Lost == Astray \cup AtRisk

StrayInv == IsFiniteSet(Lost) /\ Cardinality(Lost) <= MaxTrouble - trouble

LEMMA StrayInit == Init => StrayInv
  <1> SUFFICES ASSUME Init PROVE StrayInv
    OBVIOUS
  <1>1. stage = "idle" /\ trouble = MaxTrouble /\ \A c \in Consumers : route[c] \notin Operators
    BY DEF Init, InboundInit, LoopStarts, LinkInit
  <1>2. Lost = {}  BY <1>1 DEF Lost, Astray, AtRisk
  <1> QED BY <1>1, <1>2, FS_EmptySet DEF StrayInv

LEMMA HandlerLoses ==
  ASSUME TypeInv, [Next]_vars, LinkSteps
  PROVE  Lost' \subseteq Lost \/ (Trouble("valkey") /\ \E c : Lost' \subseteq Lost \cup {c})
  <1> DEFINE Risky == {"unlink.record", "ask.drop", "link.web", "link.put"}
  <1>0. /\ Who \in Operators /\ Who' = Who /\ InHand' = InHand
        /\ route \in [Consumers -> Operators \cup {None, Gone}]
        /\ web \in [Operators -> Consumers \cup {None}]
        /\ stage \in LinkHand => Code \in Codes /\ Target \in Consumers
    BY LinkHandler
  <1>t. Target' = Target  BY <1>0 DEF Target, Code
  <1>r. RecordHeld  BY DEF TypeInv
  <1>1. CASE LinkCode \/ LinkRoute \/ UnlinkWeb \/ AskWeb \/ LinkAnswers \/ AskRelays
    <2>1. UNCHANGED <<route, web>> /\ stage' \notin Risky
      BY <1>1 DEF LinkCode, LinkRoute, UnlinkWeb, AskWeb, LinkAnswers, AskRelays, Advance, linkVars
    <2> QED BY <2>1 DEF Lost, Astray, AtRisk
  <1>2. CASE LinkEndsOld
    <2>1. web' = web /\ stage' = "link.web"  BY <1>2 DEF LinkEndsOld, Advance
    <2>2. CASE route' = route /\ web[Who] \in {None, Target}
      <3>1. AtRisk' = {}  BY <1>0, <1>t, <2>1, <2>2 DEF AtRisk
      <3> QED BY <2>1, <2>2, <3>1 DEF Lost, Astray
    <2>3. CASE route' = [route EXCEPT ![web[Who]] = Gone] /\ web[Who] \in Consumers
      <3>1. AtRisk' = {}  BY <1>0, <1>t, <2>1, <2>3 DEF AtRisk
      <3>2. Astray' \subseteq Astray  BY <1>0, <2>1, <2>3 DEF Astray
      <3> QED BY <3>1, <3>2 DEF Lost
    <2>4. CASE route' = route /\ Trouble("valkey")
      <3>1. AtRisk' \subseteq {web[Who]}  BY <1>0, <2>1, <2>4 DEF AtRisk
      <3>2. Astray' = Astray  BY <2>1, <2>4 DEF Astray
      <3>3. Lost' \subseteq Lost \cup {web[Who]}  BY <3>1, <3>2 DEF Lost
      <3> QED BY <2>4, <3>3
    <2> QED BY <1>0, <1>2, <2>2, <2>3, <2>4 DEF LinkEndsOld, Put
  <1>3. CASE LinkRecords
    <2>1. stage = "link.web" /\ stage' = "link.put" /\ route' = route /\ Target \in Consumers
      BY <1>0, <1>3 DEF LinkRecords, Advance, LinkHand
    <2>2. CASE web' = [web EXCEPT ![Who] = Target]
      <3>1. AtRisk' = {}  BY <1>0, <1>t, <2>1, <2>2 DEF AtRisk
      <3>2. ASSUME NEW c \in Astray' PROVE c \in Lost
        <4>1. c \in Consumers /\ route[c] \in Operators /\ web'[route[c]] # c
          BY <2>1 DEF Astray
        <4>2. CASE route[c] # Who  BY <1>0, <2>2, <4>1, <4>2 DEF Lost, Astray
        <4>3. CASE route[c] = Who
          <5>1. c # Target  BY <1>0, <2>2, <4>1, <4>3
          <5> QED BY <2>1, <4>1, <4>3, <5>1 DEF Lost, Astray, AtRisk
        <4> QED BY <4>2, <4>3
      <3> QED BY <3>1, <3>2 DEF Lost
    <2>3. CASE web' = web /\ Trouble("valkey")
      <3>1. AtRisk' \subseteq {Target}  BY <1>t, <2>1 DEF AtRisk
      <3>2. Astray' = Astray  BY <2>1, <2>3 DEF Astray
      <3>3. Lost' \subseteq Lost \cup {Target}  BY <3>1, <3>2 DEF Lost
      <3> QED BY <2>3, <3>3
    <2> QED BY <1>3, <2>2, <2>3 DEF LinkRecords, Put
  <1>4. CASE LinkPuts
    <2>1. /\ stage = "link.put" /\ stage' = "link.answer" /\ web' = web /\ Target \in Consumers
          /\ route' = route \/ route' = [route EXCEPT ![Target] = Who]
      BY <1>0, <1>4 DEF LinkPuts, Put, Advance, LinkHand
    <2>2. AtRisk' = {}  BY <2>1 DEF AtRisk
    <2>3. Astray' \subseteq Astray \cup AtRisk  BY <1>0, <2>1 DEF Astray, AtRisk
    <2> QED BY <2>2, <2>3 DEF Lost
  <1>5. CASE UnlinkRoute \/ AskRoute
    <2>1. UNCHANGED <<route, web>> /\ stage' \notin {"link.web", "link.put"}
      BY <1>5 DEF UnlinkRoute, AskRoute, Advance, linkVars
    <2>2. Astray' = Astray  BY <2>1 DEF Astray
    <2>3. CASE Trouble("valkey")
      <3>1. AtRisk' \subseteq {web[Who]}  BY <1>0, <2>1 DEF AtRisk
      <3>2. Lost' \subseteq Lost \cup {web[Who]}  BY <2>2, <3>1 DEF Lost
      <3> QED BY <2>3, <3>2
    <2>4. CASE stage' \in {"unlink.record", "ask.drop"} => route[web[Who]] # Who
      <3>1. AtRisk' = {}  BY <1>0, <2>1, <2>4 DEF AtRisk
      <3> QED BY <2>2, <3>1 DEF Lost
    <2> QED BY <1>5, <2>3, <2>4 DEF UnlinkRoute, AskRoute, Advance
  <1>6. CASE UnlinkDeletes
    <2>1. /\ stage = "unlink.del" /\ stage' = "unlink.record" /\ web' = web
          /\ web[Who] \in Consumers
      BY <1>0, <1>6, <1>r DEF UnlinkDeletes, Advance, RecordHeld
    <2>2. CASE route' = [route EXCEPT ![web[Who]] = Gone]
      <3>1. AtRisk' = {}  BY <1>0, <2>1, <2>2 DEF AtRisk
      <3>2. Astray' \subseteq Astray  BY <1>0, <2>1, <2>2 DEF Astray
      <3> QED BY <3>1, <3>2 DEF Lost
    <2>3. CASE route' = route /\ Trouble("valkey")
      <3>1. AtRisk' \subseteq {web[Who]}  BY <1>0, <2>1 DEF AtRisk
      <3>2. Astray' = Astray  BY <2>1, <2>3 DEF Astray
      <3>3. Lost' \subseteq Lost \cup {web[Who]}  BY <3>1, <3>2 DEF Lost
      <3> QED BY <2>3, <3>3
    <2> QED BY <1>6, <2>2, <2>3 DEF UnlinkDeletes, Put
  <1>7. CASE UnlinkForgets \/ AskDrops
    <2>1. /\ stage \in {"unlink.record", "ask.drop"} /\ stage' = "ack" /\ route' = route
          /\ web' = web \/ web' = [web EXCEPT ![Who] = None]
      BY <1>7 DEF UnlinkForgets, AskDrops, Put, Advance
    <2>2. AtRisk' = {}  BY <2>1 DEF AtRisk
    <2>3. ASSUME NEW c \in Astray' PROVE c \in Astray \cup AtRisk
      <3>1. c \in Consumers /\ route[c] \in Operators  BY <2>1, <2>3 DEF Astray
      <3>2. CASE web[route[c]] # c  BY <3>1, <3>2 DEF Astray
      <3>3. CASE web[route[c]] = c
        <4>1. route[c] = Who  BY <1>0, <2>1, <2>3, <3>1, <3>3 DEF Astray
        <4> QED BY <2>1, <3>1, <3>3, <4>1 DEF AtRisk
      <3> QED BY <3>2, <3>3
    <2> QED BY <2>2, <2>3 DEF Lost
  <1> QED BY <1>1, <1>2, <1>3, <1>4, <1>5, <1>6, <1>7 DEF LinkSteps

(* Nobody else loses anything: a site puts nobody on a route, and the loop *)
(* writes no record until it has an entry of links in hand.                *)
LEMMA OthersLoseNothing ==
  ASSUME TypeInv, [Next]_vars, ~LinkSteps
  PROVE  Lost' \subseteq Lost
  <1> DEFINE Risky == {"unlink.record", "ask.drop", "link.web", "link.put"}
  <1>0. /\ PathOK /\ (stage = "idle" <=> hand = 0)
        /\ route \in [Consumers -> Operators \cup {None, Gone}]
    BY DEF TypeInv, PathOK, HandOK, LinkTypeOK
  <1>1. web' = web /\ \A c \in Consumers : route'[c] = route[c] \/ route'[c] \notin Operators
    BY LinkFrame, SiteWrites DEF linkVars
  <1>2. Astray' \subseteq Astray  BY <1>1 DEF Astray
  <1>3. CASE UNCHANGED <<hand, stage>> /\ stage \in Risky
    <2>1. hand # 0 /\ Who \in Operators  BY <1>0, <1>3, InHandType
    <2>2. Who' = Who /\ Target' = Target  BY <1>0, <1>3, <2>1, InHandType DEF Target, Code
    <2>3. AtRisk' \subseteq AtRisk  BY <1>1, <1>3, <2>1, <2>2 DEF AtRisk
    <2> QED BY <1>2, <2>3 DEF Lost
  <1>4. CASE stage' \notin Risky
    BY <1>2, <1>4 DEF Lost, AtRisk
  <1>5. ASSUME NEW i \in toHandle, stage' = FirstStage(UpdateOf(i)), UpdateOf(i) \in Updates
        PROVE  stage' \notin Risky
    BY <1>5 DEF FirstStage, UpdateKinds
  <1>6. PollStages \cap Risky = {}  BY DEF PollStages
  <1> QED BY <1>3, <1>4, <1>5, <1>6, StageFrame

LEMMA StrayNext == TypeInv /\ StrayInv /\ [Next]_vars => StrayInv'
  <1> SUFFICES ASSUME TypeInv, StrayInv, [Next]_vars PROVE StrayInv'
    OBVIOUS
  <1>0. /\ trouble \in Nat /\ trouble' \in Nat /\ MaxTrouble \in Nat
        /\ IsFiniteSet(Lost) /\ Cardinality(Lost) \in Nat
        /\ Cardinality(Lost) <= MaxTrouble - trouble
    BY PathNext, FS_CardinalityType DEF StrayInv, TypeInv, PathOK, TroubleOK
  <1>1. trouble' <= trouble  BY <1>0, TroubleFalls
  <1>2. CASE Lost' \subseteq Lost
    <2>1. /\ IsFiniteSet(Lost') /\ Cardinality(Lost') \in Nat
          /\ Cardinality(Lost') <= Cardinality(Lost)
      BY <1>0, <1>2, FS_Subset, FS_CardinalityType
    <2> QED BY <1>0, <1>1, <2>1 DEF StrayInv
  <1>3. ASSUME NEW c, Trouble("valkey"), Lost' \subseteq Lost \cup {c}
        PROVE  StrayInv'
    <2> DEFINE More == Lost \cup {c}
    <2>0. /\ IsFiniteSet(More)
          /\ Cardinality(More) = Cardinality(Lost) \/ Cardinality(More) = Cardinality(Lost) + 1
      <3>1. IsFiniteSet(Lost)  BY <1>0
      <3>2. CASE c \in Lost  BY <1>0, <3>2 DEF Lost
      <3>3. CASE c \notin Lost  BY <3>1, <3>3, FS_AddElement
      <3> QED BY <3>2, <3>3
    <2>1. /\ IsFiniteSet(More) /\ Cardinality(More) \in Nat
          /\ Cardinality(More) <= Cardinality(Lost) + 1
      BY <1>0, <2>0
    <2>2. /\ IsFiniteSet(Lost') /\ Cardinality(Lost') \in Nat
          /\ Cardinality(Lost') <= Cardinality(More)
      BY <1>3, <2>1, FS_Subset, FS_CardinalityType
    <2>3. trouble' = trouble - 1  BY <1>3 DEF Trouble
    <2> HIDE DEF More
    <2> QED BY <1>0, <2>1, <2>2, <2>3 DEF StrayInv
  <1> QED BY <1>2, <1>3, HandlerLoses, OthersLoseNothing

(* Each failure costs at most one link: the windows that are linked to an  *)
(* account without a record of them are no more than what went wrong, and  *)
(* none when ValKey refused nothing, for any number of accounts, windows,  *)
(* codes and failures.                                                     *)
THEOREM StraysPaidFor == Spec => []StraysExplained
  <1>1. TypeInv /\ StrayInv => Cardinality(Astray) <= MaxTrouble - trouble
    <2> SUFFICES ASSUME TypeInv, StrayInv PROVE Cardinality(Astray) <= MaxTrouble - trouble
      OBVIOUS
    <2>1. /\ IsFiniteSet(Astray) /\ Cardinality(Astray) \in Nat /\ Cardinality(Lost) \in Nat
          /\ Cardinality(Astray) <= Cardinality(Lost)
      BY FS_Subset, FS_CardinalityType DEF StrayInv, Lost
    <2> QED BY <2>1 DEF StrayInv, TypeInv, PathOK, TroubleOK
  <1>2. RouteHasRecord /\ "valkey" \notin met => Cardinality(Astray) = 0
    <2>1. RouteHasRecord /\ "valkey" \notin met => Astray = {}  BY DEF RouteHasRecord, Astray
    <2> QED BY <2>1, FS_EmptySet
  <1>3. TypeInv /\ StrayInv /\ RouteHasRecord => StraysExplained
    BY <1>1, <1>2 DEF StraysExplained
  <1> QED BY <1>3, RoutesHaveRecords, TypeInit, TypeNext, StrayInit, StrayNext, PTL DEF Spec

-----------------------------------------------------------------------------
(* Other people's windows. Once a handler has found its own account on the *)
(* route of the record's subscriber, nobody else gets there before it acts *)
(* on that: only link puts an account on a route, and the loop handles one *)
(* entry at a time. This holds whatever ValKey refuses.                    *)

WindowInv ==
  stage \in {"ask.relay", "unlink.del"} => route[web[Who]] \notin Operators \ {Who}

LEMMA WindowInit == Init => WindowInv
  BY DEF Init, InboundInit, LoopStarts, WindowInv

LEMMA WindowNext == TypeInv /\ WindowInv /\ [Next]_vars => WindowInv'
  <1> SUFFICES ASSUME TypeInv, WindowInv, [Next]_vars PROVE WindowInv'
    OBVIOUS
  <1>1. CASE LinkSteps
    <2>0. Who' = Who  BY <1>1, LinkHandler
    <2>1. CASE UnlinkRoute \/ AskRoute
      BY <2>0, <2>1 DEF UnlinkRoute, AskRoute, Advance, linkVars, WindowInv
    <2>2. CASE ~UnlinkRoute /\ ~AskRoute
      <3>1. stage' \notin {"ask.relay", "unlink.del"}
        BY <1>1, <2>2 DEF LinkSteps, LinkCode, LinkRoute, LinkEndsOld, LinkRecords, LinkPuts,
           LinkAnswers, UnlinkWeb, UnlinkDeletes, UnlinkForgets, AskWeb, AskDrops, AskRelays,
           Advance
      <3> QED BY <3>1 DEF WindowInv
    <2> QED BY <2>1, <2>2
  <1>2. CASE ~LinkSteps /\ UNCHANGED <<hand, stage>>
    <2>1. CASE stage \in {"ask.relay", "unlink.del"}
      <3>1. hand # 0 /\ Who' = Who /\ web[Who] \in Consumers
        BY <1>2, <2>1, InHandType DEF TypeInv, PathOK, HandOK, RecordHeld, LinkTypeOK
      <3>2. web' = web /\ (route'[web[Who]] = route[web[Who]] \/ route'[web[Who]] \notin Operators)
        BY <1>2, <3>1, LinkFrame, SiteWrites DEF linkVars
      <3> QED BY <2>1, <3>1, <3>2 DEF WindowInv
    <2>2. CASE stage \notin {"ask.relay", "unlink.del"}
      BY <1>2, <2>2 DEF WindowInv
    <2> QED BY <2>1, <2>2
  <1>3. ASSUME NEW i \in toHandle, stage' = FirstStage(UpdateOf(i)), UpdateOf(i) \in Updates
        PROVE  WindowInv'
    BY <1>3 DEF FirstStage, UpdateKinds, WindowInv
  <1>4. CASE stage' \in PollStages \cup {"ack", "idle"}
    BY <1>4 DEF PollStages, WindowInv
  <1> QED BY <1>1, <1>2, <1>3, <1>4, StageFrame

(* Unlinking and asking never end somebody else's link, although both act  *)
(* on records read in an earlier step.                                     *)
THEOREM OthersStayLinked == Spec => OthersKeepLink
  <1>1. TypeInv /\ WindowInv /\ [Next]_vars =>
          [(stage \in LinkStages /\ stage # "link.old" /\ stage # "link.put" /\ stage' # stage =>
             \A c \in Consumers : route[c] \in Operators \ {Who} => route'[c] = route[c])]_vars
    <2> SUFFICES ASSUME TypeInv, WindowInv, [Next]_vars, stage \in LinkStages,
                        stage # "link.old", stage # "link.put", stage' # stage,
                        NEW c \in Consumers, route[c] \in Operators \ {Who}
                 PROVE  route'[c] = route[c]
      OBVIOUS
    <2>1. CASE UNCHANGED linkVars  BY <2>1 DEF linkVars
    <2>2. ~(Site /\ UNCHANGED inboundVars)  BY DEF inboundVars, handVars
    <2>3. CASE LinkSteps
      <3>1. Who \in Operators /\ route \in [Consumers -> Operators \cup {None, Gone}]
        BY <2>3, LinkHandler
      <3>2. CASE UnlinkDeletes
        <4>1. stage = "unlink.del"  BY <3>2 DEF UnlinkDeletes, Advance
        <4>2. web[Who] # c  BY <4>1 DEF WindowInv
        <4> QED BY <3>1, <3>2, <4>2 DEF UnlinkDeletes, Put
      <3>3. CASE ~UnlinkDeletes
        <4>1. ~LinkEndsOld /\ ~LinkPuts  BY DEF LinkEndsOld, LinkPuts, Advance
        <4> QED BY <2>3, <3>3, <4>1 DEF LinkSteps, LinkCode, LinkRoute, LinkRecords, LinkAnswers,
               UnlinkWeb, UnlinkRoute, UnlinkForgets, AskWeb, AskRoute, AskDrops, AskRelays,
               linkVars
      <3> QED BY <3>2, <3>3
    <2> QED BY <2>1, <2>2, <2>3, LinkFrame
  <1> QED BY <1>1, TypeInit, TypeNext, WindowInit, WindowNext, PTL DEF Spec, OthersKeepLink

(* A question never goes on in the conversation of a window another        *)
(* account is linked to.                                                   *)
THEOREM OnesOwnWindow == Spec => NeverAnothersWindow
  <1>1. TypeInv /\ WindowInv /\ [Next]_vars =>
          [\A r \in relayed' \ relayed : route[r[2]] \notin Operators \ {sent[r[1]].op}]_vars
    <2> SUFFICES ASSUME TypeInv, WindowInv, [Next]_vars, NEW r \in relayed' \ relayed
                 PROVE  route[r[2]] \notin Operators \ {sent[r[1]].op}
      OBVIOUS
    <2>1. AskRelays
      BY LinkFrame, SiteWrites
         DEF linkVars, LinkSteps, LinkCode, LinkRoute, LinkEndsOld, LinkRecords, LinkPuts,
             LinkAnswers, UnlinkWeb, UnlinkRoute, UnlinkDeletes, UnlinkForgets, AskWeb, AskRoute,
             AskDrops
    <2>2. r = <<stream[hand], web[Who]>> /\ stage = "ask.relay"
      BY <2>1 DEF AskRelays, Advance
    <2>3. sent[r[1]].op = Who  BY <2>2 DEF Who, InHand, UpdateOf
    <2> QED BY <2>2, <2>3 DEF WindowInv
  <1> QED BY <1>1, TypeInit, TypeNext, WindowInit, WindowNext, PTL DEF Spec, NeverAnothersWindow

-----------------------------------------------------------------------------
(* The last word. An account's last update, when it is /unlink, is in the  *)
(* stream once the receiver has passed it or Telegram has seen it          *)
(* confirmed, and behind everything else of the account: after a restart   *)
(* the receiver does not go back behind what was confirmed.                *)

Last(u) == u \in DOMAIN sent /\ \A v \in DOMAIN sent : v > u => sent[v].op # sent[u].op

Passed(u) == offset >= u \/ confirmed >= u

LastWritten ==
  "write" \notin met =>
    \A u \in DOMAIN sent : Last(u) /\ sent[u].kind = "unlink" /\ Passed(u) =>
      \E j \in DOMAIN stream :
        stream[j] = u /\ \A i \in DOMAIN stream : i > j => UpdateOf(i).op # sent[u].op

Caught == offset >= confirmed \/ offset = fetched

LEMMA LastInit == Init => LastWritten /\ Caught
  BY DEF Init, InboundInit, LastWritten, Caught

LEMMA LastKept ==
  ASSUME PathOK, [Next]_vars, NEW u \in DOMAIN sent, Last(u)'
  PROVE  Last(u) /\ sent'[u] = sent[u]
  BY Kept DEF Last

(* What the receiver has passed is passed already, but for an update it    *)
(* has just handled.                                                       *)
LEMMA PassedFrame ==
  ASSUME PathOK, Caught, [Next]_vars
  PROVE  /\ Caught'
         /\ \A u \in Nat : Passed(u)' => Passed(u) \/ (u = offset + 1 /\ offset' = u)
         /\ UNCHANGED stream \/ (Receive /\ offset >= confirmed)
  <1>0. offset \in Nat /\ confirmed \in Nat /\ fetched \in Nat /\ offset <= fetched
    BY DEF PathOK, SentOK
  <1>1. CASE UNCHANGED <<offset, fetched, confirmed>> /\ UNCHANGED stream
    BY <1>0, <1>1 DEF Passed, Caught
  <1>2. CASE Poll
    <2>1. stream' = stream /\ offset' = confirmed'
          /\ (confirmed' = offset \/ confirmed' = confirmed)
      BY <1>2 DEF Poll
    <2> QED BY <1>0, <2>1 DEF Passed, Caught
  <1>3. CASE Receive \/ Refuse
    <2>1. offset' = offset + 1 /\ offset >= confirmed /\ confirmed' = confirmed
      BY <1>0, <1>3 DEF Receive, Refuse, Receiving, Caught
    <2>2. UNCHANGED stream \/ Receive  BY <1>3 DEF Refuse
    <2> QED BY <1>0, <2>1, <2>2 DEF Passed, Caught
  <1>4. CASE StopInbound
    BY <1>0, <1>4 DEF StopInbound, Passed, Caught
  <1>5. LinkSteps \/ PressSteps => UNCHANGED <<offset, fetched, confirmed>> /\ UNCHANGED stream
    BY HandlerAdvances DEF Advance, telegramVars
  <1>6. UNCHANGED inboundVars => UNCHANGED <<offset, fetched, confirmed>> /\ UNCHANGED stream
    BY DEF inboundVars, telegramVars
  <1>7. (\/ \E x \in Updates : PersonSends(x)
         \/ \E i \in toHandle : TakeUp(i, FirstStage(UpdateOf(i)))
         \/ ReadInbound \/ AckInbound \/ StartInbound)
        => UNCHANGED <<offset, fetched, confirmed>> /\ UNCHANGED stream
    BY DEF PersonSends, TakeUp, ReadInbound, AckInbound, StartInbound, telegramVars
  <1>8. CASE Next
    BY <1>1, <1>2, <1>3, <1>4, <1>5, <1>6, <1>7, <1>8, Steps
  <1> QED BY <1>1, <1>6, <1>8 DEF vars

LEMMA LastNext == PathOK /\ Caught /\ LastWritten /\ [Next]_vars => LastWritten'
  <1> SUFFICES ASSUME PathOK, Caught, LastWritten, [Next]_vars, "write" \notin met',
                      NEW u \in DOMAIN sent', Last(u)', sent'[u].kind = "unlink", Passed(u)'
               PROVE  \E j \in DOMAIN stream' : stream'[j] = u /\
                        \A i \in DOMAIN stream' : i > j => UpdateOf(i)'.op # sent'[u].op
    BY DEF LastWritten
  <1>0. /\ offset \in Nat /\ confirmed \in Nat /\ fetched \in Nat /\ fetched <= Len(sent)
        /\ offset <= fetched /\ confirmed <= Len(sent) /\ Len(sent) \in Nat
        /\ DOMAIN sent = 1 .. Len(sent) /\ DOMAIN stream = 1 .. Len(stream) /\ Len(stream) \in Nat
        /\ stream \in Seq(Numbers)
    BY DEF PathOK, SentOK, StreamOK
  <1>1. u \in Nat /\ u >= 1  BY PathNext DEF PathOK, SentOK
  <1>2. Passed(u) \/ (u = offset + 1 /\ offset' = u)  BY <1>1, PassedFrame
  <1>3. u \in DOMAIN sent
    <2>1. CASE Passed(u)  BY <1>0, <1>1, <2>1 DEF Passed
    <2>2. CASE u = offset + 1 /\ offset' = u
      <3>1. \/ Receive \/ Refuse
            \/ UNCHANGED offset \/ offset' = confirmed \/ offset' = 0
        <4>1. LinkSteps \/ PressSteps => UNCHANGED offset
          BY HandlerAdvances DEF Advance, telegramVars
        <4> QED BY <4>1, Steps DEF PersonSends, Poll, TakeUp, ReadInbound, AckInbound,
                StartInbound, StopInbound, vars, inboundVars, telegramVars
      <3> QED BY <1>0, <1>1, <2>2, <3>1 DEF Receive, Refuse, Receiving
    <2> QED BY <1>2, <2>1, <2>2
  <1>4. Last(u) /\ sent'[u] = sent[u]  BY <1>3, LastKept
  <1>5. "write" \notin met  BY PathFrame
  <1>6. CASE UNCHANGED stream /\ Passed(u)
    <2>1. PICK j \in DOMAIN stream :
            stream[j] = u /\ \A i \in DOMAIN stream : i > j => UpdateOf(i).op # sent[u].op
      BY <1>3, <1>4, <1>5, <1>6 DEF LastWritten
    <2> QED BY <1>4, <1>6, <2>1, Kept
  <1>7. ASSUME Receive PROVE stream' = Append(stream, offset + 1) /\ offset' = offset + 1
                             /\ fetched > offset
    BY <1>7 DEF Receive, Receiving, Trouble
  <1>8. CASE Receive /\ offset >= confirmed
    <2>0. PICK n \in Nat : n = Len(stream) + 1  BY <1>0
    <2>1. /\ DOMAIN stream' = 1 .. n
          /\ stream'[n] = offset + 1
          /\ \A i \in DOMAIN stream : i \in DOMAIN stream' /\ stream'[i] = stream[i]
                                      /\ UpdateOf(i)' = UpdateOf(i)
      BY <1>0, <1>7, <1>8, <2>0, Kept
    <2>2. UpdateOf(n)' = sent[offset + 1]
      BY <2>1, <1>8 DEF Receive, UpdateOf
    <2>3. CASE u = offset + 1
      <3>1. \A i \in DOMAIN stream' : ~(i > n)  BY <2>0, <2>1, <1>0
      <3>2. n \in DOMAIN stream'  BY <2>0, <2>1, <1>0
      <3> QED BY <1>4, <2>1, <2>3, <3>1, <3>2
    <2>4. CASE u # offset + 1
      <3>1. offset >= u  BY <1>0, <1>1, <1>2, <1>8, <2>4 DEF Passed
      <3>2. PICK j \in DOMAIN stream :
              stream[j] = u /\ \A i \in DOMAIN stream : i > j => UpdateOf(i).op # sent[u].op
        BY <1>3, <1>4, <1>5, <3>1 DEF LastWritten, Passed
      <3>3. sent[offset + 1].op # sent[u].op
        BY <1>0, <1>1, <1>4, <1>7, <1>8, <3>1 DEF Last
      <3>4. \A i \in DOMAIN stream' : i \in DOMAIN stream \/ i = n
        BY <2>0, <2>1, <1>0
      <3> QED BY <1>4, <2>1, <2>2, <3>2, <3>3, <3>4
    <2> QED BY <2>3, <2>4
  <1>9. CASE UNCHANGED stream /\ ~Passed(u)
    <2>1. Receive \/ (Refuse /\ (~MayPass(sent[offset + 1]) \/ LinkChecked(sent[offset + 1])))
      <3>1. LinkSteps \/ PressSteps => UNCHANGED offset
        BY HandlerAdvances DEF Advance, telegramVars
      <3>2. offset' # offset /\ offset' # confirmed /\ offset' # 0
        BY <1>0, <1>1, <1>2, <1>9 DEF Passed
      <3> QED BY <3>1, <3>2, Steps DEF PersonSends, Poll, TakeUp, ReadInbound, AckInbound,
              StartInbound, StopInbound, vars, inboundVars, telegramVars
    <2>2. ~Receive
      <3> SUFFICES ASSUME Receive PROVE FALSE
        OBVIOUS
      <3>1. Len(stream') = Len(stream) + 1  BY <1>0, <1>7
      <3> QED BY <1>0, <1>9, <3>1
    <2>3. sent[offset + 1].kind = "unlink"  BY <1>2, <1>4, <1>9
    <2> QED BY <2>1, <2>2, <2>3 DEF MayPass, LinkChecked
  <1> QED BY <1>6, <1>8, <1>9, PassedFrame

-----------------------------------------------------------------------------
(* Unlinked for good. With crashes only, the entries are done one after    *)
(* the other, so between two entries an account whose last done update is  *)
(* /unlink has no record and no route, unless its next one has already     *)
(* been begun, once or before a crash.                                     *)

Clean(o) == web[o] = None /\ NoRouteOf(o)

AtRest(o) ==
  \A j \in DOMAIN stream :
    UpdateOf(j).op = o /\ (\A k \in 1 .. (j - 1) : k \in Done) => j \in Done

Unlinked(o) ==
  \E i \in Done : /\ UpdateOf(i).op = o /\ UpdateOf(i).kind = "unlink"
                  /\ \A j \in Done : UpdateOf(j).op = o => j <= i

CleanInv ==
  met \subseteq {"crash"} =>
    /\ \A o \in Operators : Unlinked(o) /\ AtRest(o) => Clean(o)
    /\ stage = "ack" /\ InHand.kind = "unlink" => Clean(Who)

LEMMA CleanInit == Init => CleanInv
  BY DEF Init, InboundInit, LoopStarts, LinkInit, CleanInv, Unlinked, Done

(* Entries get done by their acknowledgement only.                         *)
LEMMA DoneFrame ==
  ASSUME PathOK, [Next]_vars, "read" \notin met'
  PROVE  \/ Done' = Done
         \/ AckInbound /\ hand # 0 /\ hand \notin Done /\ Done' = Done \cup {hand}
  <1>0. /\ unacked \subseteq 1 .. given /\ given \in Nat /\ Len(stream) \in Nat
        /\ given <= Len(stream) /\ hand \in unacked \cup {0}
    BY DEF PathOK, GroupOK, StreamOK, HandOK
  <1>1. CASE UNCHANGED <<given, unacked>>  BY <1>1 DEF Done
  <1>2. CASE ReadInbound
    <2>1. given' = Len(stream)  BY <1>2 DEF ReadInbound, Trouble
    <2>2. unacked' = unacked \cup Unread  BY <2>1, <1>0, <1>2 DEF ReadInbound, Unread
    <2> QED BY <2>1, <2>2, <1>0 DEF Done, Unread
  <1>3. CASE AckInbound
    <2>1. hand # 0 /\ given' = given /\ (unacked' = unacked \ {hand} \/ unacked' = unacked)
      BY <1>3 DEF AckInbound, PathOK, HandOK
    <2> QED BY <2>1, <1>0, <1>3 DEF Done
  <1> QED BY <1>1, <1>2, <1>3, PathFrame DEF TakeUp, StopInbound, groupVars

(* The loop is never behind the entry in hand, nor past it.                *)
LEMMA HandIsNext ==
  ASSUME PathOK, OneByOne, met \cap {"read", "ack"} = {}, hand # 0
  PROVE  /\ hand \in DOMAIN stream /\ hand \notin Done
         /\ \A k \in 1 .. (hand - 1) : k \in Done
         /\ \A k \in Done : k <= hand
  <1>1. /\ hand \in DOMAIN stream /\ hand \in unacked /\ hand \in Nat /\ given \in Nat
        /\ DOMAIN stream = 1 .. Len(stream) /\ Len(stream) \in Nat
    BY DEF PathOK, HandOK, GroupOK, StreamOK
  <1>2. \A k \in 1 .. (hand - 1) : k \in Done
    BY <1>1, BeforeHand
  <1>3. \A k \in Done : k <= hand
    BY <1>1 DEF OneByOne, Done
  <1> QED BY <1>1, <1>2, <1>3 DEF Done

(* Entries that are there stay as they are, and are done as long as they   *)
(* were.                                                                   *)
LEMMA RestKept ==
  ASSUME PathOK, [Next]_vars, Done' = Done, NEW o
  PROVE  /\ Unlinked(o)' => Unlinked(o)
         /\ AtRest(o)' => AtRest(o)
  <1>1. \A i \in DOMAIN stream : i \in DOMAIN stream' /\ UpdateOf(i)' = UpdateOf(i)
    BY Kept
  <1>2. Done \subseteq DOMAIN stream  BY DEF Done, PathOK, GroupOK, StreamOK
  <1>3. Unlinked(o)' => Unlinked(o)
    <2> SUFFICES ASSUME Unlinked(o)' PROVE Unlinked(o)
      OBVIOUS
    <2>1. PICK i \in Done : /\ UpdateOf(i)'.op = o /\ UpdateOf(i)'.kind = "unlink"
                            /\ \A j \in Done : UpdateOf(j)'.op = o => j <= i
      BY DEF Unlinked
    <2> QED BY <1>1, <1>2, <2>1 DEF Unlinked
  <1>4. AtRest(o)' => AtRest(o)
    <2> SUFFICES ASSUME AtRest(o)', NEW j \in DOMAIN stream, UpdateOf(j).op = o,
                        \A k \in 1 .. (j - 1) : k \in Done
                 PROVE  j \in Done
      BY DEF AtRest
    <2> QED BY <1>1 DEF AtRest
  <1> QED BY <1>3, <1>4

(* A handler makes unclean nobody but the account it works for.            *)
LEMMA OthersClean ==
  ASSUME TypeInv, [Next]_vars, NEW o \in Operators, Clean(o), LinkSteps => o # Who
  PROVE  Clean(o)'
  <1>1. CASE UNCHANGED linkVars  BY <1>1 DEF linkVars, Clean, NoRouteOf
  <1>2. CASE Site
    BY <1>2, SiteWrites DEF Clean, NoRouteOf
  <1>3. CASE LinkSteps
    <2>0. /\ o # Who /\ Who \in Operators
          /\ route \in [Consumers -> Operators \cup {None, Gone}]
          /\ web \in [Operators -> Consumers \cup {None}]
      BY <1>3, LinkHandler
    <2>1. web'[o] = web[o]
      BY <2>0, <1>3 DEF LinkSteps, LinkCode, LinkRoute, LinkEndsOld, LinkRecords, LinkPuts,
         LinkAnswers, UnlinkWeb, UnlinkRoute, UnlinkDeletes, UnlinkForgets, AskWeb, AskRoute,
         AskDrops, AskRelays, linkVars, Put
    <2>2. \A c \in Consumers : route'[c] \in {route[c], Gone, Who}
      BY <2>0, <1>3 DEF LinkSteps, LinkCode, LinkRoute, LinkEndsOld, LinkRecords, LinkPuts,
         LinkAnswers, UnlinkWeb, UnlinkRoute, UnlinkDeletes, UnlinkForgets, AskWeb, AskRoute,
         AskDrops, AskRelays, linkVars, Put
    <2> QED BY <2>0, <2>1, <2>2 DEF Clean, NoRouteOf
  <1> QED BY <1>1, <1>2, <1>3, LinkFrame

LEMMA CleanNext == TypeInv /\ OneByOne /\ LinkInv /\ CleanInv /\ [Next]_vars => CleanInv'
  <1> SUFFICES ASSUME TypeInv, OneByOne, LinkInv, CleanInv, [Next]_vars, met' \subseteq {"crash"}
               PROVE  /\ \A o \in Operators : Unlinked(o)' /\ AtRest(o)' => Clean(o)'
                      /\ stage' = "ack" /\ InHand'.kind = "unlink" => Clean(Who)'
    BY DEF CleanInv
  <1>0. /\ PathOK /\ StageFits /\ (stage = "idle" <=> hand = 0)
        /\ met \subseteq {"crash"} /\ met \cap {"read", "ack"} = {} /\ "valkey" \notin met
        /\ "read" \notin met'
    BY PathFrame DEF TypeInv, PathOK, HandOK
  <1>n. ~Trouble("valkey") /\ ~Trouble("ack")  BY DEF Trouble
  <1>1. ASSUME NEW o \in Operators, Unlinked(o)', AtRest(o)' PROVE Clean(o)'
    <2>1. CASE Done' = Done
      <3>1. Unlinked(o) /\ AtRest(o)  BY <1>0, <1>1, <2>1, RestKept
      <3>2. Clean(o)  BY <1>0, <3>1 DEF CleanInv
      <3>3. LinkSteps => o # Who
        <4> SUFFICES ASSUME LinkSteps, o = Who PROVE FALSE
          OBVIOUS
        <4>1. hand # 0  BY LinkHandler
        <4>2. UpdateOf(hand).op = o  BY DEF Who, InHand
        <4> QED BY <1>0, <3>1, <4>1, <4>2, HandIsNext DEF AtRest
      <3> QED BY <3>2, <3>3, OthersClean
    <2>2. CASE AckInbound /\ hand # 0 /\ hand \notin Done /\ Done' = Done \cup {hand}
      <3>1. /\ stage = "ack" /\ UNCHANGED linkVars /\ InHand = UpdateOf(hand)
            /\ hand \in DOMAIN stream
        BY <1>0, <2>2, Steps, HandIsNext
           DEF AckInbound, InHand, LinkSteps, LinkCode, LinkRoute, LinkEndsOld, LinkRecords,
               LinkPuts, LinkAnswers, UnlinkWeb, UnlinkRoute, UnlinkDeletes, UnlinkForgets, AskWeb,
               AskRoute, AskDrops, AskRelays, Advance, Site, MakeCode, CodeExpires, WindowUnlinks,
               vars, inboundVars, handVars
      <3>2. \A i \in DOMAIN stream : i \in DOMAIN stream' /\ UpdateOf(i)' = UpdateOf(i)
        BY <1>0, Kept
      <3>3. Done \subseteq DOMAIN stream  BY <1>0 DEF Done, PathOK, GroupOK, StreamOK
      <3>4. PICK i \in Done' : /\ UpdateOf(i)'.op = o /\ UpdateOf(i)'.kind = "unlink"
                               /\ \A j \in Done' : UpdateOf(j)'.op = o => j <= i
        BY <1>1 DEF Unlinked
      <3>5. CASE i = hand
        <4>1. InHand.kind = "unlink" /\ Who = o
          BY <3>1, <3>2, <3>4, <3>5 DEF Who
        <4> QED BY <1>0, <3>1, <4>1 DEF CleanInv, linkVars, Clean, NoRouteOf
      <3>6. CASE i # hand
        <4>1. i \in Done /\ i \in Nat /\ hand \in Nat
          BY <1>0, <2>2, <3>1, <3>3, <3>6 DEF PathOK, StreamOK
        <4>2. i <= hand  BY <1>0, <2>2, <4>1, HandIsNext
        <4>3. UpdateOf(hand).op # o
          BY <2>2, <3>1, <3>2, <3>4, <3>6, <4>1, <4>2
        <4>4. Unlinked(o)
          BY <2>2, <3>2, <3>3, <3>4, <4>1 DEF Unlinked
        <4>5. AtRest(o)
          <5> SUFFICES ASSUME NEW j \in DOMAIN stream, UpdateOf(j).op = o,
                              \A k \in 1 .. (j - 1) : k \in Done
                       PROVE  j \in Done
            BY DEF AtRest
          <5>1. j \in Done'  BY <1>1, <2>2, <3>2 DEF AtRest
          <5> QED BY <2>2, <4>3, <5>1
        <4> QED BY <1>0, <3>1, <4>4, <4>5 DEF CleanInv, linkVars, Clean, NoRouteOf
      <3> QED BY <3>5, <3>6
    <2> QED BY <1>0, <2>1, <2>2, DoneFrame
  <1>2. ASSUME stage' = "ack", InHand'.kind = "unlink" PROVE Clean(Who)'
    <2>1. CASE LinkSteps
      <3>1. /\ InHand' = InHand /\ Who' = Who /\ Who \in Operators
            /\ web \in [Operators -> Consumers \cup {None}]
        BY <2>1, LinkHandler
      <3>2. stage \in UnlinkHand
        BY <1>0, <1>2, <2>1, <3>1, LinkHandler DEF StageFits
      <3>3. (UnlinkWeb /\ web[Who] = None) \/ UnlinkForgets
        BY <1>2, <1>n, <2>1, <3>2
           DEF LinkSteps, LinkCode, LinkRoute, LinkEndsOld, LinkRecords, LinkPuts, LinkAnswers,
               UnlinkWeb, UnlinkRoute, UnlinkDeletes, UnlinkForgets, AskWeb, AskRoute, AskDrops,
               AskRelays, Advance, UnlinkHand
      <3>4. CASE UnlinkWeb /\ web[Who] = None
        BY <1>0, <3>1, <3>4 DEF UnlinkWeb, linkVars, LinkInv, RoutesRecorded, Clean, NoRouteOf
      <3>5. CASE UnlinkForgets
        BY <1>0, <1>n, <3>1, <3>5 DEF UnlinkForgets, Advance, Put, LinkInv, Clean, NoRouteOf
      <3> QED BY <3>3, <3>4, <3>5
    <2>2. CASE ~LinkSteps /\ UNCHANGED <<hand, stage>>
      <3>1. hand # 0 /\ InHand' = InHand /\ Who' = Who /\ Who \in Operators
        BY <1>0, <1>2, <2>2, InHandType
      <3>2. Clean(Who)  BY <1>0, <1>2, <2>2, <3>1 DEF CleanInv
      <3> QED BY <2>2, <3>1, <3>2, OthersClean DEF Clean, NoRouteOf
    <2>3. ASSUME NEW i \in toHandle, stage' = FirstStage(UpdateOf(i)), UpdateOf(i) \in Updates
          PROVE  FALSE
      BY <1>2, <2>3, FirstStageFits
    <2>4. ASSUME stage \in PollStages, InHand' = InHand PROVE FALSE
      BY <1>0, <1>2, <2>4 DEF StageFits
    <2> QED BY <1>2, <2>1, <2>2, <2>3, <2>4, StageFrame
  <1> QED BY <1>1, <1>2

(* A set of numbers has a least, and below a bound a greatest.             *)
LEMMA Least ==
  ASSUME NEW S, S \subseteq Nat, S # {}
  PROVE  \E n \in S : \A m \in S : n <= m
  <1> DEFINE R == {ss \in Nat \X Nat : ss[1] < ss[2]}
  <1>1. IsWellFoundedOn(R, Nat)
    <2>1. OpToRel(<, Nat) = R  BY DEF OpToRel
    <2> QED BY <2>1, NatLessThanWellFounded
  <1>2. \A x, y \in Nat : y < x => <<y, x>> \in R
    OBVIOUS
  <1> HIDE DEF R
  <1>3. PICK x \in S : \A y \in S : ~ (<<y, x>> \in R)  BY <1>1, WFMin
  <1>4. ASSUME NEW y \in S PROVE x <= y
    <2>1. x \in Nat /\ y \in Nat  OBVIOUS
    <2>2. ~(y < x)  BY <1>2, <1>3, <2>1
    <2> QED BY <2>1, <2>2
  <1> QED BY <1>4

LEMMA Greatest ==
  ASSUME NEW n \in Nat, NEW S, S \subseteq 1 .. n, S # {}
  PROVE  \E x \in S : \A y \in S : y <= x
  <1> DEFINE T == {n - y : y \in S}
  <1>0. \A y \in S : n - y \in Nat  OBVIOUS
  <1>1. T \subseteq Nat /\ T # {}
    <2>1. ASSUME NEW t \in T PROVE t \in Nat
      <3>1. PICK y \in S : t = n - y  OBVIOUS
      <3> QED BY <1>0, <3>1
    <2>2. PICK y \in S : TRUE  OBVIOUS
    <2>3. n - y \in T  OBVIOUS
    <2> QED BY <2>1, <2>3
  <1>2. PICK t \in T : \A u \in T : t <= u  BY <1>1, Least
  <1>3. PICK x \in S : t = n - x  OBVIOUS
  <1>4. ASSUME NEW y \in S PROVE y <= x
    <2>1. n - x <= n - y  BY <1>2, <1>3
    <2>2. x \in Nat /\ y \in Nat  OBVIOUS
    <2> QED BY <2>1, <2>2
  <1> QED BY <1>4

(* Whoever sent /unlink last is not linked once everything is handled,     *)
(* whatever a crash had the loop do again: neither an update the receiver  *)
(* fetches twice nor an entry handled twice brings an older link back.     *)
THEOREM UnlinkIsFinal == Spec => []UnlinkSticks
  <1> DEFINE IInv == TypeInv /\ OneByOne /\ LinkInv /\ Caught /\ LastWritten /\ CleanInv
  <1>1. IInv => UnlinkSticks
    <2> SUFFICES ASSUME IInv, Quiet, met \subseteq {"crash"}, NEW o \in Operators,
                        LastOf(o) = "unlink"
                 PROVE  Clean(o)
      BY DEF UnlinkSticks, Clean, NoRouteOf, Linked
    <2>0. /\ PathOK /\ DOMAIN sent = 1 .. Len(sent) /\ Len(sent) \in Nat /\ offset = Len(sent)
          /\ given = Len(stream) /\ unacked = {} /\ Len(stream) \in Nat
          /\ DOMAIN stream = 1 .. Len(stream)
      BY DEF TypeInv, PathOK, SentOK, StreamOK, Quiet
    <2> DEFINE mine == {i \in DOMAIN sent : sent[i].op = o}
    <2>1. mine # {}  BY DEF LastOf
    <2>2. \E i \in mine : \A j \in mine : j <= i  BY <2>0, <2>1, Greatest
    <2> DEFINE u == CHOOSE i \in mine : \A j \in mine : j <= i
    <2>3. u \in mine /\ \A j \in mine : j <= u  BY <2>2
    <2>4. sent[u].kind = "unlink"  BY <2>1 DEF LastOf
    <2> HIDE DEF u
    <2>5. Last(u) /\ Passed(u) /\ sent[u].op = o  BY <2>0, <2>3 DEF Last, Passed
    <2>6. PICK j \in DOMAIN stream :
            stream[j] = u /\ \A i \in DOMAIN stream : i > j => UpdateOf(i).op # sent[u].op
      BY <2>3, <2>4, <2>5 DEF LastWritten
    <2>7. Done = DOMAIN stream  BY <2>0 DEF Done
    <2>8. UpdateOf(j) = sent[u]  BY <2>6 DEF UpdateOf
    <2>9. Unlinked(o) /\ AtRest(o)
      BY <2>0, <2>4, <2>5, <2>6, <2>7, <2>8 DEF Unlinked, AtRest
    <2> QED BY <2>9 DEF CleanInv
  <1>2. IInv /\ [Next]_vars => IInv'
    <2> SUFFICES ASSUME IInv, [Next]_vars PROVE IInv'
      OBVIOUS
    <2>1. PathOK  BY DEF TypeInv
    <2> QED BY <2>1, TypeNext, OneByOneNext, LinkInvNext, PassedFrame, LastNext, CleanNext
  <1>3. Init => IInv
    BY TypeInit, OneByOneInit, LinkInvInit, LastInit, CleanInit
  <1> QED BY <1>1, <1>2, <1>3, PTL DEF Spec

-----------------------------------------------------------------------------
(* One account for a code. A code that was recorded for an account and can *)
(* still be used belongs to an entry whose handler has not finished: the   *)
(* one in hand, or after a crash the one that comes first. When it is      *)
(* taken up again the handler gets through to the same account, for the    *)
(* route it linked is still there.                                         *)

CodeCond ==
  /\ met \cap {"read", "valkey"} = {}
  /\ "crash" \in met => ends = MaxEnds /\ "ack" \notin met

Unfinished(k, h) ==
  /\ h \in unacked /\ UpdateOf(h).kind = "link" /\ UpdateOf(h).code = k
  /\ spentBy[k] = {UpdateOf(h).op}
  /\ \/ hand = h /\ stage # "ack"
     \/ hand = 0 /\ "crash" \in met /\ \A i \in unacked : h <= i
  /\ "crash" \in met => route[ConsumerOf[k]] # Gone

Unspent ==
  /\ \A k \in Codes : code[k] = "none" => spentBy[k] = {}
  /\ stage \in LinkHand \ {"link.code"} => code[Code] # "none"

CodeInv ==
  CodeCond =>
    /\ \A k \in Codes : spentBy[k] # {} /\ code[k] = "fresh" => \E h \in unacked : Unfinished(k, h)
    /\ stage \in LinkHand \ {"link.code"} => spentBy[Code] \subseteq {Who}
    /\ stage \in {"link.old", "link.web", "link.put", "link.answer"} /\ ends = MaxEnds =>
         route[Target] # Gone
    /\ stage \in {"link.code", "link.route", "link.old", "link.web"} /\ "crash" \notin met
         /\ code[Code] = "fresh" => spentBy[Code] = {}
    /\ \A k \in Codes : \A a, b \in spentBy[k] : a = b

LEMMA CodeInit == Init => Unspent /\ CodeInv
  BY DEF Init, InboundInit, LoopStarts, LinkInit, Unspent, CodeInv, LinkHand

LEMMA UnspentNext == TypeInv /\ Unspent /\ [Next]_vars => Unspent'
  <1> SUFFICES ASSUME TypeInv, Unspent, [Next]_vars PROVE Unspent'
    OBVIOUS
  <1>0. /\ code \in [Codes -> CodeStates] /\ spentBy \in [Codes -> SUBSET Operators]
        /\ PathOK /\ StageFits /\ (stage = "idle" <=> hand = 0)
    BY DEF TypeInv, LinkTypeOK, PathOK, HandOK
  <1>1. CASE LinkSteps
    <2>0. /\ InHand' = InHand /\ Code' = Code
          /\ stage \in LinkHand => Code \in Codes
      BY <1>1, LinkHandler DEF Code
    <2>1. CASE LinkCode
      BY <2>0, <2>1 DEF LinkCode, Advance, linkVars, Unspent, LinkHand
    <2>2. CASE LinkRoute \/ LinkEndsOld \/ LinkPuts
      BY <2>0, <2>2 DEF LinkRoute, LinkEndsOld, LinkPuts, Advance, linkVars, Unspent, LinkHand
    <2>3. CASE LinkRecords
      <3>1. stage \in LinkHand \ {"link.code"} /\ code' = code
        BY <2>3 DEF LinkRecords, Advance, LinkHand
      <3>2. \A k \in Codes : k # Code => spentBy'[k] = spentBy[k]
        BY <1>0, <2>3 DEF LinkRecords
      <3> QED BY <2>0, <3>1, <3>2 DEF Unspent
    <2>4. CASE LinkAnswers
      <3>1. stage' = "ack" /\ spentBy' = spentBy
            /\ \A k \in Codes : code'[k] = "none" => code[k] = "none"
        BY <1>0, <2>4 DEF LinkAnswers, Advance, Put
      <3> QED BY <3>1 DEF Unspent, LinkHand
    <2>5. CASE \/ UnlinkWeb \/ UnlinkRoute \/ UnlinkDeletes \/ UnlinkForgets
               \/ AskWeb \/ AskRoute \/ AskDrops \/ AskRelays
      BY <2>5 DEF UnlinkWeb, UnlinkRoute, UnlinkDeletes, UnlinkForgets, AskWeb, AskRoute, AskDrops,
                  AskRelays, Advance, linkVars, Unspent, LinkHand
    <2> QED BY <1>1, <2>1, <2>2, <2>3, <2>4, <2>5 DEF LinkSteps
  <1>2. ASSUME ~LinkSteps
        PROVE  \A k \in Codes : spentBy'[k] = spentBy[k] /\ (code'[k] = "none" => code[k] = "none")
    BY <1>0, <1>2, LinkFrame DEF linkVars, Site, MakeCode, CodeExpires, WindowUnlinks
  <1>3. CASE ~LinkSteps /\ UNCHANGED <<hand, stage>>
    <2>1. CASE stage \in LinkHand
      <3>1. hand # 0  BY <1>0, <2>1 DEF LinkHand
      <3>2. Code' = Code /\ Code \in Codes
        BY <1>0, <1>3, <2>1, <3>1, InHandType DEF StageFits, Code
      <3> QED BY <1>2, <1>3, <3>2 DEF Unspent
    <2>2. CASE stage \notin LinkHand  BY <1>2, <1>3, <2>2 DEF Unspent
    <2> QED BY <2>1, <2>2
  <1>4. ASSUME ~LinkSteps, stage' \notin LinkHand \ {"link.code"} PROVE Unspent'
    BY <1>2, <1>4 DEF Unspent
  <1>5. ASSUME NEW i \in toHandle, stage' = FirstStage(UpdateOf(i)), UpdateOf(i) \in Updates
        PROVE  stage' \notin LinkHand \ {"link.code"}
    BY <1>5 DEF FirstStage, UpdateKinds, LinkHand
  <1>6. stage' \in PollStages \cup {"ack", "idle"} => stage' \notin LinkHand \ {"link.code"}
    BY DEF PollStages, LinkHand
  <1> QED BY <1>1, <1>3, <1>4, <1>5, <1>6, StageFrame

(* The site ends nothing but on its own account, and crashes are Stop's.   *)
LEMMA TroubleFrame ==
  ASSUME TypeInv, [Next]_vars, CodeCond'
  PROVE  /\ CodeCond
         /\ ends' = MaxEnds => ends = MaxEnds
         /\ "crash" \in met' => "crash" \in met \/ StopInbound
         /\ ~Trouble("valkey") /\ ~Trouble("read")
  <1>1. met \subseteq met'  BY PathFrame DEF TypeInv
  <1>2. ends \in 0 .. MaxEnds /\ MaxEnds \in Nat  BY DEF TypeInv, LinkTypeOK
  <1>3. ends' = ends \/ ends' = ends - 1
    <2>1. LinkSteps => UNCHANGED ends
      BY DEF LinkSteps, LinkCode, LinkRoute, LinkEndsOld, LinkRecords, LinkPuts, LinkAnswers,
         UnlinkWeb, UnlinkRoute, UnlinkDeletes, UnlinkForgets, AskWeb, AskRoute, AskDrops,
         AskRelays, linkVars
    <2>2. Site => ends' = ends \/ ends' = ends - 1
      BY DEF Site, MakeCode, CodeExpires, WindowUnlinks
    <2> QED BY <2>1, <2>2, LinkFrame DEF linkVars
  <1>4. ends' = MaxEnds => ends = MaxEnds  BY <1>2, <1>3
  <1>5. "crash" \in met' => "crash" \in met \/ StopInbound
    <2>0. (\/ NoTrouble \/ UNCHANGED troubleVars
           \/ \E kind \in {"write", "read", "ack", "valkey"} : Trouble(kind))
          => ("crash" \in met' => "crash" \in met)
      BY DEF NoTrouble, Trouble, troubleVars
    <2>1. LinkSteps \/ PressSteps => NoTrouble \/ Trouble("valkey")
      BY HandlerAdvances
    <2>2. Receive => NoTrouble \/ Trouble("write")  BY DEF Receive
    <2>3. ReadInbound => NoTrouble \/ Trouble("read")  BY DEF ReadInbound
    <2>4. AckInbound => NoTrouble \/ Trouble("ack")  BY DEF AckInbound
    <2>5. (\/ \E x \in Updates : PersonSends(x)
           \/ \E i \in toHandle : TakeUp(i, FirstStage(UpdateOf(i)))
           \/ Poll \/ StartInbound \/ UNCHANGED inboundVars)
          => UNCHANGED troubleVars
      BY DEF PersonSends, TakeUp, Poll, StartInbound, inboundVars
    <2>6. CASE Next
      BY <2>0, <2>1, <2>2, <2>3, <2>4, <2>5, <2>6, Steps
    <2> QED BY <2>0, <2>5, <2>6 DEF vars
  <1> QED BY <1>1, <1>4, <1>5 DEF CodeCond, Trouble

(* With an entry in hand, no code is left unfinished but the one of that   *)
(* entry.                                                                  *)
LEMMA OnlyInHand ==
  ASSUME TypeInv, CodeInv, CodeCond, hand # 0, NEW k \in Codes, spentBy[k] # {},
         code[k] = "fresh"
  PROVE  /\ InHand.kind = "link" /\ Code = k /\ Target = ConsumerOf[k] /\ spentBy[k] = {Who}
         /\ hand \in unacked /\ stage # "ack"
         /\ "crash" \in met => route[Target] # Gone
  <1>1. PICK h \in unacked : Unfinished(k, h)  BY DEF CodeInv
  <1> QED BY <1>1 DEF Unfinished, InHand, Code, Target, Who

(* The handler of the link itself.                                         *)
LEMMA CodeHandler ==
  ASSUME TypeInv, Unspent, CodeInv, [Next]_vars, CodeCond', LinkSteps
  PROVE  /\ \A k \in Codes : spentBy'[k] # {} /\ code'[k] = "fresh" =>
              /\ InHand.kind = "link" /\ Code = k /\ spentBy'[k] = {Who} /\ stage' # "ack"
              /\ "crash" \in met => route'[Target] # Gone
         /\ stage' \in LinkHand \ {"link.code"} => spentBy'[Code] \subseteq {Who}
         /\ stage' \in {"link.old", "link.web", "link.put", "link.answer"} /\ ends' = MaxEnds =>
              route'[Target] # Gone
         /\ stage' \in {"link.code", "link.route", "link.old", "link.web"} /\ "crash" \notin met
              /\ code'[Code] = "fresh" => spentBy'[Code] = {}
         /\ \A k \in Codes : \A a, b \in spentBy'[k] : a = b
  <1>0. /\ CodeCond /\ ~Trouble("valkey") /\ (ends' = MaxEnds => ends = MaxEnds)
        /\ hand # 0 /\ Who \in Operators
        /\ stage \in LinkHand => Code \in Codes /\ Target \in Consumers
        /\ stage \in LinkHand \cup UnlinkHand \cup AskHand
        /\ route \in [Consumers -> Operators \cup {None, Gone}]
        /\ code \in [Codes -> CodeStates] /\ spentBy \in [Codes -> SUBSET Operators]
        /\ StageFits
    BY TroubleFrame, LinkHandler DEF TypeInv, LinkTypeOK
  <1>k. \A k \in Codes : spentBy[k] # {} /\ code[k] = "fresh" =>
          /\ InHand.kind = "link" /\ Code = k /\ spentBy[k] = {Who}
          /\ "crash" \in met => route[Target] # Gone
    BY <1>0, OnlyInHand
  <1>i. /\ stage \in LinkHand \ {"link.code"} => spentBy[Code] \subseteq {Who}
        /\ stage \in {"link.old", "link.web", "link.put", "link.answer"} /\ ends = MaxEnds =>
             route[Target] # Gone
        /\ stage \in {"link.code", "link.route", "link.old", "link.web"} /\ "crash" \notin met
             /\ code[Code] = "fresh" => spentBy[Code] = {}
        /\ \A k \in Codes : \A a, b \in spentBy[k] : a = b
    BY <1>0 DEF CodeInv
  <1>1. CASE LinkCode
    <2>1. UNCHANGED <<code, route, spentBy, ends>> /\ stage = "link.code"
      BY <1>1 DEF LinkCode, Advance, linkVars
    <2>2. Code \in Codes  BY <1>0, <2>1 DEF LinkHand
    <2>3. CASE stage' = "link.route" /\ code[Code] = "fresh"
      BY <1>k, <1>i, <2>1, <2>2, <2>3 DEF LinkHand
    <2>4. CASE stage' = "ack" /\ code[Code] # "fresh"
      BY <1>k, <1>i, <2>1, <2>2, <2>4 DEF LinkHand
    <2> QED BY <1>0, <1>1, <2>3, <2>4 DEF LinkCode, Advance
  <1>2. CASE LinkRoute
    <2>1. UNCHANGED <<code, route, spentBy, ends>> /\ stage = "link.route"
      BY <1>2 DEF LinkRoute, Advance, linkVars
    <2>2. Code \in Codes  BY <1>0, <2>1 DEF LinkHand
    <2>3. CASE stage' = "link.old" /\ route[Target] # Gone
      BY <1>k, <1>i, <2>1, <2>2, <2>3 DEF LinkHand
    <2>4. CASE stage' = "ack" /\ route[Target] = Gone
      BY <1>k, <1>i, <2>1, <2>2, <2>4 DEF LinkHand
    <2> QED BY <1>0, <1>2, <2>3, <2>4 DEF LinkRoute, Advance
  <1>3. CASE LinkEndsOld
    <2>1. UNCHANGED <<code, spentBy, ends>> /\ stage = "link.old" /\ stage' = "link.web"
      BY <1>3 DEF LinkEndsOld, Advance
    <2>2. Code \in Codes /\ Target \in Consumers  BY <1>0, <2>1 DEF LinkHand
    <2>3. route'[Target] = route[Target]
      BY <1>0, <1>3, <2>2 DEF LinkEndsOld, Put
    <2> QED BY <1>0, <1>k, <1>i, <2>1, <2>2, <2>3 DEF LinkHand
  <1>4. CASE LinkRecords
    <2>1. UNCHANGED <<code, route, ends>> /\ stage = "link.web" /\ stage' = "link.put"
      BY <1>4 DEF LinkRecords, Advance
    <2>2. Code \in Codes /\ Target \in Consumers /\ InHand.kind = "link"
      BY <1>0, <2>1 DEF LinkHand, StageFits
    <2>3. /\ spentBy'[Code] = spentBy[Code] \/ spentBy'[Code] = spentBy[Code] \cup {Who}
          /\ \A k \in Codes : k # Code => spentBy'[k] = spentBy[k]
      BY <1>0, <1>4, <2>2 DEF LinkRecords
    <2>4. spentBy'[Code] \subseteq {Who}  BY <1>i, <2>1, <2>3 DEF LinkHand
    <2>5. "crash" \in met => route'[Target] # Gone
      BY <1>0, <1>i, <2>1 DEF CodeCond
    <2>6. \A k \in Codes : k # Code => ~(spentBy'[k] # {} /\ code'[k] = "fresh")
      BY <1>k, <2>1, <2>3
    <2>7. \A k \in Codes : \A a, b \in spentBy'[k] : a = b
      BY <1>i, <2>3, <2>4
    <2>8. ends' = MaxEnds => route'[Target] # Gone
      BY <1>0, <1>i, <2>1
    <2> QED BY <2>1, <2>2, <2>4, <2>5, <2>6, <2>7, <2>8
  <1>5. CASE LinkPuts
    <2>1. UNCHANGED <<code, spentBy, ends>> /\ stage = "link.put" /\ stage' = "link.answer"
      BY <1>5 DEF LinkPuts, Advance
    <2>2. Code \in Codes /\ Target \in Consumers  BY <1>0, <2>1 DEF LinkHand
    <2>3. route'[Target] = Who /\ Who # Gone
      BY <1>0, <1>5, <2>2 DEF LinkPuts, Put
    <2> QED BY <1>k, <1>i, <2>1, <2>2, <2>3 DEF LinkHand
  <1>6. CASE LinkAnswers
    <2>1. UNCHANGED <<route, spentBy, ends>> /\ stage = "link.answer" /\ stage' = "ack"
      BY <1>6 DEF LinkAnswers, Advance
    <2>2. Code \in Codes  BY <1>0, <2>1 DEF LinkHand
    <2>3. code'[Code] = "linked" /\ \A k \in Codes : k # Code => code'[k] = code[k]
      BY <1>0, <1>6, <2>2 DEF LinkAnswers, Put
    <2> QED BY <1>k, <1>i, <2>1, <2>2, <2>3 DEF LinkHand
  <1>7. CASE \/ UnlinkWeb \/ UnlinkRoute \/ UnlinkDeletes \/ UnlinkForgets
             \/ AskWeb \/ AskRoute \/ AskDrops \/ AskRelays
    <2>1. UNCHANGED <<code, spentBy>> /\ stage \in UnlinkHand \cup AskHand /\ stage' \notin LinkHand
      BY <1>7 DEF UnlinkWeb, UnlinkRoute, UnlinkDeletes, UnlinkForgets, AskWeb, AskRoute, AskDrops,
                  AskRelays, Advance, linkVars, LinkHand, UnlinkHand, AskHand
    <2>2. InHand.kind # "link"  BY <1>0, <2>1 DEF StageFits
    <2>3. \A k \in Codes : ~(spentBy'[k] # {} /\ code'[k] = "fresh")  BY <1>k, <2>1, <2>2
    <2> QED BY <1>i, <2>1, <2>3 DEF LinkHand
  <1> QED BY <1>1, <1>2, <1>3, <1>4, <1>5, <1>6, <1>7 DEF LinkSteps

(* Outside the handler of links no account is recorded for a code, and a   *)
(* code that can be used again was not used before.                        *)
LEMMA CodeKept ==
  ASSUME TypeInv, Unspent, [Next]_vars, ~LinkSteps
  PROVE  /\ spentBy' = spentBy
         /\ \A k \in Codes : spentBy[k] # {} /\ code'[k] = "fresh" => code[k] = "fresh"
         /\ \A k \in Codes : code'[k] = "fresh" => code[k] = "fresh" \/ spentBy[k] = {}
         /\ \A c \in Consumers : route[c] # Gone /\ ends' = MaxEnds => route'[c] # Gone
  <1>0. /\ code \in [Codes -> CodeStates] /\ route \in [Consumers -> Operators \cup {None, Gone}]
        /\ ends \in 0 .. MaxEnds /\ MaxEnds \in Nat
    BY DEF TypeInv, LinkTypeOK
  <1>1. CASE UNCHANGED linkVars  BY <1>1 DEF linkVars
  <1>2. ASSUME NEW k \in Codes, MakeCode(k)
        PROVE  /\ spentBy' = spentBy
               /\ \A j \in Codes : code'[j] = "fresh" => code[j] = "fresh" \/ spentBy[j] = {}
               /\ \A c \in Consumers : route[c] # Gone => route'[c] # Gone
    BY <1>0, <1>2 DEF MakeCode, Unspent
  <1>3. ASSUME NEW k \in Codes, CodeExpires(k)
        PROVE  /\ spentBy' = spentBy /\ route' = route
               /\ \A j \in Codes : code'[j] = "fresh" => code[j] = "fresh"
    BY <1>0, <1>3 DEF CodeExpires
  <1>4. ASSUME NEW c \in Consumers, WindowUnlinks(c)
        PROVE  spentBy' = spentBy /\ code' = code /\ ends' # MaxEnds
    BY <1>0, <1>4 DEF WindowUnlinks
  <1> QED BY <1>1, <1>2, <1>3, <1>4, LinkFrame DEF Site

LEMMA CodeNext == TypeInv /\ OneByOne /\ Unspent /\ CodeInv /\ [Next]_vars => CodeInv'
  <1> SUFFICES ASSUME TypeInv, OneByOne, Unspent, CodeInv, [Next]_vars, CodeCond'
               PROVE  /\ \A k \in Codes : spentBy'[k] # {} /\ code'[k] = "fresh" =>
                           \E h \in unacked' : Unfinished(k, h)'
                      /\ stage' \in LinkHand \ {"link.code"} => spentBy'[Code'] \subseteq {Who'}
                      /\ stage' \in {"link.old", "link.web", "link.put", "link.answer"}
                           /\ ends' = MaxEnds => route'[Target'] # Gone
                      /\ stage' \in {"link.code", "link.route", "link.old", "link.web"}
                           /\ "crash" \notin met' /\ code'[Code'] = "fresh" => spentBy'[Code'] = {}
                      /\ \A k \in Codes : \A a, b \in spentBy'[k] : a = b
    BY DEF CodeInv
  <1>0. /\ PathOK /\ StageFits /\ (stage = "idle" <=> hand = 0) /\ CodeCond
        /\ hand \in unacked \cup {0}
        /\ "crash" \in met' => "crash" \in met \/ StopInbound
        /\ ends' = MaxEnds => ends = MaxEnds
        /\ met \subseteq met'
        /\ route \in [Consumers -> Operators \cup {None, Gone}]
    BY TroubleFrame, PathFrame DEF TypeInv, PathOK, HandOK, LinkTypeOK
  <1>u. \A k \in Codes : spentBy[k] # {} /\ code[k] = "fresh" =>
          \E h \in unacked : Unfinished(k, h)
    BY <1>0 DEF CodeInv
  <1>s. \A k \in Codes : \A a, b \in spentBy[k] : a = b
    BY <1>0 DEF CodeInv
  <1>c. \A i \in unacked : i \in DOMAIN stream /\ i \in Nat /\ UpdateOf(i)' = UpdateOf(i)
                           /\ UpdateOf(i) \in Updates
    BY <1>0, Kept, EntryType DEF PathOK, GroupOK, StreamOK
  <1>1. CASE LinkSteps
    <2>1. /\ hand # 0 /\ hand' = hand /\ InHand' = InHand /\ Who' = Who /\ unacked' = unacked
          /\ "crash" \in met' => "crash" \in met
      <3>1. ~StopInbound
        BY <1>1, LinkHandler DEF StopInbound
      <3> QED BY <1>0, <1>1, <3>1, LinkHandler
    <2>2. Code' = Code /\ Target' = Target  BY <2>1 DEF Code, Target
    <2>3. ASSUME NEW k \in Codes, spentBy'[k] # {}, code'[k] = "fresh"
          PROVE  \E h \in unacked' : Unfinished(k, h)'
      <3>1. /\ InHand.kind = "link" /\ Code = k /\ spentBy'[k] = {Who} /\ stage' # "ack"
            /\ "crash" \in met => route'[Target] # Gone
        BY <1>1, <2>3, CodeHandler
      <3>2. hand \in unacked /\ UpdateOf(hand)' = InHand /\ UpdateOf(hand) = InHand
        BY <1>0, <1>c, <2>1 DEF InHand
      <3>3. Unfinished(k, hand)'
        BY <2>1, <3>1, <3>2 DEF Unfinished, Code, Target, Who
      <3> QED BY <2>1, <3>2, <3>3
    <2>4. "crash" \notin met' => "crash" \notin met  BY <1>0
    <2> QED BY <1>1, <2>1, <2>2, <2>3, <2>4, CodeHandler
  <1>k. ASSUME ~LinkSteps
        PROVE  /\ spentBy' = spentBy
               /\ \A k \in Codes : spentBy[k] # {} /\ code'[k] = "fresh" => code[k] = "fresh"
               /\ \A k \in Codes : code'[k] = "fresh" => code[k] = "fresh" \/ spentBy[k] = {}
               /\ \A c \in Consumers : route[c] # Gone /\ ends' = MaxEnds => route'[c] # Gone
               /\ \A k \in Codes : ConsumerOf[k] \in Consumers
    BY <1>k, CodeKept
  <1>2. CASE ~LinkSteps /\ UNCHANGED <<hand, stage>> /\ ~StopInbound /\ ~AckInbound
    <2>1. ASSUME NEW k \in Codes, spentBy'[k] # {}, code'[k] = "fresh"
          PROVE  \E h \in unacked' : Unfinished(k, h)'
      <3>1. PICK h \in unacked : Unfinished(k, h)  BY <1>2, <1>k, <1>u, <2>1
      <3>2. "crash" \in met' => route'[ConsumerOf[k]] # Gone
        BY <1>0, <1>2, <1>k, <3>1 DEF Unfinished, CodeCond
      <3>3. h \in unacked' /\ \A i \in unacked' : i \in unacked \/ i > h
        <4>1. CASE ReadInbound
          <5>1. h <= given /\ given \in Nat /\ h \in Nat
            BY <1>0, <1>c DEF PathOK, GroupOK, StreamOK
          <5> QED BY <4>1, <5>1 DEF ReadInbound, Unread
        <4>2. CASE \E i \in toHandle : TakeUp(i, FirstStage(UpdateOf(i)))
          BY <4>2 DEF TakeUp, groupVars
        <4> QED BY <1>0, <1>2, <4>1, <4>2, PathFrame
      <3>4. \A i \in unacked' : h <= i \/ i \in unacked
        BY <1>c, <1>0, <3>3, PathNext DEF PathOK, GroupOK, StreamOK
      <3>5. Unfinished(k, h)'
        <4>1. UpdateOf(h)' = UpdateOf(h)  BY <1>c
        <4>2. spentBy'[k] = spentBy[k]  BY <1>2, <1>k
        <4>3. \/ hand' = h /\ stage' # "ack"
              \/ hand' = 0 /\ "crash" \in met' /\ \A i \in unacked' : h <= i
          BY <1>0, <1>2, <3>1, <3>4 DEF Unfinished
        <4> QED BY <3>1, <3>2, <3>3, <4>1, <4>2, <4>3 DEF Unfinished
      <3> QED BY <3>3, <3>5
    <2>2. CASE hand # 0 /\ stage \in LinkHand
      <3>1. InHand' = InHand /\ Who' = Who /\ Code \in Codes /\ Target \in Consumers
        BY <1>0, <1>2, <2>2, InHandType DEF StageFits
      <3>2. Code' = Code /\ Target' = Target  BY <3>1 DEF Code, Target
      <3>3. stage \in LinkHand \ {"link.code"} => spentBy[Code] \subseteq {Who}
        BY <1>0 DEF CodeInv
      <3>4. stage \in {"link.old", "link.web", "link.put", "link.answer"} /\ ends = MaxEnds =>
              route[Target] # Gone
        BY <1>0 DEF CodeInv
      <3>5. stage \in {"link.code", "link.route", "link.old", "link.web"} /\ "crash" \notin met
              /\ code[Code] = "fresh" => spentBy[Code] = {}
        BY <1>0 DEF CodeInv
      <3>6. spentBy'[Code'] = spentBy[Code]  BY <1>2, <1>k, <3>2
      <3>7. stage' \in {"link.old", "link.web", "link.put", "link.answer"} /\ ends' = MaxEnds =>
              route'[Target'] # Gone
        BY <1>0, <1>2, <1>k, <3>1, <3>2, <3>4
      <3>8. stage' \in {"link.code", "link.route", "link.old", "link.web"}
              /\ "crash" \notin met' /\ code'[Code'] = "fresh" => spentBy'[Code'] = {}
        BY <1>0, <1>2, <1>k, <3>1, <3>2, <3>5, <3>6
      <3> QED BY <1>2, <1>k, <1>s, <2>1, <3>1, <3>3, <3>6, <3>7, <3>8
    <2>3. CASE stage \notin LinkHand
      BY <1>2, <1>k, <1>s, <2>1, <2>3 DEF LinkHand
    <2> QED BY <1>0, <2>2, <2>3 DEF LinkHand
  <1>3. ASSUME NEW i \in toHandle, TakeUp(i, FirstStage(UpdateOf(i))), ~LinkSteps,
               UNCHANGED linkVars, stage' = FirstStage(UpdateOf(i)), UpdateOf(i) \in Updates
        PROVE  /\ \A k \in Codes : spentBy'[k] # {} /\ code'[k] = "fresh" =>
                    "crash" \in met /\ \E h \in unacked' : Unfinished(k, h)'
               /\ stage' \notin LinkHand \ {"link.code"}
    <2>1. hand = 0 /\ hand' = i /\ i \in unacked /\ unacked' = unacked /\ met' = met
          /\ \A j \in toHandle : i <= j
      BY <1>0, <1>3 DEF TakeUp, groupVars, troubleVars, PathOK, GroupOK
    <2>2. stage' \notin LinkHand \ {"link.code"} /\ stage' # "ack"
      BY <1>3 DEF FirstStage, UpdateKinds, LinkHand
    <2>3. ASSUME NEW k \in Codes, spentBy'[k] # {}, code'[k] = "fresh"
          PROVE  "crash" \in met /\ \E h \in unacked' : Unfinished(k, h)'
      <3>1. PICK h \in unacked : Unfinished(k, h)  BY <1>3, <1>u, <2>3 DEF linkVars
      <3>2. "crash" \in met /\ \A j \in unacked : h <= j
        BY <1>0, <1>c, <2>1, <3>1 DEF Unfinished, PathOK, GroupOK
      <3>3. unacked = toHandle
        BY <1>0, <2>1, <3>2 DEF OneByOne, Taken, CodeCond
      <3>4. h = i  BY <1>c, <2>1, <3>1, <3>2, <3>3
      <3>5. Unfinished(k, h)'
        BY <1>3, <1>c, <2>1, <2>2, <3>1, <3>4 DEF Unfinished, linkVars
      <3> QED BY <2>1, <3>1, <3>2, <3>5
    <2> QED BY <2>2, <2>3
  <1>4. CASE AckInbound /\ stage' = "idle" /\ UNCHANGED linkVars
    <2>1. hand # 0 /\ stage = "ack"  BY <1>0, <1>4 DEF AckInbound
    <2>2. ASSUME NEW k \in Codes, spentBy[k] # {}, code[k] = "fresh" PROVE FALSE
      BY <1>0, <2>1, <2>2, OnlyInHand
    <2> QED BY <1>4, <1>s, <2>2 DEF linkVars, LinkHand
  <1>5. CASE StopInbound /\ stage' = "idle" /\ UNCHANGED linkVars
    <2>1. /\ unacked' = unacked /\ hand' = 0 /\ "crash" \in met' /\ ends = MaxEnds
          /\ met \cap {"read", "ack"} = {}
      BY <1>0, <1>5 DEF StopInbound, Trouble, CodeCond, groupVars, linkVars
    <2>2. ASSUME NEW k \in Codes, spentBy[k] # {}, code[k] = "fresh"
          PROVE  \E h \in unacked' : Unfinished(k, h)'
      <3>1. PICK h \in unacked : Unfinished(k, h)  BY <1>u, <2>2
      <3>2. \A i \in unacked : h <= i
        <4>1. CASE hand = h
          <5>1. h # 0 /\ h \in Nat /\ \A i \in unacked : i \in Nat  BY <1>0, <1>c DEF PathOK, GroupOK
          <5>2. unacked = toHandle \cup {hand} /\ \A i \in toHandle : hand < i
            BY <2>1, <4>1, <5>1 DEF OneByOne, Taken
          <5> QED BY <4>1, <5>1, <5>2
        <4> QED BY <3>1, <4>1 DEF Unfinished
      <3>3. route[ConsumerOf[k]] # Gone
        <4>1. CASE "crash" \in met  BY <3>1, <4>1 DEF Unfinished
        <4>2. CASE "crash" \notin met
          <5>1. hand = h /\ hand # 0  BY <3>1, <4>2, <1>0, <1>c DEF Unfinished, PathOK, GroupOK
          <5>2. InHand.kind = "link" /\ Code = k /\ Target = ConsumerOf[k] /\ stage # "ack"
            BY <1>0, <2>2, <5>1, OnlyInHand
          <5>3. stage \in LinkHand
            <6>1. InHand.kind \notin {"unlink", "ask", "press"}  BY <5>2
            <6>2. stage \notin UnlinkHand \cup AskHand \cup PollStages
              BY <1>0, <6>1 DEF StageFits
            <6> QED BY <1>0, <5>1, <5>2, <6>2, AllStages DEF PathOK, HandOK
          <5>4. stage \in {"link.put", "link.answer"}
            BY <1>0, <2>2, <4>2, <5>2, <5>3 DEF CodeInv, LinkHand
          <5> QED BY <1>0, <2>1, <5>2, <5>4 DEF CodeInv
        <4> QED BY <4>1, <4>2
      <3>4. Unfinished(k, h)'
        BY <1>5, <1>c, <2>1, <3>1, <3>2, <3>3 DEF Unfinished, linkVars
      <3> QED BY <2>1, <3>1, <3>4
    <2> QED BY <1>5, <1>s, <2>2 DEF linkVars, LinkHand
  <1>6. CASE PressSteps /\ stage' \in PollStages \cup {"ack"} /\ UNCHANGED linkVars
             /\ stage \in PollStages /\ hand # 0
    <2>1. InHand.kind = "press"  BY <1>0, <1>6 DEF StageFits
    <2>2. ASSUME NEW k \in Codes, spentBy[k] # {}, code[k] = "fresh" PROVE FALSE
      BY <1>0, <1>6, <2>1, <2>2, OnlyInHand
    <2> QED BY <1>6, <1>s, <2>2 DEF linkVars, LinkHand, PollStages
  <1>7. ASSUME NEW i \in toHandle, TakeUp(i, FirstStage(UpdateOf(i))), ~LinkSteps,
               UNCHANGED linkVars, stage' = FirstStage(UpdateOf(i)), UpdateOf(i) \in Updates
        PROVE  /\ \A k \in Codes : spentBy'[k] # {} /\ code'[k] = "fresh" =>
                    \E h \in unacked' : Unfinished(k, h)'
               /\ stage' \in {"link.code", "link.route", "link.old", "link.web"}
                    /\ "crash" \notin met' /\ code'[Code'] = "fresh" => spentBy'[Code'] = {}
               /\ stage' \notin LinkHand \ {"link.code"} /\ spentBy' = spentBy
    <2>1. stage' = "link.code" => Code' \in Codes
      <3>1. Code' = UpdateOf(i).code
        BY <1>7, <1>0, <1>c DEF Code, InHand, TakeUp, UpdateOf, telegramVars
      <3> QED BY <1>7, <3>1 DEF FirstStage, UpdateKinds
    <2>2. stage' \in LinkHand => stage' = "link.code"  BY <1>3, <1>7
    <2> QED BY <1>0, <1>3, <1>7, <2>1, <2>2 DEF linkVars, LinkHand
  <1>8. CASE UNCHANGED <<hand, stage>>
    <2>1. CASE hand = 0
      <3>1. ~AckInbound  BY <1>0, <2>1 DEF AckInbound
      <3>2. CASE StopInbound
        <4>1. running' # running  BY <3>2 DEF StopInbound
        <4>2. UNCHANGED linkVars  BY <4>1, LinkFrame, LinkHandler DEF inboundVars
        <4> QED BY <1>5, <3>2, <4>2 DEF StopInbound
      <3> QED BY <1>1, <1>2, <1>8, <3>1, <3>2
    <2>2. CASE hand # 0
      <3>1. ~AckInbound /\ ~StopInbound  BY <1>8, <2>2 DEF AckInbound, StopInbound
      <3> QED BY <1>1, <1>2, <1>8, <3>1
    <2> QED BY <2>1, <2>2
  <1>9. ASSUME NEW i \in toHandle, TakeUp(i, FirstStage(UpdateOf(i))), UNCHANGED linkVars,
               stage' = FirstStage(UpdateOf(i)), UpdateOf(i) \in Updates
        PROVE  /\ \A k \in Codes : spentBy'[k] # {} /\ code'[k] = "fresh" =>
                    \E h \in unacked' : Unfinished(k, h)'
               /\ stage' \in {"link.code", "link.route", "link.old", "link.web"}
                    /\ "crash" \notin met' /\ code'[Code'] = "fresh" => spentBy'[Code'] = {}
               /\ stage' \notin LinkHand \ {"link.code"} /\ spentBy' = spentBy
    <2>1. ~LinkSteps
      <3>1. hand = 0  BY <1>9 DEF TakeUp
      <3> QED BY <3>1, LinkHandler
    <2> QED BY <1>7, <1>9, <2>1
  <1> QED BY <1>1, <1>4, <1>5, <1>6, <1>8, <1>9, <1>s, StageFrame DEF LinkHand

(* A code links one account, also when two people sent it and the loop     *)
(* died between the steps of link and took the update up again.            *)
THEOREM OneAccountPerCode == Spec => []CodeLinksOne
  <1> DEFINE IInv == TypeInv /\ OneByOne /\ Unspent /\ CodeInv
  <1>1. IInv => CodeLinksOne
    <2> SUFFICES ASSUME IInv, CodeCond, NEW k \in Codes PROVE Cardinality(spentBy[k]) <= 1
      BY DEF CodeLinksOne, CodeCond
    <2>1. \A a, b \in spentBy[k] : a = b  BY DEF CodeInv
    <2>2. CASE spentBy[k] = {}  BY <2>2, FS_EmptySet
    <2>3. CASE spentBy[k] # {}
      <3>1. PICK a \in spentBy[k] : spentBy[k] = {a}  BY <2>1, <2>3
      <3>2. Cardinality({a}) = 1  BY FS_Singleton
      <3> QED BY <3>1, <3>2
    <2> QED BY <2>2, <2>3
  <1>2. IInv /\ [Next]_vars => IInv'
    <2> SUFFICES ASSUME IInv, [Next]_vars PROVE IInv'
      OBVIOUS
    <2>1. PathOK  BY DEF TypeInv
    <2> QED BY <2>1, TypeNext, OneByOneNext, UnspentNext, CodeNext
  <1>3. Init => IInv
    BY TypeInit, OneByOneInit, CodeInit
  <1> QED BY <1>1, <1>2, <1>3, PTL DEF Spec

=============================================================================
