----------------------------- MODULE ChatProofs -----------------------------
(* The operators' chat, for every number of updates, alerts, requests and  *)
(* failures: no alert is answered more often than it was raised, and no    *)
(* review gets past a guard that did not pass it.                          *)
EXTENDS CommsChat, TLAPS

-----------------------------------------------------------------------------
(* Alerts. An alert is owed an answer while the pointer names it, and      *)
(* while a word is being resolved against it. Until the pointer is deleted *)
(* the two are one and the same debt: what is resolved was read from it.   *)
Owed(a) ==
  IF stage = "callback"
  THEN (IF resolving = a THEN 1 ELSE 0) + (IF pointer = a THEN 1 ELSE 0)
  ELSE IF resolving = a \/ pointer = a THEN 1 ELSE 0

Resolving == {"context", "clear", "callback"}

(* Entries are numbered from 1, so that a taken one is in hand.            *)
Numbered == stream \in Seq(Nat) /\ given \in Nat /\ 0 \notin unacked /\ 0 \notin toHandle

entryVars == <<stream, groupVars, toHandle, scene>>

PointerInv ==
  /\ Numbered /\ scene \in Scenes
  /\ pointer \in Alerts \cup {NoAlert} /\ resolving \in Alerts \cup {NoAlert}
  /\ tracked \in [Alerts -> Nat] /\ answered \in [Alerts -> Nat]
  /\ hand = 0 => stage = "idle"
  /\ resolving # NoAlert => stage \in Resolving
  /\ \A a \in Alerts : answered[a] + Owed(a) <= tracked[a]

LEMMA PointerInit == ChatInit => PointerInv
  <1> SUFFICES ASSUME ChatInit PROVE PointerInv
    OBVIOUS
  <1>1. Numbered
    <2>1. scene.messages \in Nat
      BY SceneAssumption, InboundAssumption DEF SceneAssumption, InboundAssumption, ChatInit
    <2> QED BY <2>1 DEF ChatInit, LoopStarts, Numbered
  <1> QED BY <1>1, ContextAssumption
          DEF ContextAssumption, ChatInit, ContextInit, LoopStarts, PointerInv, Owed

(* A handler that is not resolving a word may go where it likes.           *)
LEMMA PointerAdvance ==
  ASSUME PointerInv, UNCHANGED <<pointer, resolving, tracked, answered, hand, entryVars>>,
         stage \notin Resolving \cup {"idle"}
  PROVE  PointerInv'
  BY ContextAssumption
  DEF ContextAssumption, PointerInv, Owed, Resolving, Numbered, entryVars, groupVars

(* What happens beside the handler.                                        *)
LEMMA PointerBeside ==
  ASSUME PointerInv, UNCHANGED <<pointer, resolving, tracked, answered, hand, stage, entryVars>>
  PROVE  PointerInv'
  BY DEF PointerInv, Owed, Numbered, entryVars, groupVars

LEMMA PointerArrives == PointerInv /\ (ChatArrives \/ ChatAck \/ ChatStop) => PointerInv'
  <1> SUFFICES ASSUME PointerInv, ChatArrives \/ ChatAck \/ ChatStop PROVE PointerInv'
    OBVIOUS
  <1> USE ContextAssumption
      DEF ContextAssumption, PointerInv, Owed, Resolving, Numbered, chatOnlyVars
  <1>1. ASSUME NEW i \in toHandle, TakeUp(i, "touch"), Elsewhere PROVE PointerInv'
    BY <1>1 DEF TakeUp, groupVars, Elsewhere, contextVars
  <1>2. CASE ReadInbound /\ Elsewhere
    <2>1. UNCHANGED <<pointer, resolving, tracked, answered, hand, stage, stream>>
      BY <1>2 DEF ReadInbound, handVars, Elsewhere, contextVars
    <2>2. 0 \notin Unread /\ Len(stream) \in Nat  BY DEF Unread
    <2>3. given' \in Nat /\ 0 \notin toHandle' /\ 0 \notin unacked'
      BY <1>2, <2>2 DEF ReadInbound
    <2> QED BY <1>2, <2>1, <2>3 DEF Elsewhere
  <1>3. CASE StartInbound /\ Elsewhere
    BY <1>3 DEF StartInbound, handVars, groupVars, Elsewhere, contextVars
  <1>4. CASE ChatAck
    BY <1>4 DEF ChatAck, AckInbound, contextVars
  <1>5. CASE ChatStop
    BY <1>5 DEF ChatStop, StopInbound, groupVars
  <1> QED BY <1>1, <1>2, <1>3, <1>4, <1>5 DEF ChatArrives

(* The handlers that leave alerts alone.                                   *)
LEMMA PointerHandlers ==
  ASSUME PointerInv,
         \/ RouteCommand \/ RouteUnresolved \/ Reply \/ AskForEngine \/ DispatchWorkflow
         \/ ConversationSteps \/ AskSteps
  PROVE  PointerInv'
  <1> USE DEF Advance, Elsewhere, contextVars, chatOnlyVars
  <1>1. UNCHANGED <<contextVars, entryVars, hand>> /\ stage \notin Resolving \cup {"idle"}
    <2>1. CASE RouteCommand  BY <2>1 DEF RouteCommand, entryVars, Resolving
    <2>2. CASE RouteUnresolved  BY <2>2 DEF RouteUnresolved, entryVars, Resolving
    <2>3. CASE Reply  BY <2>3 DEF Reply, entryVars, Resolving
    <2>4. CASE AskForEngine  BY <2>4 DEF AskForEngine, entryVars, Resolving
    <2>5. CASE DispatchWorkflow  BY <2>5 DEF DispatchWorkflow, entryVars, Resolving
    <2>6. CASE ConversationSteps
      <3>1. Touch("route") \/ CreateSession("route") \/ SwitchPipeline \/ RecordMessage
        BY <2>6 DEF ConversationSteps, SessionSteps
      <3>2. UNCHANGED <<contextVars, scene>>  BY <2>6 DEF ConversationSteps
      <3> QED BY <3>1, <3>2
              DEF Touch, CreateSession, SwitchPipeline, RecordMessage, Write, entryVars, Resolving
    <2>7. CASE AskSteps
      <3>1. \/ Indicator(FirstOf) \/ StageAnswered \/ StageFails \/ GuardVerdict \/ TellResult
            \/ AskDirect \/ AskStage
        BY <2>7 DEF AskSteps
      <3>2. UNCHANGED <<contextVars, scene>>  BY <2>7 DEF AskSteps
      <3> QED BY <3>1, <3>2
              DEF Indicator, StageAnswered, StageFails, GuardVerdict, TellResult, AskDirect,
                  AskStage, Ask, entryVars, Resolving
    <2> QED BY <2>1, <2>2, <2>3, <2>4, <2>5, <2>6, <2>7
  <1> QED BY <1>1, PointerAdvance

(* The alerts' own steps. Deleting the pointer, whichever alert it names   *)
(* by then, is what lets the answer go out.                                *)
LEMMA PointerResolves == PointerInv /\ (Reset \/ ContextSteps) => PointerInv'
  <1> SUFFICES ASSUME PointerInv, Reset \/ ContextSteps PROVE PointerInv'
    OBVIOUS
  <1> USE ContextAssumption
      DEF ContextAssumption, PointerInv, Owed, Resolving, Numbered, groupVars, Advance
  <1>0. UNCHANGED scene
    BY DEF Reset, ContextSteps, chatOnlyVars
  <1>1. CASE Reset
    BY <1>0, <1>1 DEF Reset, ResetSession, Write
  <1>2. CASE ReadPointer("unresolved")
    <2>1. resolving = NoAlert /\ hand # 0 /\ stage # "callback"
      BY <1>2 DEF ReadPointer
    <2>2. UNCHANGED <<stream, given, unacked, toHandle, hand, pointer, tracked, answered>>
      BY <1>2 DEF ReadPointer
    <2>3. stage' # "callback" /\ resolving' \in {resolving, pointer}
      BY <1>2 DEF ReadPointer
    <2>4. resolving' # NoAlert => stage' = "context"
      BY <1>2, <2>1 DEF ReadPointer
    <2>5. \A a \in Alerts : Owed(a)' <= Owed(a)
      BY <2>1, <2>2, <2>3
    <2> QED BY <1>0, <2>1, <2>2, <2>3, <2>4, <2>5
  <1>3. CASE ReadContext("unresolved")  BY <1>0, <1>3 DEF ReadContext
  <1>4. CASE ClearPointer  BY <1>0, <1>4, SMTT(20) DEF ClearPointer
  <1>5. CASE TellComponent
    <2>1. UNCHANGED <<stream, given, unacked, toHandle, hand, pointer, tracked>>
      BY <1>5 DEF TellComponent
    <2>2. stage = "callback" /\ stage' = "ack" /\ resolving' = NoAlert
      BY <1>5 DEF TellComponent
    <2>3. answered' \in {answered, [answered EXCEPT ![resolving] = @ + 1]}
      BY <1>5 DEF TellComponent
    <2>4. ASSUME NEW a \in Alerts PROVE answered'[a] + Owed(a)' <= tracked'[a]
      <3>1. CASE resolving = a
        BY <2>1, <2>2, <2>3, <3>1
      <3>2. CASE resolving # a
        BY <2>1, <2>2, <2>3, <3>2
      <3> QED BY <3>1, <3>2
    <2>5. answered' \in [Alerts -> Nat]
      <3>1. \A a \in Alerts : answered'[a] \in Nat
        BY <2>3
      <3> QED BY <2>3, <3>1
    <2> QED BY <1>0, <2>1, <2>2, <2>4, <2>5
  <1> QED BY <1>1, <1>2, <1>3, <1>4, <1>5 DEF ContextSteps, ResolveSteps

LEMMA PointerWorld == PointerInv /\ (Pollers \/ ChatWorld) => PointerInv'
  <1> SUFFICES ASSUME PointerInv, Pollers \/ ChatWorld PROVE PointerInv'
    OBVIOUS
  <1>1. ASSUME NEW a \in Alerts, Track(a), UNCHANGED scene PROVE PointerInv'
    <2> USE DEF PointerInv, Numbered
    <2>1. UNCHANGED <<stream, given, unacked, toHandle, hand, stage, resolving, answered>>
      BY <1>1 DEF Track, inboundVars, handVars, groupVars
    <2>2. tracked' = [tracked EXCEPT ![a] = @ + 1] /\ pointer' \in {a, pointer}
      BY <1>1 DEF Track, Tracks
    <2>3. ASSUME NEW b \in Alerts PROVE answered'[b] + Owed(b)' <= tracked'[b]
      <3>1. CASE b = a
        BY <2>1, <2>2, <3>1 DEF Owed
      <3>2. CASE b # a
        BY <2>1, <2>2, <3>2, SMTT(20) DEF Owed
      <3> QED BY <3>1, <3>2
    <2> QED BY <1>1, <2>1, <2>2, <2>3
  <1>2. ASSUME NEW a \in Alerts, ContextExpires(a), UNCHANGED scene PROVE PointerInv'
    <2> USE DEF PointerInv, Numbered
    <2>1. UNCHANGED <<stream, given, unacked, toHandle, hand, stage, resolving, tracked,
                      answered>>
      BY <1>2 DEF ContextExpires, inboundVars, handVars, groupVars
    <2>2. pointer' \in {pointer, NoAlert}
      BY <1>2 DEF ContextExpires
    <2>3. ASSUME NEW b \in Alerts PROVE Owed(b)' <= Owed(b)
      BY <2>1, <2>2, ContextAssumption, SMTT(20) DEF Owed, ContextAssumption
    <2>4. ASSUME NEW b \in Alerts PROVE answered'[b] + Owed(b)' <= tracked'[b]
      <3>1. Owed(b) \in Nat /\ Owed(b)' \in Nat
        BY DEF Owed
      <3> QED BY <2>1, <2>3, <3>1
    <2> QED BY <1>2, <2>1, <2>2, <2>4
  <1>3. CASE Pollers
    <2>1. UNCHANGED <<contextVars, entryVars, handVars>>
      BY <1>3 DEF Pollers, PollerSteps, PollOnce, CheckDeadline, DeliverAnswer, LogAnswer,
                  PollerGoes, entryVars, chatOnlyVars
    <2> QED BY <2>1, PointerBeside DEF contextVars, handVars
  <1>4. CASE UNCHANGED <<inboundVars, contextVars, scene>>
    BY <1>4, PointerBeside DEF inboundVars, contextVars, entryVars, handVars
  <1>5. \A a \in scene.alerts : a \in Alerts
    BY SceneAssumption DEF PointerInv, SceneAssumption
  <1>6. CASE ChatWorld
    <2>1. CASE \E a \in scene.alerts : Track(a) \/ ContextExpires(a)
      BY <2>1, <1>1, <1>2, <1>5, <1>6 DEF ChatWorld, Track, ContextExpires, chatOnlyVars
    <2>2. CASE UNCHANGED <<inboundVars, contextVars, scene>>
      BY <2>2, <1>4
    <2> QED BY <1>6, <2>1, <2>2 DEF ChatWorld, Passes, Serve, OtherEntry, chatOnlyVars
  <1> QED BY <1>3, <1>6

LEMMA PointerStep == PointerInv /\ [ChatNext]_chatVars => PointerInv'
  <1>1. ASSUME PointerInv, UNCHANGED chatVars PROVE PointerInv'
    BY <1>1, PointerBeside DEF chatVars, inboundVars, contextVars, chatOnlyVars, entryVars, handVars
  <1> QED BY <1>1, PointerArrives, PointerHandlers, PointerResolves, PointerWorld DEF ChatNext

(* However often a word is sent, or its entry is handled again after a     *)
(* crash, resolve_reply lets a component hear one answer at most for each  *)
(* time its alert was tracked.                                             *)
THEOREM AlertsAnsweredOnce == ChatSpec => []AnsweredOnce
  <1>1. PointerInv => AnsweredOnce
    <2> SUFFICES ASSUME PointerInv, NEW a \in Alerts PROVE answered[a] <= tracked[a]
      BY DEF AnsweredOnce
    <2>1. Owed(a) \in Nat  BY DEF Owed
    <2> QED BY <2>1 DEF PointerInv
  <1> QED BY <1>1, PointerInit, PointerStep, PTL DEF ChatSpec

-----------------------------------------------------------------------------
(* The guard. Entries are only added to the unified stream, so what was    *)
(* once asked about, answered or said stays so; what is left to show is    *)
(* that each stage of the chain is entered with it.                        *)
Entries == [kind : {"request", "answer", "other"}, id : Nat, text : Texts]

(* The guard was asked about its review.                                   *)
Asked(g) == \E i \in Positions("answer", g - 1), j \in Positions("request", g) : i < j

GuardStages == {"guard", "guard.wait", "tell.review"}

guardVars == <<unified, requests, passed, scene>>

GuardInv ==
  /\ unified \in Seq(Entries) /\ requests \in Nat /\ scene \in Scenes
  /\ stage = "guard" => Answered(requests)
  /\ stage = "guard.wait" => Asked(requests)
  /\ stage = "tell.review" => Asked(requests) /\ Says(requests, "safe")
  /\ \A g \in passed : Asked(g) /\ Says(g, "safe")

LEMMA GuardInit == ChatInit => GuardInv
  <1> SUFFICES ASSUME ChatInit PROVE GuardInv
    OBVIOUS
  <1>1. stage = "idle"  BY DEF ChatInit, LoopStarts
  <1> QED BY <1>1 DEF ChatInit, InferenceInit, GuardInv

(* A step outside the chain's last stages.                                 *)
LEMMA GuardFrame ==
  ASSUME GuardInv, UNCHANGED guardVars, stage' = stage \/ stage' \notin GuardStages
  PROVE  GuardInv'
  BY DEF GuardInv, GuardStages, guardVars, Asked, Says, Answered, Positions

(* An entry added at the end moves none.                                   *)
LEMMA AppendKeeps ==
  ASSUME NEW e \in Entries, unified \in Seq(Entries), unified' = Append(unified, e)
  PROVE  /\ unified' \in Seq(Entries)
         /\ \A g : (Answered(g) => Answered(g)') /\ (Says(g, "safe") => Says(g, "safe")')
         /\ \A g : Asked(g) => Asked(g)'
  <1>1. unified' \in Seq(Entries) /\ Len(unified') = Len(unified) + 1
    OBVIOUS
  <1>2. \A i \in DOMAIN unified : i \in DOMAIN unified' /\ unified'[i] = unified[i]
    OBVIOUS
  <1>3. \A k, g : Positions(k, g) \subseteq Positions(k, g)'
    BY <1>2 DEF Positions
  <1>4. \A g : Asked(g) => Asked(g)'
    BY <1>3 DEF Asked
  <1>5. \A g : Answered(g) => Answered(g)'
    BY <1>3 DEF Answered
  <1>6. \A g : Says(g, "safe") => Says(g, "safe")'
    BY <1>2, <1>3 DEF Says, Positions
  <1> QED BY <1>1, <1>4, <1>5, <1>6

(* An entry is added while the chain stands still, or goes elsewhere.      *)
LEMMA GuardAppend ==
  ASSUME GuardInv, NEW e \in Entries, unified' = Append(unified, e),
         UNCHANGED <<passed, scene>>, requests' \in Nat,
         \/ stage' = stage /\ requests' = requests
         \/ stage' \notin GuardStages
  PROVE  GuardInv'
  <1>1. unified \in Seq(Entries)  BY DEF GuardInv
  <1> QED BY <1>1, AppendKeeps DEF GuardInv, GuardStages

(* A stage's request. The guard's names the answer it was given.           *)
LEMMA GuardAsk == GuardInv /\ AskStage /\ UNCHANGED scene => GuardInv'
  <1> SUFFICES ASSUME GuardInv, AskStage, UNCHANGED scene PROVE GuardInv'
    OBVIOUS
  <1>1. requests \in Nat /\ requests' = requests + 1 /\ passed' = passed
    BY DEF GuardInv, AskStage, Ask
  <1>2. Request(requests') \in Entries
    BY <1>1 DEF Request, Entries, Texts
  <1>3. CASE unified' = unified /\ stage' = "tell.error"
    <2>1. \A g : (Asked(g)' <=> Asked(g)) /\ (Says(g, "safe")' <=> Says(g, "safe"))
      BY <1>3 DEF Asked, Says, Positions
    <2> QED BY <1>1, <1>3, <2>1 DEF GuardInv
  <1>4. CASE unified' = Append(unified, Request(requests'))
             /\ stage' \in {"draft.wait", "review.wait"}
    <2>1. stage' \notin GuardStages  BY <1>4 DEF GuardStages
    <2> QED BY <1>1, <1>2, <1>4, <2>1, GuardAppend
  <1>5. CASE stage = "guard" /\ unified' = Append(unified, Request(requests'))
             /\ stage' = "guard.wait"
    <2>1. unified \in Seq(Entries)  BY DEF GuardInv
    <2>2. PICK i \in Positions("answer", requests) : TRUE
      BY <1>5 DEF GuardInv, Answered
    <2>3. i \in Nat /\ i <= Len(unified)
      BY <2>1, <2>2 DEF Positions
    <2>4. /\ i \in DOMAIN unified' /\ unified'[i] = unified[i]
          /\ unified[i].kind = "answer" /\ unified[i].id = requests
      BY <1>5, <2>1, <2>2 DEF Positions
    <2>5. i \in Positions("answer", requests - 1)'
      BY <1>1, <2>4 DEF Positions
    <2>6. Len(unified) + 1 \in DOMAIN unified' /\ unified'[Len(unified) + 1] = Request(requests')
      BY <1>2, <1>5, <2>1
    <2>7. Len(unified) + 1 \in Positions("request", requests)'
      BY <2>6 DEF Positions, Request
    <2>8. Asked(requests)'
      BY <2>1, <2>3, <2>5, <2>7 DEF Asked
    <2> QED BY <1>1, <1>2, <1>5, <2>1, <2>8, AppendKeeps DEF GuardInv
  <1> QED BY <1>3, <1>4, <1>5 DEF AskStage, Ask, Advance

(* The rest of the chain: the guard is entered on an answer, and shown to  *)
(* have passed on its own.                                                 *)
LEMMA GuardChain ==
  ASSUME GuardInv, UNCHANGED scene,
         StageAnswered \/ GuardVerdict \/ TellResult \/ StageFails \/ Indicator(FirstOf)
  PROVE  GuardInv'
  <1>1. CASE StageAnswered
    <2>1. UNCHANGED guardVars /\ (stage' = "guard" => Answered(requests))
      BY <1>1 DEF StageAnswered, Sees, Answered, inferenceVars, guardVars
    <2>2. stage' \in {"review", "guard"}
      BY <1>1 DEF StageAnswered, Advance
    <2> QED BY <2>1, <2>2 DEF GuardInv, guardVars, Asked, Says, Answered, Positions
  <1>2. CASE GuardVerdict
    <2>1. UNCHANGED guardVars /\ stage = "guard.wait"
      BY <1>2 DEF GuardVerdict, inferenceVars, guardVars, Advance
    <2>2. \/ stage' = "tell.review" /\ Says(requests, "safe")
          \/ stage' = "tell.filtered"
      BY <1>2 DEF GuardVerdict, Advance
    <2> QED BY <2>1, <2>2 DEF GuardInv, guardVars, Asked, Says, Answered, Positions
  <1>3. CASE TellResult
    <2>1. UNCHANGED <<unified, requests, scene>> /\ stage' = "record"
      BY <1>3 DEF TellResult, Advance
    <2>2. \/ passed' = passed
          \/ stage = "tell.review" /\ passed' = passed \cup {requests}
      BY <1>3 DEF TellResult, Advance
    <2> QED BY <2>1, <2>2 DEF GuardInv, Asked, Says, Answered, Positions
  <1>4. CASE StageFails
    BY <1>4, GuardFrame DEF StageFails, Advance, inferenceVars, guardVars, GuardStages
  <1>5. CASE Indicator(FirstOf)
    <2>1. FirstOf \in {"draft", "request"}  BY DEF FirstOf
    <2>2. UNCHANGED guardVars /\ stage' \in {"draft", "request", "request.bare"}
      BY <1>5, <2>1 DEF Indicator, Advance, inferenceVars, guardVars
    <2> QED BY <2>2, GuardFrame DEF GuardStages
  <1> QED BY <1>1, <1>2, <1>3, <1>4, <1>5

LEMMA GuardDirect == GuardInv /\ AskDirect /\ UNCHANGED scene => GuardInv'
  <1> SUFFICES ASSUME GuardInv, AskDirect, UNCHANGED scene PROVE GuardInv'
    OBVIOUS
  <1>1. /\ requests \in Nat /\ requests' = requests + 1 /\ passed' = passed
        /\ stage' = "record" /\ unified' \in {unified, Append(unified, Request(requests'))}
    BY DEF GuardInv, AskDirect, Ask, Advance
  <1>2. Request(requests') \in Entries
    BY <1>1 DEF Request, Entries, Texts
  <1>3. CASE unified' = unified
    <2>1. \A g : (Asked(g)' <=> Asked(g)) /\ (Says(g, "safe")' <=> Says(g, "safe"))
      BY <1>3 DEF Asked, Says, Positions
    <2> QED BY <1>1, <1>3, <2>1 DEF GuardInv
  <1>4. CASE unified' = Append(unified, Request(requests'))
    BY <1>1, <1>2, <1>4, GuardAppend DEF GuardStages
  <1> QED BY <1>1, <1>3, <1>4

LEMMA GuardWorld == GuardInv /\ (ChatWorld \/ Pollers) => GuardInv'
  <1> SUFFICES ASSUME GuardInv, ChatWorld \/ Pollers PROVE GuardInv'
    OBVIOUS
  <1>1. CASE Pollers
    BY <1>1, GuardFrame
    DEF Pollers, PollerSteps, PollOnce, CheckDeadline, DeliverAnswer, LogAnswer, PollerGoes,
        chatOnlyVars, guardVars, handVars
  <1>2. CASE UNCHANGED <<guardVars, stage>>
    BY <1>2, GuardFrame
  <1>3. ASSUME NEW r \in RequestIds, NEW t \in scene.texts, Serve(r, t), UNCHANGED scene
        PROVE  GuardInv'
    <2>1. Answer(r, t) \in Entries
      BY SceneAssumption, InferenceAssumption
         DEF GuardInv, SceneAssumption, InferenceAssumption, RequestIds, Answer, Entries
    <2> QED BY <1>3, <2>1, GuardAppend DEF GuardInv, Serve, inboundVars, handVars
  <1>4. ASSUME OtherEntry, UNCHANGED scene PROVE GuardInv'
    <2>1. Other \in Entries  BY DEF Other, Entries, Texts
    <2> QED BY <1>4, <2>1, GuardAppend DEF GuardInv, OtherEntry, inboundVars, handVars
  <1>5. CASE ChatWorld
    <2>1. CASE UNCHANGED <<inboundVars, inferenceVars, scene>>
      BY <2>1, <1>2 DEF inboundVars, handVars, inferenceVars, guardVars
    <2> QED BY <1>3, <1>4, <1>5, <2>1 DEF ChatWorld, Track, ContextExpires, Passes, chatOnlyVars
  <1> QED BY <1>1, <1>5

(* The handlers outside the chain.                                         *)
LEMMA GuardHandlers ==
  ASSUME GuardInv,
         \/ ChatArrives \/ ChatAck \/ ChatStop \/ RouteCommand \/ RouteUnresolved \/ Reply \/ Reset
         \/ AskForEngine \/ DispatchWorkflow \/ ContextSteps \/ ConversationSteps
  PROVE  GuardInv'
  <1> USE DEF guardVars, inferenceVars, chatOnlyVars, GuardStages
  <1>1. CASE ChatArrives
    BY <1>1, GuardFrame DEF ChatArrives, ReadInbound, StartInbound, TakeUp, Elsewhere, handVars
  <1>2. CASE ChatAck
    BY <1>2, GuardFrame DEF ChatAck, AckInbound
  <1>3. CASE ChatStop
    BY <1>3, GuardFrame DEF ChatStop, StopInbound
  <1>4. CASE RouteCommand
    <2>1. (CASE InHand = "reset"       -> "reset"
             [] InHand = "pipeline"    -> "switch"
             [] InHand = "status"      -> "reply"
             [] InHand \in ReplyWords  -> "pointer"
             [] OTHER                  -> "indicator") \notin GuardStages
      BY Zenon DEF GuardStages
    <2>2. UNCHANGED guardVars /\ stage' \notin GuardStages
      BY <1>4, <2>1, Zenon DEF RouteCommand, Elsewhere, Advance
    <2> QED BY <2>2, GuardFrame
  <1>5. CASE RouteUnresolved
    BY <1>5, GuardFrame DEF RouteUnresolved, Elsewhere, Advance
  <1>6. CASE Reply
    BY <1>6, GuardFrame DEF Reply, Elsewhere, Advance
  <1>7. CASE Reset
    BY <1>7, GuardFrame DEF Reset, ResetSession, Write, Advance
  <1>8. CASE AskForEngine
    BY <1>8, GuardFrame DEF AskForEngine, Elsewhere, Advance
  <1>9. CASE DispatchWorkflow
    BY <1>9, GuardFrame DEF DispatchWorkflow, Advance
  <1>10. CASE ContextSteps
    BY <1>10, GuardFrame
    DEF ContextSteps, ResolveSteps, ReadPointer, ReadContext, ClearPointer, TellComponent, Advance
  <1>11. CASE ConversationSteps
    <2>1. UNCHANGED guardVars  BY <1>11 DEF ConversationSteps
    <2>2. stage' \in {"create", "route", "reply", "ack"}
      BY <1>11 DEF ConversationSteps, SessionSteps, Touch, CreateSession, SwitchPipeline,
                   RecordMessage, Write, Advance
    <2> QED BY <2>1, <2>2, GuardFrame
  <1> QED BY <1>1, <1>2, <1>3, <1>4, <1>5, <1>6, <1>7, <1>8, <1>9, <1>10, <1>11

LEMMA GuardStep == GuardInv /\ [ChatNext]_chatVars => GuardInv'
  <1>1. ASSUME GuardInv, UNCHANGED chatVars PROVE GuardInv'
    BY <1>1, GuardFrame
    DEF chatVars, inboundVars, inferenceVars, chatOnlyVars, guardVars, handVars
  <1>2. ASSUME GuardInv, AskSteps PROVE GuardInv'
    <2>1. UNCHANGED scene  BY <1>2 DEF AskSteps, chatOnlyVars
    <2> QED BY <1>2, <2>1, GuardChain, GuardDirect, GuardAsk DEF AskSteps
  <1> QED BY <1>1, <1>2, GuardWorld, GuardHandlers DEF ChatNext

(* No review is shown to the operator that the guard was not asked about   *)
(* after it was there, and did not call safe itself: whatever is late, or  *)
(* lost among the newest entries, or fails, in however many requests.      *)
THEOREM ReviewsAreGuarded == ChatSpec => []GuardHolds
  <1>1. GuardInv => GuardHolds
    BY DEF GuardInv, GuardHolds, Asked
  <1> QED BY <1>1, GuardInit, GuardStep, PTL DEF ChatSpec

-----------------------------------------------------------------------------
(* Time-outs. A poller that found nothing remembers how long the stream    *)
(* was: what is added later comes behind that, and what was there then lay *)
(* before the newest entries.                                              *)
NotSeen(r) == \A i \in Positions("answer", r) : i > looked[r] \/ i + Newest <= looked[r]

LookInv ==
  /\ unified \in Seq(Entries) /\ requests \in Nat /\ scene \in Scenes
  /\ pollers \in [RequestIds -> PollerStates] /\ looked \in [RequestIds -> Nat]
  /\ \A r \in RequestIds : looked[r] <= Len(unified)
  /\ "valkey" \notin met =>
       \A r \in RequestIds : pollers[r] \in {"looked", "timedout"} => NotSeen(r)

LEMMA LookInit == ChatInit => LookInv
  <1> SUFFICES ASSUME ChatInit PROVE LookInv
    OBVIOUS
  <1>1. /\ unified = << >> /\ requests = 0 /\ scene \in Scenes
        /\ pollers = [r \in RequestIds |-> "none"] /\ looked = [r \in RequestIds |-> 0]
    BY DEF ChatInit, InferenceInit
  <1>2. pollers \in [RequestIds -> PollerStates]  BY <1>1 DEF PollerStates
  <1> QED BY <1>1, <1>2 DEF LookInv

(* The stream keeps its entries or is given one more; the pollers are the  *)
(* same, or one of them starts.                                            *)
LEMMA LookFrame ==
  ASSUME LookInv, UNCHANGED <<looked, scene>>, requests' \in Nat, met \subseteq met',
         unified' = unified \/ \E e \in Entries : unified' = Append(unified, e),
         pollers' \in [RequestIds -> PollerStates],
         \A r \in RequestIds : pollers'[r] \in {"looked", "timedout"} => pollers'[r] = pollers[r]
  PROVE  LookInv'
  <1>1. /\ unified \in Seq(Entries) /\ unified' \in Seq(Entries) /\ Len(unified) <= Len(unified')
        /\ Len(unified) \in Nat /\ Len(unified') \in Nat
    <2>1. unified \in Seq(Entries)  BY DEF LookInv
    <2>2. CASE unified' = unified  BY <2>1, <2>2
    <2>3. CASE \E e \in Entries : unified' = Append(unified, e)
      <3>1. PICK e \in Entries : unified' = Append(unified, e)  BY <2>3
      <3> QED BY <2>1, <3>1
    <2> QED BY <2>2, <2>3
  <1>2. ASSUME NEW i \in DOMAIN unified'
        PROVE  (i \in DOMAIN unified /\ unified'[i] = unified[i]) \/ i > Len(unified)
    <2>1. CASE unified' = unified  BY <2>1
    <2>2. CASE \E e \in Entries : unified' = Append(unified, e)
      <3>1. PICK e \in Entries : unified' = Append(unified, e)  BY <2>2
      <3> QED BY <1>1, <3>1
    <2> QED BY <2>1, <2>2
  <1>3. \A r \in RequestIds : looked[r] \in Nat /\ looked[r] <= Len(unified)  BY DEF LookInv
  <1>4. ASSUME NEW r \in RequestIds, NotSeen(r) PROVE NotSeen(r)'
    <2> SUFFICES ASSUME NEW i \in Positions("answer", r)'
                 PROVE  i > looked[r] \/ i + Newest <= looked[r]
      BY DEF NotSeen
    <2>1. i \in DOMAIN unified' /\ unified'[i].kind = "answer" /\ unified'[i].id = r /\ i \in Nat
      BY <1>1 DEF Positions
    <2>2. CASE i > Len(unified)  BY <1>1, <1>3, <2>1, <2>2
    <2>3. CASE i \in DOMAIN unified /\ unified'[i] = unified[i]
      <3>1. i \in Positions("answer", r)  BY <2>1, <2>3 DEF Positions
      <3> QED BY <1>4, <3>1 DEF NotSeen
    <2> QED BY <1>2, <2>1, <2>2, <2>3
  <1>5. \A r \in RequestIds : looked[r] <= Len(unified')  BY <1>1, <1>3
  <1> QED BY <1>1, <1>4, <1>5 DEF LookInv

(* A poll that finds nothing saw that no answer is among the newest.       *)
LEMMA LookPolls == LookInv /\ Pollers => LookInv'
  <1> SUFFICES ASSUME LookInv, Pollers PROVE LookInv'
    OBVIOUS
  <1>1. /\ UNCHANGED <<unified, requests, scene>> /\ met \subseteq met'
        /\ unified \in Seq(Entries) /\ Len(unified) \in Nat /\ Newest \in Nat
        /\ pollers \in [RequestIds -> PollerStates] /\ looked \in [RequestIds -> Nat]
    BY InferenceAssumption
       DEF LookInv, Pollers, PollerSteps, PollOnce, CheckDeadline, DeliverAnswer, LogAnswer,
           PollerGoes, chatOnlyVars, NoTrouble, troubleVars, Trouble, InferenceAssumption
  <1>2. PICK r \in RequestIds : PollOnce(r) \/ CheckDeadline(r) \/ DeliverAnswer(r) \/ LogAnswer(r)
    BY DEF Pollers, PollerSteps
  <1>3. PICK to \in PollerStates : pollers' = [pollers EXCEPT ![r] = to]
    BY <1>2 DEF PollOnce, CheckDeadline, DeliverAnswer, LogAnswer, PollerGoes, PollerStates
  <1>4. PICK n \in {looked[r], 0, Len(unified)} : looked' = [looked EXCEPT ![r] = n]
    BY <1>1, <1>2 DEF PollOnce, CheckDeadline, DeliverAnswer, LogAnswer
  <1>5. pollers' \in [RequestIds -> PollerStates] /\ looked' \in [RequestIds -> Nat]
    BY <1>1, <1>3, <1>4
  <1>6. \A q \in RequestIds : q # r => pollers'[q] = pollers[q] /\ looked'[q] = looked[q]
    BY <1>1, <1>3, <1>4
  <1>7. \A q \in RequestIds : looked'[q] <= Len(unified)
    BY <1>1, <1>4 DEF LookInv
  <1>8. ASSUME "valkey" \notin met', pollers'[r] \in {"looked", "timedout"} PROVE NotSeen(r)'
    <2>1. CASE PollOnce(r)
      <3>1. ~Sees(r) /\ pollers'[r] = "looked" /\ looked'[r] = Len(unified)
        BY <1>1, <1>8, <2>1 DEF PollOnce, PollerGoes, Trouble
      <3>2. \A i \in Positions("answer", r) : i \in Nat /\ i + Newest <= Len(unified)
        BY <1>1, <3>1 DEF Sees, Positions
      <3> QED BY <1>1, <3>1, <3>2 DEF NotSeen, Positions
    <2>2. CASE CheckDeadline(r)
      <3>1. pollers[r] = "looked" /\ looked' = looked
        BY <1>1, <1>8, <2>2 DEF CheckDeadline, PollerGoes
      <3> QED BY <1>1, <1>8, <3>1 DEF LookInv, NotSeen, Positions
    <2>3. CASE DeliverAnswer(r) \/ LogAnswer(r)
      BY <1>1, <1>8, <2>3 DEF DeliverAnswer, LogAnswer, PollerGoes
    <2> QED BY <1>2, <2>1, <2>2, <2>3
  <1>9. ASSUME "valkey" \notin met', NEW q \in RequestIds, pollers'[q] \in {"looked", "timedout"}
        PROVE  NotSeen(q)'
    <2>1. CASE q # r
      <3>1. NotSeen(q)  BY <1>1, <1>6, <1>9, <2>1 DEF LookInv
      <3> QED BY <1>1, <1>6, <2>1, <3>1 DEF NotSeen, Positions
    <2> QED BY <1>8, <1>9, <2>1
  <1> QED BY <1>1, <1>5, <1>7, <1>9 DEF LookInv

LEMMA LookStep == LookInv /\ [ChatNext]_chatVars => LookInv'
  <1> SUFFICES ASSUME LookInv, [ChatNext]_chatVars PROVE LookInv'
    OBVIOUS
  <1>0. pollers \in [RequestIds -> PollerStates] /\ requests \in Nat  BY DEF LookInv
  <1>1. CASE UNCHANGED <<inferenceVars, scene>> /\ met \subseteq met'
    BY <1>0, <1>1, LookFrame DEF inferenceVars
  <1>2. CASE UNCHANGED chatVars
    BY <1>1, <1>2 DEF chatVars, inboundVars, troubleVars, chatOnlyVars
  <1>3. CASE ChatArrives \/ RouteCommand \/ RouteUnresolved \/ Reply \/ Reset \/ AskForEngine
             \/ DispatchWorkflow \/ ContextSteps \/ ConversationSteps \/ ChatAck
    <2> USE DEF Elsewhere, chatOnlyVars, NoTrouble, troubleVars, Trouble
    <2>1. UNCHANGED <<inferenceVars, scene>>
      BY <1>3 DEF ChatArrives, RouteCommand, RouteUnresolved, Reply, Reset, AskForEngine,
                  DispatchWorkflow, ContextSteps, ConversationSteps, ChatAck
    <2>2. met \subseteq met'
      <3>1. CASE ChatArrives \/ RouteCommand \/ RouteUnresolved \/ Reply \/ AskForEngine
                 \/ DispatchWorkflow \/ ChatAck
        BY <3>1 DEF ChatArrives, RouteCommand, RouteUnresolved, Reply, AskForEngine,
                    DispatchWorkflow, ChatAck
      <3>2. CASE Reset
        BY <3>2 DEF Reset, ResetSession, Write
      <3>3. CASE ContextSteps
        BY <3>3 DEF ContextSteps, ResolveSteps, ReadPointer, ReadContext, ClearPointer, TellComponent
      <3>4. CASE ConversationSteps
        BY <3>4 DEF ConversationSteps, SessionSteps, Touch, CreateSession, SwitchPipeline,
                    RecordMessage, Write
      <3> QED BY <1>3, <3>1, <3>2, <3>3, <3>4
    <2> QED BY <1>1, <2>1, <2>2
  <1>4. CASE AskSteps
    <2>0. UNCHANGED scene  BY <1>4 DEF AskSteps, chatOnlyVars
    <2>1. CASE Indicator(FirstOf) \/ StageAnswered \/ StageFails \/ GuardVerdict
      BY <1>1, <2>0, <2>1
      DEF Indicator, StageAnswered, StageFails, GuardVerdict, NoTrouble, troubleVars, Trouble
    <2>2. CASE TellResult
      <3>1. UNCHANGED <<unified, requests, pollers, looked>> /\ met \subseteq met'
        BY <2>2 DEF TellResult, NoTrouble, troubleVars, Trouble
      <3> QED BY <1>0, <2>0, <3>1, LookFrame
    <2>3. CASE AskDirect \/ AskStage
      <3>1. /\ requests' = requests + 1 /\ looked' = looked /\ met \subseteq met'
            /\ unified' = unified \/ unified' = Append(unified, Request(requests'))
        BY <2>3 DEF AskDirect, AskStage, Ask, NoTrouble, troubleVars, Trouble
      <3>2. pollers' = pollers \/ pollers' = [pollers EXCEPT ![requests'] = "waiting"]
        BY <2>3 DEF AskDirect, AskStage
      <3>3. Request(requests') \in Entries /\ requests' \in Nat
        BY <1>0, <3>1 DEF Request, Entries, Texts
      <3>4. pollers' \in [RequestIds -> PollerStates]
        <4>1. "waiting" \in PollerStates  BY DEF PollerStates
        <4> QED BY <1>0, <3>2, <4>1
      <3>5. \A r \in RequestIds : pollers'[r] \in {"looked", "timedout"} => pollers'[r] = pollers[r]
        BY <1>0, <3>2
      <3> QED BY <2>0, <3>1, <3>3, <3>4, <3>5, LookFrame
    <2> QED BY <1>4, <2>1, <2>2, <2>3 DEF AskSteps
  <1>5. CASE Pollers  BY <1>5, LookPolls
  <1>6. CASE ChatStop
    <2>1. UNCHANGED <<unified, requests, looked, scene>> /\ met \subseteq met'
      BY <1>6 DEF ChatStop, StopInbound, Trouble, chatOnlyVars
    <2>2. pollers' = [r \in RequestIds |->
            IF pollers[r] \in {"waiting", "looked", "found", "shown", "unshown"}
            THEN "dead" ELSE pollers[r]]
      BY <1>6 DEF ChatStop, PollersDie
    <2>3. pollers' \in [RequestIds -> PollerStates]
      <3>1. "dead" \in PollerStates  BY DEF PollerStates
      <3> QED BY <1>0, <2>2, <3>1
    <2>4. \A r \in RequestIds : pollers'[r] \in {"looked", "timedout"} => pollers'[r] = pollers[r]
      BY <2>2
    <2> QED BY <1>0, <2>1, <2>3, <2>4, LookFrame
  <1>7. CASE ChatWorld
    <2>1. CASE UNCHANGED <<inboundVars, inferenceVars, scene>>
      BY <1>1, <2>1 DEF inboundVars, troubleVars
    <2>2. ASSUME NEW r \in RequestIds, NEW t \in scene.texts, Serve(r, t), UNCHANGED scene
          PROVE  LookInv'
      <3>1. Answer(r, t) \in Entries
        BY SceneAssumption, InferenceAssumption
           DEF LookInv, SceneAssumption, InferenceAssumption, RequestIds, Answer, Entries
      <3>2. UNCHANGED <<requests, pollers, looked, met>> /\ unified' = Append(unified, Answer(r, t))
        BY <2>2 DEF Serve, inboundVars, troubleVars
      <3> QED BY <1>0, <2>2, <3>1, <3>2, LookFrame
    <2>3. ASSUME OtherEntry, UNCHANGED scene PROVE LookInv'
      <3>1. Other \in Entries  BY DEF Other, Entries, Texts
      <3>2. UNCHANGED <<requests, pollers, looked, met>> /\ unified' = Append(unified, Other)
        BY <2>3 DEF OtherEntry, inboundVars, troubleVars
      <3> QED BY <1>0, <2>3, <3>1, <3>2, LookFrame
    <2> QED BY <1>7, <2>1, <2>2, <2>3 DEF ChatWorld, Track, ContextExpires, Passes, chatOnlyVars
  <1> QED BY <1>2, <1>3, <1>4, <1>5, <1>6, <1>7 DEF ChatNext

(* However many requests are polled for, and whatever else is written to   *)
(* the stream: unless a look failed, a chat is told of a time-out only if  *)
(* at the last look no answer was among the newest entries.                *)
THEOREM TimeoutsHaveCause == ChatSpec => []TimeoutForCause
  <1>1. LookInv => TimeoutForCause
    BY DEF LookInv, TimeoutForCause, NotSeen
  <1> QED BY <1>1, LookInit, LookStep, PTL DEF ChatSpec

-----------------------------------------------------------------------------
(* Sessions. As long as no call on the chat's hash failed and nothing      *)
(* crashed, the hash is as old as the loop's own memory of the chat when a *)
(* message is taken up: there is none after a reset, and otherwise its     *)
(* last activity is not after the message that was done with last. So the  *)
(* touch finds a session idle whenever a new one is due. A reset keeps     *)
(* that, because a message that resets goes nowhere that writes the hash.  *)
Clean == met \cap {"valkey", "crash"} = {}

Hashes == [on : BOOLEAN, session : Nat, last : Nat, pipeline : Pipelines]

(* Where a message that resets passes.                                     *)
ResetStages == {"idle", "touch", "create", "route", "reset", "reply", "ack"}

HashBehind == conv.on => lastSeen # Never /\ conv.last <= lastSeen

SessionInv ==
  /\ tick \in Nat /\ tick <= MaxTicks /\ conv \in Hashes /\ conv.last <= tick
  /\ lastSeen \in Nat /\ (lastSeen # Never => lastSeen <= tick)
  /\ began \in Nat /\ began <= tick
  /\ hand = 0 => stage = "idle"
  /\ stage \notin ResetStages => InHand # "reset"
  /\ Clean /\ stage \in {"idle", "touch"} => HashBehind
  /\ Clean /\ stage \in {"reply", "ack"} /\ InHand = "reset" => ~conv.on
  /\ FreshSession

(* What a step that only moves on leaves alone.                            *)
movesFrame == <<sessionVars, sent, stream, hand>>

LEMMA SessionStarts == ChatInit => SessionInv
  <1> SUFFICES ASSUME ChatInit PROVE SessionInv
    OBVIOUS
  <1>1. /\ tick = 0 /\ conv = NoHash /\ lastSeen = Never /\ began = 0 /\ stage = "idle"
    BY DEF ChatInit, SessionInit, LoopStarts
  <1>2. MaxTicks \in Nat  BY SessionAssumption DEF SessionAssumption
  <1>3. conv \in Hashes /\ conv.last = 0 /\ ~conv.on
    BY <1>1 DEF NoHash, NoSession, Hashes, Pipelines
  <1> QED BY <1>1, <1>2, <1>3
          DEF SessionInv, FreshSession, HashBehind, ResetStages, Never

LEMMA SessionBeside ==
  ASSUME SessionInv, UNCHANGED <<movesFrame, stage>>, met \subseteq met'
  PROVE  SessionInv'
  BY DEF SessionInv, movesFrame, sessionVars, InHand, UpdateOf, FreshSession, HashBehind, Clean,
         Never, SessionMadeAt

(* A handler a resetting message does not pass may go where it likes.      *)
LEMMA SessionMoves ==
  ASSUME SessionInv, UNCHANGED movesFrame, met \subseteq met',
         stage \notin ResetStages, stage' \notin {"idle", "touch", "route"}
  PROVE  SessionInv'
  <1>1. stage # "idle" /\ hand # 0  BY DEF SessionInv, ResetStages
  <1>2. InHand' = InHand /\ InHand # "reset" /\ hand' = hand
    BY DEF SessionInv, movesFrame, InHand, UpdateOf
  <1> QED BY <1>1, <1>2 DEF SessionInv, movesFrame, sessionVars, FreshSession, Clean, Never

LEMMA SessionArrives == PointerInv /\ SessionInv /\ (ChatArrives \/ ChatAck \/ ChatStop) => SessionInv'
  <1> SUFFICES ASSUME PointerInv, SessionInv, ChatArrives \/ ChatAck \/ ChatStop
               PROVE  SessionInv'
    OBVIOUS
  <1>1. CASE ChatArrives /\ (ReadInbound \/ StartInbound)
    BY <1>1, SessionBeside
    DEF ChatArrives, ReadInbound, StartInbound, NoTrouble, troubleVars, telegramVars, handVars,
        Elsewhere, movesFrame
  <1>2. ASSUME NEW i \in toHandle, TakeUp(i, "touch"), Elsewhere, NoTrouble PROVE SessionInv'
    <2>1. stage = "idle" /\ stage' = "touch" /\ UNCHANGED <<sessionVars, met>>
      BY <1>2 DEF TakeUp, SessionInv, Elsewhere, NoTrouble, troubleVars
    <2>2. hand' # 0
      <3>1. hand' = i  BY <1>2 DEF TakeUp
      <3> QED BY <3>1 DEF PointerInv, Numbered
    <2> QED BY <2>1, <2>2
            DEF SessionInv, sessionVars, FreshSession, HashBehind, Clean, Never, ResetStages
  <1>3. CASE ChatAck
    <2>1. /\ stage = "ack" /\ stage' = "idle" /\ hand' = 0 /\ UNCHANGED <<tick, conv>> /\ began' = 0
          /\ met \subseteq met'
          /\ lastSeen' = IF lastSeen = Never /\ InHand = "reset" THEN Never ELSE tick
      BY <1>3 DEF ChatAck, AckInbound, Seen, NoTrouble, troubleVars
    <2>2. Clean' => Clean  BY <2>1 DEF Clean
    <2>3. Never' = Never /\ Never \in Nat /\ tick # Never
      BY SessionAssumption DEF SessionAssumption, Never, SessionInv
    <2>4. Clean' => HashBehind'
      BY <2>1, <2>2, <2>3 DEF SessionInv, HashBehind, Hashes
    <2>5. lastSeen' \in Nat /\ (lastSeen' # Never => lastSeen' <= tick')
      BY <2>1, <2>3 DEF SessionInv
    <2> QED BY <2>1, <2>3, <2>4, <2>5 DEF SessionInv, FreshSession, ResetStages
  <1>4. CASE ChatStop
    <2>1. /\ "crash" \in met' /\ stage' = "idle" /\ UNCHANGED <<tick, conv, lastSeen>> /\ began' = 0
      BY <1>4 DEF ChatStop, StopInbound, Trouble
    <2> QED BY <2>1 DEF SessionInv, FreshSession, Clean, Never, ResetStages
  <1> QED BY <1>1, <1>2, <1>3, <1>4 DEF ChatArrives

(* The touch: clean and not found idle, no new session was due.            *)
LEMMA SessionTouched == SessionInv /\ Touch("route") => SessionInv'
  <1> SUFFICES ASSUME SessionInv, Touch("route") PROVE SessionInv'
    OBVIOUS
  <1>1. /\ stage = "touch" /\ stage' \in {"create", "route"} /\ UNCHANGED <<tick, lastSeen>>
        /\ UNCHANGED <<sent, stream, hand>> /\ began' = tick
        /\ due' = (lastSeen = Never \/ IdleSince(lastSeen)) /\ conv' \in {conv, Touched}
    BY DEF Touch, Advance, telegramVars
  <1>2. /\ tick \in Nat /\ conv \in Hashes /\ conv.last \in Nat /\ conv.on \in BOOLEAN
        /\ lastSeen \in Nat /\ conv.last <= tick /\ hand # 0 /\ Timeout \in Nat
    BY <1>1, SessionAssumption DEF SessionInv, Hashes, SessionAssumption
  <1>3. Touched \in Hashes /\ Touched.last = tick  BY <1>2 DEF Touched, Hashes
  <1>4. conv' \in Hashes /\ conv'.last <= tick  BY <1>1, <1>2, <1>3
  <1>5. ASSUME stage' = "route", due', Clean' PROVE FALSE
    <2>1. ~NeedsSession(conv) /\ UNCHANGED troubleVars
      BY <1>5 DEF Touch, Advance, Clean, Trouble, NoTrouble
    <2>2. Clean  BY <1>5, <2>1 DEF Clean, troubleVars
    <2>3. conv.on /\ ~ (tick - conv.last > Timeout)
      BY <2>1 DEF NeedsSession, IdleSince
    <2>4. lastSeen # Never /\ conv.last <= lastSeen
      BY <1>1, <2>2, <2>3 DEF SessionInv, HashBehind
    <2>5. tick - lastSeen > Timeout  BY <1>1, <1>5, <2>4 DEF IdleSince
    <2> QED BY <1>2, <2>3, <2>4, <2>5
  <1>6. FreshSession'  BY <1>5 DEF FreshSession, Clean
  <1> QED BY <1>1, <1>2, <1>4, <1>6 DEF SessionInv, ResetStages, Never

LEMMA SessionMade == SessionInv /\ CreateSession("route") => SessionInv'
  <1> SUFFICES ASSUME SessionInv, CreateSession("route") PROVE SessionInv'
    OBVIOUS
  <1> DEFINE new == [on |-> TRUE, session |-> SessionMadeAt(tick), last |-> tick,
                     pipeline |-> "default"]
  <1>1. /\ stage = "create" /\ stage' = "route" /\ UNCHANGED <<tick, lastSeen, due, began>>
        /\ UNCHANGED <<sent, stream, hand>> /\ conv' \in {conv, new}
    BY DEF CreateSession, Advance, telegramVars
  <1>2. /\ tick \in Nat /\ conv \in Hashes /\ conv.last <= tick
        /\ began \in Nat /\ began <= tick /\ hand # 0
    BY <1>1 DEF SessionInv
  <1>3. new \in Hashes /\ new.last = tick
    BY <1>2 DEF Hashes, SessionMadeAt, Pipelines
  <1>4. ASSUME Clean' PROVE talk'.session >= SessionMadeAt(began) /\ talk'.pipeline = "default"
    <2>1. talk' = [session |-> new.session, pipeline |-> "default"]
      BY <1>4 DEF CreateSession, Clean, Trouble
    <2>2. talk'.session = tick + 1 /\ talk'.pipeline = "default"  BY <2>1 DEF SessionMadeAt
    <2> QED BY <1>2, <2>2 DEF SessionMadeAt
  <1>5. FreshSession'  BY <1>1, <1>4 DEF FreshSession, Clean, SessionMadeAt
  <1>6. conv' \in Hashes /\ conv'.last <= tick
    <2> HIDE DEF new
    <2> QED BY <1>1, <1>2, <1>3
  <1> QED BY <1>1, <1>2, <1>5, <1>6 DEF SessionInv, ResetStages, Never

(* The other writes to the hash, and the reset.                            *)
LEMMA SessionWrites ==
  ASSUME SessionInv, SwitchPipeline \/ RecordMessage \/ ResetSession
  PROVE  SessionInv'
  <1>1. tick \in Nat /\ conv \in Hashes /\ conv.last <= tick /\ MaxTicks \in Nat
    BY SessionAssumption DEF SessionInv, SessionAssumption
  <1>2. CASE SwitchPipeline \/ RecordMessage
    <2>1. /\ stage \in {"switch", "record"} /\ stage' \in {"reply", "ack"}
          /\ UNCHANGED <<tick, began, lastSeen, sent, stream, hand>> /\ met \subseteq met'
          /\ conv' \in {conv, Touched, [conv EXCEPT !.on = TRUE, !.pipeline = "chosen"]}
      BY <1>2 DEF SwitchPipeline, RecordMessage, Write, Advance, telegramVars, NoTrouble,
                  troubleVars, Trouble
    <2>2. conv' \in Hashes /\ conv'.last <= tick
      <3>1. CASE conv' = conv  BY <1>1, <3>1
      <3>2. CASE conv' = Touched
        <4>1. Touched \in Hashes /\ Touched.last = tick  BY <1>1 DEF Touched, Hashes
        <4> QED BY <1>1, <3>2, <4>1
      <3>3. CASE conv' = [conv EXCEPT !.on = TRUE, !.pipeline = "chosen"]
        BY <1>1, <3>3 DEF Hashes, Pipelines
      <3> QED BY <2>1, <3>1, <3>2, <3>3
    <2>3. InHand' = InHand /\ InHand # "reset" /\ hand # 0
      BY <2>1 DEF SessionInv, ResetStages, InHand, UpdateOf
    <2> QED BY <1>1, <2>1, <2>2, <2>3 DEF SessionInv, ResetStages, FreshSession, Never
  <1>3. CASE ResetSession
    <2>1. /\ stage = "reset" /\ stage' = "reply" /\ lastSeen' = Never
          /\ UNCHANGED <<tick, began, sent, stream, hand>> /\ conv' \in {conv, NoHash}
          /\ Clean' => conv' = NoHash
      BY <1>3 DEF ResetSession, Write, Advance, telegramVars, Clean, Trouble
    <2>2. NoHash \in Hashes /\ NoHash.last = 0 /\ ~NoHash.on
      BY DEF NoHash, NoSession, Hashes, Pipelines
    <2>3. conv' \in Hashes /\ conv'.last <= tick  BY <1>1, <2>1, <2>2
    <2>4. hand # 0  BY <2>1 DEF SessionInv
    <2> QED BY <1>1, <2>1, <2>2, <2>3, <2>4 DEF SessionInv, ResetStages, FreshSession, Never
  <1> QED BY <1>2, <1>3

LEMMA SessionHandlers ==
  ASSUME SessionInv,
         \/ RouteCommand \/ RouteUnresolved \/ Reply \/ Reset \/ AskForEngine \/ DispatchWorkflow
         \/ ContextSteps \/ ConversationSteps \/ AskSteps \/ Pollers
  PROVE  SessionInv'
  <1> USE DEF movesFrame, Elsewhere, Advance, telegramVars, NoTrouble, troubleVars, Trouble,
              ResetStages
  <1>1. CASE RouteCommand
    <2>1. /\ UNCHANGED <<movesFrame, met>> /\ stage = "route"
          /\ stage' = CASE InHand = "reset"       -> "reset"
                        [] InHand = "pipeline"    -> "switch"
                        [] InHand = "status"      -> "reply"
                        [] InHand \in ReplyWords  -> "pointer"
                        [] OTHER                  -> "indicator"
      BY <1>1 DEF RouteCommand
    <2>2. stage' \in {"reset", "switch", "reply", "pointer", "indicator"}
      BY <2>1, Zenon
    <2>3. InHand = "reset" => stage' = "reset"
      <3>1. "reset" \notin ReplyWords  BY ChatAssumption DEF ChatAssumption
      <3> QED BY <2>1, <3>1
    <2>4. hand # 0 /\ InHand' = InHand  BY <2>1 DEF SessionInv, InHand, UpdateOf
    <2> QED BY <2>1, <2>2, <2>3, <2>4 DEF SessionInv, sessionVars, FreshSession, Clean, Never
  <1>2. CASE Reply
    <2>1. UNCHANGED movesFrame /\ met \subseteq met' /\ stage = "reply" /\ stage' = "ack"
      BY <1>2 DEF Reply
    <2>2. hand # 0 /\ InHand' = InHand  BY <2>1 DEF SessionInv, InHand, UpdateOf
    <2> QED BY <2>1, <2>2 DEF SessionInv, sessionVars, FreshSession, Clean, Never
  <1>3. CASE RouteUnresolved \/ AskForEngine \/ DispatchWorkflow
    BY <1>3, SessionMoves DEF RouteUnresolved, AskForEngine, DispatchWorkflow
  <1>4. CASE Reset  BY <1>4, SessionWrites DEF Reset
  <1>5. CASE ContextSteps
    BY <1>5, SessionMoves
    DEF ContextSteps, ResolveSteps, ReadPointer, ReadContext, ClearPointer, TellComponent
  <1>6. CASE ConversationSteps
    BY <1>6, SessionTouched, SessionMade, SessionWrites DEF ConversationSteps, SessionSteps
  <1>7. CASE AskSteps
    <2>1. CASE Indicator(FirstOf) \/ StageAnswered \/ StageFails \/ GuardVerdict \/ TellResult
      <3>1. FirstOf \in {"draft", "request"}  BY DEF FirstOf
      <3> QED BY <1>7, <2>1, <3>1, SessionMoves
              DEF AskSteps, Indicator, StageAnswered, StageFails, GuardVerdict, TellResult
    <2>2. CASE AskDirect \/ AskStage
      BY <1>7, <2>2, SessionMoves DEF AskSteps, AskDirect, AskStage, Ask
    <2> QED BY <1>7, <2>1, <2>2 DEF AskSteps
  <1>8. CASE Pollers
    BY <1>8, SessionBeside
    DEF Pollers, PollerSteps, PollOnce, CheckDeadline, DeliverAnswer, LogAnswer, PollerGoes,
        handVars
  <1> QED BY <1>1, <1>2, <1>3, <1>4, <1>5, <1>6, <1>7, <1>8

LEMMA SessionWorld == SessionInv /\ ChatWorld => SessionInv'
  <1> SUFFICES ASSUME SessionInv, ChatWorld PROVE SessionInv'
    OBVIOUS
  <1>1. UNCHANGED inboundVars
    BY DEF ChatWorld, Track, ContextExpires, Passes, Serve, OtherEntry
  <1>2. UNCHANGED <<sent, stream, hand, stage, met>>
    BY <1>1 DEF inboundVars, telegramVars, handVars, troubleVars
  <1>3. CASE UNCHANGED sessionVars  BY <1>2, <1>3, SessionBeside DEF movesFrame
  <1>4. CASE Passes
    <2>1. tick' = tick + 1 /\ tick < MaxTicks /\ UNCHANGED <<conv, talk, lastSeen, due, began>>
      BY <1>4 DEF Passes
    <2>2. tick \in Nat /\ conv.last \in Nat /\ MaxTicks \in Nat
      BY SessionAssumption DEF SessionInv, Hashes, SessionAssumption
    <2>3. tick' \in Nat /\ tick' <= MaxTicks /\ conv.last <= tick'
          /\ (lastSeen # Never => lastSeen <= tick') /\ began <= tick'
      BY <2>1, <2>2 DEF SessionInv
    <2> QED BY <1>2, <2>1, <2>3
            DEF SessionInv, InHand, UpdateOf, FreshSession, HashBehind, Clean, Never, SessionMadeAt
  <1> QED BY <1>3, <1>4 DEF ChatWorld

LEMMA SessionStep == PointerInv /\ SessionInv /\ [ChatNext]_chatVars => SessionInv'
  <1>1. ASSUME SessionInv, UNCHANGED chatVars PROVE SessionInv'
    BY <1>1, SessionBeside
    DEF chatVars, inboundVars, telegramVars, handVars, troubleVars, movesFrame
  <1> QED BY <1>1, SessionArrives, SessionHandlers, SessionWorld DEF ChatNext

(* Unless a call on the hash failed or the daemon crashed, a message that  *)
(* comes after the time-out, or after a reset, is routed in a session made *)
(* for it, whatever happens between the touch and the session's creation.  *)
THEOREM SessionsAreFresh == ChatSpec => []FreshSession
  <1>1. SessionInv => FreshSession  BY DEF SessionInv
  <1> QED BY <1>1, PointerInit, PointerStep, SessionStarts, SessionStep, PTL DEF ChatSpec

-----------------------------------------------------------------------------
(* The types. A step moves the handler of the entry in hand, or leaves the *)
(* entries alone, or is one of the loop's own.                             *)
Kept == UNCHANGED <<telegramVars, stream, groupVars, running, toHandle, hand, handled>>

Paid == NoTrouble \/ \E kind \in TroubleKinds : Trouble(kind)

Moves == stage # "idle" /\ stage' \in ChatStages \ {"idle"}

LEMMA ChatMoves ==
  ASSUME ChatNext, ~ (ChatArrives \/ ChatAck \/ ChatStop)
  PROVE  Kept /\ Paid /\ (stage' = stage \/ Moves)
  <1> USE DEF Kept, Paid, Moves, TroubleKinds, ChatStages, ContextStages, SessionStages,
              InferenceStages
  <1>1. CASE RouteCommand \/ RouteUnresolved \/ Reply \/ AskForEngine \/ DispatchWorkflow
    BY <1>1 DEF RouteCommand, RouteUnresolved, Reply, AskForEngine, DispatchWorkflow, Advance
  <1>2. CASE Reset
    BY <1>2 DEF Reset, ResetSession, Write, Advance
  <1>3. CASE ContextSteps
    BY <1>3 DEF ContextSteps, ResolveSteps, ReadPointer, ReadContext, ClearPointer, TellComponent,
                Advance
  <1>4. CASE ConversationSteps
    BY <1>4 DEF ConversationSteps, SessionSteps, Touch, CreateSession, SwitchPipeline,
                RecordMessage, Write, Advance
  <1>5. CASE AskSteps
    BY <1>5 DEF AskSteps, Indicator, FirstOf, StageAnswered, StageFails, GuardVerdict, TellResult,
                AskDirect, AskStage, Ask, Advance
  <1>6. CASE Pollers
    BY <1>6 DEF Pollers, PollerSteps, PollOnce, CheckDeadline, DeliverAnswer, LogAnswer,
                PollerGoes, NoTrouble, handVars
  <1>7. CASE ChatWorld
    BY <1>7 DEF ChatWorld, Track, ContextExpires, Passes, Serve, OtherEntry, NoTrouble,
                inboundVars, handVars
  <1> QED BY <1>1, <1>2, <1>3, <1>4, <1>5, <1>6, <1>7 DEF ChatNext

LEMMA EntriesTypedFirst == ChatInit => InboundTypeOK(ChatStages)
  <1> SUFFICES ASSUME ChatInit PROVE InboundTypeOK(ChatStages)
    OBVIOUS
  <1> DEFINE m == scene.messages
  <1>1. m \in 0 .. MaxSent /\ scene.words \subseteq Updates
    BY SceneAssumption DEF ChatInit, SceneAssumption
  <1>2. m \in Nat /\ MaxSent \in Nat /\ MaxTrouble \in Nat
    BY <1>1, InboundAssumption DEF InboundAssumption
  <1>3. /\ sent \in [1 .. m -> scene.words] /\ stream = [i \in 1 .. m |-> i]
        /\ confirmed = m /\ offset = m /\ fetched = m /\ LoopStarts
    BY DEF ChatInit
  <1> HIDE DEF m
  <1>4. sent \in Seq(Updates) /\ Len(sent) = m
    <2>1. sent \in [1 .. m -> Updates]  BY <1>1, <1>3
    <2> QED BY <1>2, <2>1
  <1>5. Len(stream) = m  BY <1>2, <1>3
  <1>6. \A i \in DOMAIN stream : stream[i] \in 1 .. Len(sent)  BY <1>3, <1>4
  <1>7. handled \in [Numbers -> Nat]  BY <1>3 DEF LoopStarts
  <1> QED BY <1>1, <1>2, <1>3, <1>4, <1>5, <1>6, <1>7
          DEF InboundTypeOK, LoopStarts, ChatStages

(* A handler that moves, or a step beside it.                              *)
LEMMA EntriesTypedKept ==
  ASSUME InboundTypeOK(ChatStages), Kept, Paid, stage' = stage \/ Moves
  PROVE  InboundTypeOK(ChatStages)'
  <1>1. trouble' \in 0 .. MaxTrouble /\ met' \subseteq TroubleKinds
    <2>1. trouble \in 0 .. MaxTrouble /\ met \subseteq TroubleKinds /\ MaxTrouble \in Nat
      BY InboundAssumption DEF InboundTypeOK, InboundAssumption
    <2>2. CASE NoTrouble  BY <2>1, <2>2 DEF NoTrouble, troubleVars
    <2>3. CASE \E kind \in TroubleKinds : Trouble(kind)  BY <2>1, <2>3 DEF Trouble
    <2> QED BY <2>2, <2>3 DEF Paid
  <1>2. stage' \in ChatStages /\ (stage' = "idle" <=> hand' = 0)
    BY DEF InboundTypeOK, Moves, Kept
  <1> QED BY <1>1, <1>2 DEF InboundTypeOK, Kept, telegramVars, groupVars

LEMMA EntriesTypedLoop ==
  ASSUME InboundTypeOK(ChatStages), Numbered, ChatArrives \/ ChatAck \/ ChatStop
  PROVE  InboundTypeOK(ChatStages)'
  <1>1. /\ Len(stream) \in Nat /\ given \in Nat /\ given <= Len(stream)
        /\ unacked \subseteq 1 .. given /\ toHandle \subseteq unacked
        /\ trouble \in 0 .. MaxTrouble /\ met \subseteq TroubleKinds /\ MaxTrouble \in Nat
        /\ handled \in [Numbers -> Nat] /\ hand \in unacked \cup {0} /\ hand \notin toHandle
    <2>1. given \in 0 .. Len(stream)  BY DEF InboundTypeOK
    <2>2. Len(stream) \in Nat  BY DEF Numbered
    <2> QED BY <2>1, <2>2, InboundAssumption DEF InboundTypeOK, InboundAssumption
  <1>2. CASE ReadInbound /\ NoTrouble
    <2>1. /\ toHandle' \in {unacked \cup Unread, Unread, unacked} /\ hand = 0
          /\ given' \in {given, Len(stream)} /\ (given' = given => toHandle' \subseteq unacked')
          /\ unacked' = unacked \cup (IF given' = given THEN {} ELSE Unread)
      BY <1>1, <1>2 DEF ReadInbound, Unread
    <2>2. unacked' \subseteq 1 .. given' /\ toHandle' \subseteq unacked'
      <3>1. CASE given' = given  BY <1>1, <2>1, <3>1
      <3>2. CASE given' # given
        <4>1. given' = Len(stream) /\ unacked' = unacked \cup Unread  BY <2>1, <3>2
        <4>2. Unread \subseteq 1 .. Len(stream)  BY <1>1 DEF Unread
        <4>3. 1 .. given \subseteq 1 .. Len(stream)  BY <1>1
        <4> QED BY <1>1, <2>1, <4>1, <4>2, <4>3
      <3> QED BY <3>1, <3>2
    <2>3. 0 \notin toHandle' /\ given' \in 0 .. Len(stream)
      BY <1>1, <2>1, <2>2
    <2>4. UNCHANGED <<telegramVars, stream, running, handVars, handled, troubleVars>>
      BY <1>2 DEF ReadInbound, NoTrouble
    <2> QED BY <2>1, <2>2, <2>3, <2>4 DEF InboundTypeOK, telegramVars, handVars, troubleVars
  <1>3. CASE StartInbound /\ NoTrouble
    BY <1>3 DEF StartInbound, NoTrouble, InboundTypeOK, telegramVars, groupVars, handVars,
                troubleVars
  <1>4. ASSUME NEW i \in toHandle, TakeUp(i, "touch"), NoTrouble
        PROVE  InboundTypeOK(ChatStages)'
    <2>1. /\ toHandle' = toHandle \ {i} /\ hand' = i /\ stage' = "touch"
          /\ handled' = [handled EXCEPT ![stream[i]] = @ + 1]
          /\ UNCHANGED <<telegramVars, stream, groupVars, running, troubleVars>>
      BY <1>4 DEF TakeUp, NoTrouble
    <2>2. handled' \in [Numbers -> Nat]
      <3>1. \A u \in Numbers : handled[u] \in Nat /\ handled[u] + 1 \in Nat  BY <1>1
      <3> QED BY <1>1, <2>1, <3>1, Zenon
    <2>3. i # 0 /\ i \in unacked  BY <1>1, <1>4
    <2>4. "touch" \in ChatStages  BY DEF ChatStages, SessionStages
    <2> QED BY <1>1, <2>1, <2>2, <2>3, <2>4
            DEF InboundTypeOK, telegramVars, groupVars, troubleVars
  <1>5. CASE ChatAck
    <2>1. /\ hand' = 0 /\ stage' = "idle" /\ unacked' \in {unacked, unacked \ {hand}} /\ NoTrouble
          /\ UNCHANGED <<telegramVars, stream, given, running, toHandle, handled>>
      BY <1>5 DEF ChatAck, AckInbound
    <2>2. 0 \notin toHandle /\ toHandle \subseteq unacked'  BY <1>1, <2>1
    <2> QED BY <1>1, <2>1, <2>2
            DEF InboundTypeOK, telegramVars, NoTrouble, troubleVars, ChatStages
  <1>6. CASE ChatStop
    <2>1. /\ running' = FALSE /\ offset' = 0 /\ fetched' = 0 /\ toHandle' = {} /\ hand' = 0
          /\ stage' = "idle" /\ trouble > 0 /\ trouble' = trouble - 1 /\ met' = met \cup {"crash"}
          /\ UNCHANGED <<sent, confirmed, stream, groupVars, handled>>
      BY <1>6 DEF ChatStop, StopInbound, Trouble
    <2>2. Len(sent) \in Nat  BY DEF InboundTypeOK
    <2>3. trouble' \in 0 .. MaxTrouble /\ met' \subseteq TroubleKinds
      BY <1>1, <2>1 DEF TroubleKinds
    <2>4. "idle" \in ChatStages /\ 0 <= Len(sent)  BY <2>2 DEF ChatStages
    <2>5. /\ sent' \in Seq(Updates) /\ Len(sent') <= MaxSent /\ confirmed' \in 0 .. Len(sent')
          /\ \A i \in DOMAIN stream' : stream'[i] \in 1 .. Len(sent')
          /\ given' \in 0 .. Len(stream') /\ unacked' \subseteq 1 .. given'
          /\ handled' \in [Numbers -> Nat]
      BY <2>1 DEF InboundTypeOK, groupVars
    <2>6. Len(sent') = Len(sent)  BY <2>1
    <2>7. offset' <= fetched' /\ fetched' <= Len(sent')  BY <2>1, <2>4, <2>6
    <2>8. /\ toHandle' \subseteq unacked' /\ hand' \in unacked' \cup {0} /\ hand' \notin toHandle'
          /\ running' \in BOOLEAN
      BY <2>1
    <2>9. stage' \in ChatStages /\ (stage' = "idle" <=> hand' = 0)  BY <2>1, <2>4
    <2> QED BY <2>3, <2>5, <2>7, <2>8, <2>9 DEF InboundTypeOK
  <1> QED BY <1>2, <1>3, <1>4, <1>5, <1>6 DEF ChatArrives

LEMMA EntriesTypedStep ==
  ASSUME InboundTypeOK(ChatStages), PointerInv, [ChatNext]_chatVars
  PROVE  InboundTypeOK(ChatStages)'
  <1>1. CASE UNCHANGED chatVars
    <2>1. Kept /\ Paid /\ stage' = stage
      BY <1>1 DEF chatVars, inboundVars, handVars, Kept, Paid, NoTrouble
    <2> QED BY <2>1, EntriesTypedKept
  <1>2. CASE ChatNext  BY <1>2, ChatMoves, EntriesTypedKept, EntriesTypedLoop DEF PointerInv
  <1> QED BY <1>1, <1>2

(* The alerts: what PointerInv does not say of them.                       *)
AlertsTyped == contexts \subseteq Alerts /\ tracked \in [Alerts -> 0 .. MaxAlerts]

LEMMA AlertsTypedFirst == ChatInit => AlertsTyped
  BY ContextAssumption DEF ContextAssumption, ChatInit, ContextInit, AlertsTyped

LEMMA AlertsTypedStep ==
  ASSUME AlertsTyped, PointerInv, [ChatNext]_chatVars
  PROVE  AlertsTyped'
  <1>1. ASSUME UNCHANGED <<contexts, tracked>> PROVE AlertsTyped'
    BY <1>1 DEF AlertsTyped
  <1>2. CASE ChatWorld
    <2>1. ASSUME NEW a \in scene.alerts, Track(a) PROVE AlertsTyped'
      <3>1. a \in Alerts  BY SceneAssumption DEF SceneAssumption, PointerInv
      <3>2. tracked[a] \in Nat /\ tracked[a] + 1 \in 0 .. MaxAlerts
        BY <2>1, <3>1, ContextAssumption DEF ContextAssumption, Track, AlertsTyped
      <3> QED BY <2>1, <3>1, <3>2 DEF Track, Tracks, AlertsTyped
    <2>2. ASSUME NEW a \in scene.alerts, ContextExpires(a) PROVE AlertsTyped'
      BY <2>2 DEF ContextExpires, AlertsTyped
    <2> QED BY <1>1, <1>2, <2>1, <2>2 DEF ChatWorld, contextVars
  <1>3. CASE UNCHANGED chatVars  BY <1>1, <1>3 DEF chatVars, contextVars
  <1>4. CASE ChatNext /\ ~ChatWorld
    <2>1. UNCHANGED <<contexts, tracked>>
      BY <1>4 DEF ChatNext, ChatArrives, RouteCommand, RouteUnresolved, Reply, Reset, AskForEngine,
                  DispatchWorkflow, ContextSteps, ConversationSteps, AskSteps, Pollers, ChatAck,
                  ChatStop, Elsewhere, contextVars, ResolveSteps, ReadPointer, ReadContext,
                  ClearPointer, TellComponent
    <2> QED BY <1>1, <2>1
  <1> QED BY <1>2, <1>3, <1>4

(* The sessions: what SessionInv does not say of them.                     *)
Talks == [session : 0 .. (MaxTicks + 1), pipeline : Pipelines]

TalksTyped == conv.session \in 0 .. (MaxTicks + 1) /\ talk \in Talks /\ due \in BOOLEAN

LEMMA TalksTypedFirst == ChatInit => TalksTyped
  <1>1. MaxTicks \in Nat  BY SessionAssumption DEF SessionAssumption
  <1>2. NoTalk \in Talks /\ NoHash.session \in 0 .. (MaxTicks + 1)
    BY <1>1 DEF NoTalk, NoHash, NoSession, Talks, Pipelines
  <1> QED BY <1>2 DEF ChatInit, SessionInit, TalksTyped

LEMMA TalksTypedTouch ==
  ASSUME TalksTyped, SessionInv, Touch("route") \/ CreateSession("route")
  PROVE  TalksTyped'
  <1>1. /\ tick \in Nat /\ tick <= MaxTicks /\ MaxTicks \in Nat /\ conv \in Hashes
        /\ lastSeen \in Nat
    BY SessionAssumption DEF SessionInv, SessionAssumption
  <1>2. NoTalk \in Talks  BY <1>1 DEF NoTalk, NoSession, Talks, Pipelines
  <1>3. Touched.session = conv.session /\ conv.session \in 0 .. (MaxTicks + 1)
    BY <1>1 DEF Touched, Hashes, TalksTyped
  <1>4. CASE Touch("route")
    <2>1. [session |-> conv.session, pipeline |-> conv.pipeline] \in Talks
      BY <1>1, <1>3 DEF Hashes, Talks
    <2>2. /\ conv' \in {conv, Touched}
          /\ talk' \in {NoTalk, [session |-> conv.session, pipeline |-> conv.pipeline]}
          /\ due' = (lastSeen = Never \/ IdleSince(lastSeen))
      BY <1>4 DEF Touch
    <2>3. due' \in BOOLEAN  BY <2>2, Zenon
    <2> QED BY <1>2, <1>3, <2>1, <2>2, <2>3 DEF TalksTyped
  <1>5. CASE CreateSession("route")
    <2> DEFINE new == [on |-> TRUE, session |-> SessionMadeAt(tick), last |-> tick,
                       pipeline |-> "default"]
    <2>1. new.session \in 0 .. (MaxTicks + 1)  BY <1>1 DEF SessionMadeAt
    <2>2. [session |-> new.session, pipeline |-> "default"] \in Talks
      BY <2>1 DEF Talks, Pipelines
    <2>3. /\ conv' \in {conv, new} /\ due' = due
          /\ talk' \in {NoTalk, [session |-> new.session, pipeline |-> "default"]}
      BY <1>5 DEF CreateSession
    <2> QED BY <1>2, <1>3, <2>1, <2>2, <2>3 DEF TalksTyped
  <1> QED BY <1>4, <1>5

LEMMA TalksTypedStep ==
  ASSUME TalksTyped, SessionInv, [ChatNext]_chatVars
  PROVE  TalksTyped'
  <1>1. ASSUME conv'.session = conv.session, talk' = talk, due' = due PROVE TalksTyped'
    BY <1>1 DEF TalksTyped
  <1>2. conv \in Hashes /\ MaxTicks \in Nat
    BY SessionAssumption DEF SessionInv, SessionAssumption
  <1>3. NoTalk \in Talks /\ NoHash.session \in 0 .. (MaxTicks + 1)
    BY <1>2 DEF NoTalk, NoHash, NoSession, Talks, Pipelines
  <1>4. Touched.session = conv.session  BY <1>2 DEF Touched, Hashes
  <1>5. [conv EXCEPT !.on = TRUE, !.pipeline = "chosen"].session = conv.session
    BY <1>2 DEF Hashes
  <1>6. CASE ConversationSteps
    BY <1>1, <1>4, <1>5, <1>6, TalksTypedTouch
    DEF ConversationSteps, SessionSteps, SwitchPipeline, RecordMessage, Write
  <1>7. CASE Reset
    BY <1>3, <1>7 DEF Reset, ResetSession, Write, TalksTyped
  <1>8. CASE ChatAck
    BY <1>3, <1>8 DEF ChatAck, Seen, TalksTyped
  <1>9. CASE ChatStop
    BY <1>3, <1>9 DEF ChatStop, TalksTyped
  <1>10. CASE UNCHANGED chatVars  BY <1>1, <1>10 DEF chatVars, sessionVars
  <1>11. CASE \/ ChatArrives \/ RouteCommand \/ RouteUnresolved \/ Reply \/ AskForEngine
              \/ DispatchWorkflow \/ ContextSteps \/ AskSteps \/ Pollers \/ ChatWorld
    <2>1. UNCHANGED <<conv, talk, due>>
      BY <1>11 DEF ChatArrives, RouteCommand, RouteUnresolved, Reply, AskForEngine,
                   DispatchWorkflow, ContextSteps, AskSteps, Pollers, ChatWorld, Passes,
                   Elsewhere, sessionVars
    <2> QED BY <1>1, <2>1
  <1> QED BY <1>6, <1>7, <1>8, <1>9, <1>10, <1>11 DEF ChatNext

(* The inference service: a chain that waits for something has asked.      *)
ChainStages == {"draft.wait", "review", "review.wait", "guard", "guard.wait", "tell.review"}

RequestsTyped == InferenceTypeOK /\ (stage \in ChainStages => requests # 0)

LEMMA RequestsTypedFirst == ChatInit => RequestsTyped
  BY InferenceAssumption
  DEF InferenceAssumption, ChatInit, InferenceInit, LoopStarts, InferenceTypeOK, RequestsTyped,
      ChainStages, PollerStates

(* What neither asks, nor waits, nor tells.                                *)
LEMMA RequestsTypedBeside ==
  ASSUME RequestsTyped, UNCHANGED <<unified, requests, looked, passed>>,
         pollers' \in [RequestIds -> PollerStates], stage' = stage \/ stage' \notin ChainStages
  PROVE  RequestsTyped'
  BY DEF RequestsTyped, InferenceTypeOK

LEMMA RequestsTypedAsked ==
  ASSUME RequestsTyped, AskDirect \/ AskStage
  PROVE  RequestsTyped'
  <1>1. /\ requests \in Nat /\ MaxRequests \in Nat /\ requests <= MaxRequests
        /\ pollers \in [RequestIds -> PollerStates]
    BY InferenceAssumption DEF RequestsTyped, InferenceTypeOK, InferenceAssumption
  <1>2. /\ requests < MaxRequests /\ requests' = requests + 1 /\ UNCHANGED <<looked, passed>>
        /\ unified' \in {unified, Append(unified, Request(requests'))}
        /\ pollers' \in {pollers, [pollers EXCEPT ![requests'] = "waiting"]}
    BY DEF AskDirect, AskStage, Ask
  <1> DEFINE E == [kind : {"request", "answer", "other"}, id : 0 .. MaxRequests, text : Texts]
  <1>3. Request(requests') \in E /\ unified \in Seq(E)
    BY <1>1, <1>2 DEF Request, Texts, RequestsTyped, InferenceTypeOK
  <1>4. pollers' \in [RequestIds -> PollerStates]  BY <1>1, <1>2 DEF PollerStates
  <1>5. passed \subseteq 1 .. requests  BY DEF RequestsTyped, InferenceTypeOK
  <1>6. passed' \subseteq 1 .. requests'  BY <1>1, <1>2, <1>5
  <1>7. unified' \in Seq(E)
    <2> HIDE DEF E
    <2> QED BY <1>2, <1>3
  <1>8. looked' \in [RequestIds -> Nat]  BY <1>2 DEF RequestsTyped, InferenceTypeOK
  <1>9. requests' \in 0 .. MaxRequests /\ requests' # 0  BY <1>1, <1>2
  <1> QED BY <1>4, <1>6, <1>7, <1>8, <1>9 DEF RequestsTyped, InferenceTypeOK

LEMMA RequestsTypedChain ==
  ASSUME RequestsTyped, AskSteps
  PROVE  RequestsTyped'
  <1>1. pollers \in [RequestIds -> PollerStates]  BY DEF RequestsTyped, InferenceTypeOK
  <1>2. CASE Indicator(FirstOf)
    <2>1. stage' \notin ChainStages /\ UNCHANGED inferenceVars
      BY <1>2 DEF Indicator, FirstOf, Advance, ChainStages
    <2> QED BY <1>1, <2>1, RequestsTypedBeside DEF inferenceVars
  <1>3. CASE StageAnswered \/ StageFails \/ GuardVerdict
    <2>1. stage \in ChainStages /\ UNCHANGED inferenceVars
      BY <1>3 DEF StageAnswered, StageFails, GuardVerdict, Advance, ChainStages
    <2> QED BY <2>1 DEF RequestsTyped, InferenceTypeOK, inferenceVars
  <1>4. CASE TellResult
    <2>1. /\ UNCHANGED <<unified, requests, pollers, looked>> /\ stage' = "record"
          /\ passed' = passed \/ (stage = "tell.review" /\ passed' = passed \cup {requests})
      BY <1>4 DEF TellResult, Advance
    <2>2. CASE passed' = passed
      BY <1>1, <2>1, <2>2, RequestsTypedBeside DEF ChainStages
    <2>3. CASE stage = "tell.review" /\ passed' = passed \cup {requests}
      <3>1. requests # 0 /\ requests \in Nat
        BY <2>3, InferenceAssumption
        DEF RequestsTyped, InferenceTypeOK, ChainStages, InferenceAssumption
      <3>2. requests \in 1 .. requests  BY <3>1
      <3>3. passed' \subseteq 1 .. requests'
        BY <2>1, <2>3, <3>2 DEF RequestsTyped, InferenceTypeOK
      <3>4. stage' \notin ChainStages  BY <2>1 DEF ChainStages
      <3> QED BY <2>1, <3>3, <3>4 DEF RequestsTyped, InferenceTypeOK
    <2> QED BY <2>1, <2>2, <2>3
  <1>5. CASE AskDirect \/ AskStage  BY <1>5, RequestsTypedAsked
  <1> QED BY <1>2, <1>3, <1>4, <1>5 DEF AskSteps

LEMMA RequestsTypedPollers ==
  ASSUME RequestsTyped, LookInv, Pollers
  PROVE  RequestsTyped'
  <1>1. /\ pollers \in [RequestIds -> PollerStates] /\ looked \in [RequestIds -> Nat]
        /\ Len(unified) \in Nat
    BY DEF RequestsTyped, InferenceTypeOK, LookInv
  <1>2. PICK r \in RequestIds : PollOnce(r) \/ CheckDeadline(r) \/ DeliverAnswer(r) \/ LogAnswer(r)
    BY DEF Pollers, PollerSteps
  <1>3. /\ UNCHANGED <<unified, requests, passed, stage>>
        /\ \E s \in PollerStates : pollers' = [pollers EXCEPT ![r] = s]
    BY <1>2 DEF PollOnce, CheckDeadline, DeliverAnswer, LogAnswer, PollerGoes, handVars,
                PollerStates
  <1>4. looked' = looked \/ \E n \in {0, Len(unified)} : looked' = [looked EXCEPT ![r] = n]
    BY <1>2 DEF PollOnce, CheckDeadline, DeliverAnswer, LogAnswer
  <1>5. pollers' \in [RequestIds -> PollerStates]  BY <1>1, <1>3
  <1>6. looked' \in [RequestIds -> Nat]  BY <1>1, <1>4
  <1> QED BY <1>3, <1>5, <1>6 DEF RequestsTyped, InferenceTypeOK

LEMMA RequestsTypedWorld ==
  ASSUME RequestsTyped, LookInv, ChatWorld
  PROVE  RequestsTyped'
  <1> DEFINE E == [kind : {"request", "answer", "other"}, id : 0 .. MaxRequests, text : Texts]
  <1>1. pollers \in [RequestIds -> PollerStates] /\ unified \in Seq(E) /\ MaxRequests \in Nat
    BY InferenceAssumption DEF RequestsTyped, InferenceTypeOK, InferenceAssumption
  <1>2. stage' = stage
    BY DEF ChatWorld, Track, ContextExpires, Passes, Serve, OtherEntry, inboundVars, handVars
  <1>3. CASE UNCHANGED inferenceVars
    BY <1>1, <1>2, <1>3, RequestsTypedBeside DEF inferenceVars
  <1>4. ASSUME NEW e \in E, unified' = Append(unified, e),
               UNCHANGED <<requests, pollers, looked, passed>>
        PROVE  RequestsTyped'
    <2>1. unified' \in Seq(E)  BY <1>1, <1>4
    <2> HIDE DEF E
    <2> QED BY <1>2, <1>4, <2>1 DEF RequestsTyped, InferenceTypeOK, E
  <1>5. ASSUME NEW r \in RequestIds, NEW text \in scene.texts, Serve(r, text)
        PROVE  RequestsTyped'
    <2>1. text \in Texts  BY <1>5, SceneAssumption DEF SceneAssumption, LookInv
    <2>2. Answer(r, text) \in E  BY <1>1, <2>1 DEF Answer, RequestIds
    <2> QED BY <1>4, <1>5, <2>2 DEF Serve
  <1>6. CASE OtherEntry
    <2>1. Other \in E  BY <1>1 DEF Other, Texts
    <2> QED BY <1>4, <1>6, <2>1 DEF OtherEntry
  <1> QED BY <1>3, <1>5, <1>6 DEF ChatWorld

LEMMA RequestsTypedStep ==
  ASSUME RequestsTyped, LookInv, [ChatNext]_chatVars
  PROVE  RequestsTyped'
  <1>1. pollers \in [RequestIds -> PollerStates]  BY DEF RequestsTyped, InferenceTypeOK
  <1>2. ASSUME UNCHANGED inferenceVars, stage' = stage \/ stage' \notin ChainStages
        PROVE  RequestsTyped'
    BY <1>1, <1>2, RequestsTypedBeside DEF inferenceVars
  <1> USE DEF ChainStages
  <1>3. CASE \/ ChatArrives \/ RouteCommand \/ RouteUnresolved \/ Reply \/ AskForEngine
             \/ DispatchWorkflow \/ ChatAck
    <2>1. UNCHANGED inferenceVars /\ (stage' = stage \/ stage' \notin ChainStages)
      BY <1>3 DEF ChatArrives, RouteCommand, RouteUnresolved, Reply, AskForEngine,
                  DispatchWorkflow, ChatAck, Elsewhere, ReadInbound, StartInbound, TakeUp,
                  AckInbound, Advance, handVars
    <2> QED BY <1>2, <2>1
  <1>4. CASE ContextSteps \/ ConversationSteps \/ Reset
    <2>1. UNCHANGED inferenceVars /\ stage' \notin ChainStages
      BY <1>4 DEF ContextSteps, ConversationSteps, Reset, ResolveSteps, ReadPointer, ReadContext,
                  ClearPointer, TellComponent, SessionSteps, Touch, CreateSession, SwitchPipeline,
                  RecordMessage, ResetSession, Write, Advance
    <2> QED BY <1>2, <2>1
  <1>5. CASE ChatStop
    <2>1. UNCHANGED <<unified, requests, looked, passed>> /\ stage' = "idle" /\ PollersDie
      BY <1>5 DEF ChatStop, StopInbound
    <2>2. pollers' \in [RequestIds -> PollerStates]
      BY <1>1, <2>1 DEF PollersDie, PollerStates
    <2> QED BY <2>1, <2>2, RequestsTypedBeside
  <1>6. CASE UNCHANGED chatVars
    BY <1>2, <1>6 DEF chatVars, inboundVars, handVars
  <1> QED BY <1>3, <1>4, <1>5, <1>6, RequestsTypedChain, RequestsTypedPollers, RequestsTypedWorld
          DEF ChatNext

(* All of them: every variable of the chat keeps its type, and the stages  *)
(* of the loop and what is in hand go together.                            *)
ChatTypesInv ==
  /\ InboundTypeOK(ChatStages) /\ AlertsTyped /\ TalksTyped /\ RequestsTyped /\ workflows \in Nat

LEMMA TypesOfChat ==
  ASSUME ChatTypesInv, PointerInv, SessionInv
  PROVE  ChatTypeOK
  <1>1. ContextTypeOK
    BY DEF ChatTypesInv, PointerInv, AlertsTyped, ContextTypeOK, ContextStages, Resolving
  <1>2. SessionTypeOK
    <2>1. MaxTicks \in Nat  BY SessionAssumption DEF SessionAssumption
    <2>2. conv \in [on : BOOLEAN, session : 0 .. (MaxTicks + 1), last : 0 .. MaxTicks,
                    pipeline : Pipelines]
      BY <2>1 DEF ChatTypesInv, TalksTyped, SessionInv, Hashes
    <2> QED BY <2>1, <2>2 DEF ChatTypesInv, TalksTyped, Talks, SessionInv, SessionTypeOK, Never
  <1> QED BY <1>1, <1>2 DEF ChatTypesInv, RequestsTyped, PointerInv, ChatTypeOK

LEMMA WorkflowsTyped ==
  ASSUME workflows \in Nat, [ChatNext]_chatVars
  PROVE  workflows' \in Nat
  <1>1. CASE DispatchWorkflow  BY <1>1 DEF DispatchWorkflow
  <1>2. CASE ~DispatchWorkflow
    <2>1. UNCHANGED workflows
      BY <1>2 DEF chatVars, ChatNext, ChatArrives, RouteCommand, RouteUnresolved, Reply, Reset,
                  AskForEngine, ContextSteps, ConversationSteps, AskSteps, Pollers, ChatAck,
                  ChatStop, ChatWorld, Elsewhere, chatOnlyVars
    <2> QED BY <2>1
  <1> QED BY <1>1, <1>2

LEMMA ChatTyped == ChatSpec => []ChatTypeOK
  <1>1. ChatInit => ChatTypesInv
    BY EntriesTypedFirst, AlertsTypedFirst, TalksTypedFirst, RequestsTypedFirst
    DEF ChatTypesInv, ChatInit
  <1>2. ChatTypesInv /\ PointerInv /\ SessionInv /\ LookInv /\ [ChatNext]_chatVars => ChatTypesInv'
    BY EntriesTypedStep, AlertsTypedStep, TalksTypedStep, RequestsTypedStep, WorkflowsTyped
    DEF ChatTypesInv
  <1>3. ChatTypesInv /\ PointerInv /\ SessionInv => ChatTypeOK  BY TypesOfChat
  <1> QED BY <1>1, <1>2, <1>3, PointerInit, PointerStep, SessionStarts, SessionStep, LookInit,
             LookStep, PTL
          DEF ChatSpec
=============================================================================
