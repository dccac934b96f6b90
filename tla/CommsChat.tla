------------------------------ MODULE CommsChat ------------------------------
(***************************************************************************)
(* The operators' side of the inbound loop of src/main.rs: an entry of the *)
(* inbound stream that web links left alone is given its session, routed   *)
(* (src/inbound/command_router.rs) and acted on. One chat; an update is a  *)
(* word: a reply word, "reset", "pipeline" (the command or its button),    *)
(* "status" (what is answered on the spot, from memory or from keys that   *)
(* are only read), "slash" (an unknown command) or "text". A word that is  *)
(* also a verb of workflow_dispatch.rs starts a workflow when no alert     *)
(* takes it.                                                               *)
(***************************************************************************)
EXTENDS ReplyContexts, ChatSessions, Inference

CONSTANTS
  ReplyWords,  (* updates that look like a reply command                    *)
  Verbs,       (* those that recognize_intent knows                         *)
  Scenes       (* bound: what the world does in a behaviour                 *)

(* parse_text: what begins with a slash, or is a button, is no reply word, *)
(* and what is no short capital word is text.                              *)
ASSUME ChatAssumption ==
  /\ Verbs \subseteq ReplyWords /\ ReplyWords \subseteq Updates
  /\ Updates \subseteq ReplyWords \cup {"reset", "pipeline", "status", "slash", "text"}
  /\ ReplyWords \cap {"reset", "pipeline", "status", "slash", "text"} = {}

(* The words and how many are sent; ticks that pass, alerts that are       *)
(* raised, requests to the service and texts it answers with (with none,   *)
(* pollers stand still); chained is inference_chain_enabled, engine that a *)
(* group consumes the workflow stream.                                     *)
ASSUME SceneAssumption ==
  \A s \in Scenes :
    /\ s.words \subseteq Updates /\ s.messages \in 0 .. MaxSent
    /\ s.ticks \in 0 .. MaxTicks /\ s.alerts \subseteq Alerts /\ s.texts \subseteq Texts
    /\ s.requests \in 0 .. MaxRequests /\ s.chained \in BOOLEAN /\ s.engine \in BOOLEAN

VARIABLES
  scene,
  workflows    (* workflows on that stream                                  *)

chatOnlyVars == <<scene, workflows>>
chatVars == <<inboundVars, contextVars, sessionVars, inferenceVars, chatOnlyVars>>

ChatStages ==
  {"idle", "ack", "route", "unresolved", "engine", "workflow", "reply"}
    \cup ContextStages \cup SessionStages \cup InferenceStages

ChatTypeOK ==
  /\ InboundTypeOK(ChatStages) /\ ContextTypeOK /\ SessionTypeOK /\ InferenceTypeOK
  /\ scene \in Scenes /\ workflows \in Nat

ChatInit ==
  /\ LoopStarts /\ ContextInit /\ SessionInit /\ InferenceInit
  /\ scene \in Scenes /\ workflows = 0
  /\ sent \in [1 .. scene.messages -> scene.words] /\ stream = [i \in 1 .. scene.messages |-> i]
  /\ confirmed = scene.messages /\ offset = scene.messages /\ fetched = scene.messages

-----------------------------------------------------------------------------
Elsewhere == UNCHANGED <<contextVars, sessionVars, inferenceVars, chatOnlyVars>>

(* The updates are in the inbound stream already: how they get there, and  *)
(* what goes wrong with the stream itself, is in CommsInbound.             *)
ChatArrives ==
  /\ NoTrouble
  /\ \/ ReadInbound
     \/ StartInbound
     \/ \E i \in toHandle : TakeUp(i, "touch")
  /\ Elsewhere

(* Where a message to the inference service begins: an unknown command is  *)
(* always asked directly (and without its session).                        *)
FirstOf == IF scene.chained /\ InHand # "slash" THEN "draft" ELSE "request"

(* route_command, after the session is known.                              *)
RouteCommand ==
  /\ Advance("route", CASE InHand = "reset"       -> "reset"
                        [] InHand = "pipeline"    -> "switch"
                        [] InHand = "status"      -> "reply"
                        [] InHand \in ReplyWords  -> "pointer"
                        [] OTHER                  -> "indicator")
  /\ NoTrouble /\ Elsewhere

(* A local command, a button or a confirmation is answered; what cannot be *)
(* read is left out of the answer, and an answer that fails is dropped.    *)
Reply ==
  /\ Advance("reply", "ack") /\ (NoTrouble \/ Trouble("telegram"))
  /\ Elsewhere

(* A reply word no alert takes.                                            *)
RouteUnresolved ==
  /\ Advance("unresolved", IF InHand \in Verbs THEN "engine" ELSE "indicator")
  /\ NoTrouble /\ Elsewhere

(* reset: both keys in one pipeline, which is no transaction.              *)
Reset ==
  /\ ResetSession
  /\ pointer' \in {NoAlert} \cup (IF met' = met THEN {} ELSE {pointer})
  /\ UNCHANGED <<contexts, resolving, tracked, answered, inferenceVars, chatOnlyVars>>

-----------------------------------------------------------------------------
(* Workflow dispatch: XINFO GROUPS, then XADD, and the chat is told what   *)
(* came of it. The verbs modelled are those whose workflow and action are  *)
(* on the dispatcher's lists.                                              *)
AskForEngine ==
  /\ \/ Advance("engine", IF scene.engine THEN "workflow" ELSE "reply") /\ NoTrouble
     \/ Advance("engine", "reply") /\ Trouble("valkey")
  /\ Elsewhere

DispatchWorkflow ==
  /\ Advance("workflow", "reply")
  /\ \/ workflows' = workflows + 1 /\ NoTrouble
     \/ workflows' \in {workflows, workflows + 1} /\ Trouble("valkey")
  /\ UNCHANGED <<contextVars, sessionVars, inferenceVars, scene>>

-----------------------------------------------------------------------------
ContextSteps ==
  ResolveSteps("unresolved") /\ UNCHANGED <<sessionVars, inferenceVars, chatOnlyVars>>

ConversationSteps ==
  SessionSteps("route") /\ UNCHANGED <<contextVars, inferenceVars, chatOnlyVars>>

AskSteps ==
  /\ \/ Indicator(FirstOf) \/ StageAnswered \/ StageFails \/ GuardVerdict \/ TellResult
     \/ requests < scene.requests /\ (AskDirect \/ AskStage)
  /\ UNCHANGED <<contextVars, sessionVars, chatOnlyVars>>

Pollers == scene.texts # {} /\ PollerSteps /\ UNCHANGED <<contextVars, sessionVars, chatOnlyVars>>

ChatAck == NoTrouble /\ AckInbound /\ Seen /\ UNCHANGED <<contextVars, inferenceVars, chatOnlyVars>>

(* The loop's own memory and the pollers die with the daemon.              *)
ChatStop ==
  /\ StopInbound /\ PollersDie
  /\ resolving' = NoAlert /\ talk' = NoTalk /\ due' = FALSE /\ began' = 0
  /\ UNCHANGED <<contexts, pointer, tracked, answered, tick, conv, lastSeen,
                 unified, requests, looked, passed, chatOnlyVars>>

ChatWorld ==
  \/ (\E a \in scene.alerts : Track(a) \/ ContextExpires(a))
     /\ UNCHANGED <<sessionVars, inferenceVars, chatOnlyVars>>
  \/ tick < scene.ticks /\ Passes /\ UNCHANGED <<contextVars, inferenceVars, chatOnlyVars>>
  \/ scene.texts # {} /\ ((\E r \in RequestIds, t \in scene.texts : Serve(r, t)) \/ OtherEntry)
     /\ UNCHANGED <<contextVars, sessionVars, chatOnlyVars>>

ChatNext ==
  \/ ChatArrives \/ RouteCommand \/ RouteUnresolved \/ Reply \/ Reset
  \/ AskForEngine \/ DispatchWorkflow
  \/ ContextSteps \/ ConversationSteps \/ AskSteps \/ Pollers
  \/ ChatAck \/ ChatStop \/ ChatWorld

ChatSpec == ChatInit /\ [][ChatNext]_chatVars
=============================================================================
