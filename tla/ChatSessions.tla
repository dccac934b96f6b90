----------------------------- MODULE ChatSessions -----------------------------
(***************************************************************************)
(* Sessions of src/inbound/conversation_state.rs: the hash of a chat with  *)
(* its session, the time of its last activity and its pipeline. Reading it *)
(* also touches it; a chat that was idle for too long, or has no hash, is  *)
(* given a new session in a second call. One chat.                         *)
(***************************************************************************)
EXTENDS InboundStream

CONSTANTS
  Timeout,     (* SESSION_TIMEOUT_SECS, in ticks                            *)
  MaxTicks     (* bound: ticks                                              *)

ASSUME SessionAssumption == Timeout \in Nat /\ MaxTicks \in Nat

VARIABLES
  tick,        (* Utc::now()                                                *)
  conv,        (* the chat's hash; session 0 is an empty id                 *)
  talk,        (* the session and pipeline the loop took from it            *)
  (* What the properties remember *)
  lastSeen,    (* when the last message was done with; Never after a reset  *)
  due,         (* a new session is due for the message in hand              *)
  began        (* when the loop took that message up                        *)

sessionVars == <<tick, conv, talk, lastSeen, due, began>>

SessionStages == {"touch", "create", "switch", "record", "reset"}

Pipelines == {"default", "chosen"}

(* A session's id carries the time it was made at.                         *)
NoSession == 0
SessionMadeAt(t) == t + 1
Never == MaxTicks + 1

NoHash == [on |-> FALSE, session |-> NoSession, last |-> 0, pipeline |-> "default"]
NoTalk == [session |-> NoSession, pipeline |-> "default"]

SessionTypeOK ==
  /\ tick \in 0 .. MaxTicks
  /\ conv \in [on : BOOLEAN, session : 0 .. (MaxTicks + 1), last : 0 .. MaxTicks,
               pipeline : Pipelines]
  /\ talk \in [session : 0 .. (MaxTicks + 1), pipeline : Pipelines]
  /\ lastSeen \in 0 .. Never /\ due \in BOOLEAN /\ began \in 0 .. MaxTicks

SessionInit ==
  /\ tick = 0 /\ conv = NoHash /\ talk = NoTalk
  /\ lastSeen = Never /\ due = FALSE /\ began = 0

Passes ==
  /\ tick < MaxTicks /\ tick' = tick + 1
  /\ UNCHANGED <<inboundVars, conv, talk, lastSeen, due, began>>

-----------------------------------------------------------------------------
IdleSince(t) == tick - t > Timeout

(* Judged by the hash as the touch leaves it.                              *)
StaleAfterTouch(hash) == ~hash.on

(* Judged by the hash as it was before the touch.                          *)
NeedsSession(hash) == ~hash.on \/ IdleSince(hash.last)

Touched == [conv EXCEPT !.on = TRUE, !.last = tick]

(* get_or_create: HGETALL and HSET last_activity in one transaction. When  *)
(* it fails the loop goes on with the default pipeline and no session.     *)
Touch(next) ==
  /\ \/ /\ IF NeedsSession(conv)
           THEN Advance("touch", "create") /\ talk' = NoTalk
           ELSE Advance("touch", next)
                /\ talk' = [session |-> conv.session, pipeline |-> conv.pipeline]
        /\ conv' = Touched /\ NoTrouble
     \/ /\ Advance("touch", next) /\ talk' = NoTalk
        /\ conv' \in {conv, Touched} /\ Trouble("valkey")
  /\ due' = (lastSeen = Never \/ IdleSince(lastSeen)) /\ began' = tick
  /\ UNCHANGED <<tick, lastSeen>>

(* create_session.                                                         *)
CreateSession(next) ==
  LET new == [on |-> TRUE, session |-> SessionMadeAt(tick), last |-> tick,
              pipeline |-> "default"]
  IN  /\ Advance("create", next)
      /\ \/ conv' = new /\ talk' = [session |-> new.session, pipeline |-> "default"] /\ NoTrouble
         \/ conv' \in {conv, new} /\ talk' = NoTalk /\ Trouble("valkey")
      /\ UNCHANGED <<tick, lastSeen, due, began>>

(* set_pipeline, record_message and reset; their results are dropped, and  *)
(* a hash that is not there is made by the first two.                      *)
Write(from, hash, next) ==
  /\ Advance(from, next)
  /\ \/ conv' = hash /\ NoTrouble
     \/ conv' = conv /\ Trouble("valkey")
  /\ UNCHANGED <<tick, talk, due, began>>

SwitchPipeline ==
  Write("switch", [conv EXCEPT !.on = TRUE, !.pipeline = "chosen"], "reply") /\ UNCHANGED lastSeen

RecordMessage == Write("record", Touched, "ack") /\ UNCHANGED lastSeen

ResetSession == Write("reset", NoHash, "reply") /\ lastSeen' = Never

(* The loop is done with the message.                                      *)
Seen ==
  /\ lastSeen' = IF lastSeen = Never /\ InHand = "reset" THEN Never ELSE tick
  /\ talk' = NoTalk /\ due' = FALSE /\ began' = 0
  /\ UNCHANGED <<tick, conv>>

SessionSteps(next) ==
  Touch(next) \/ CreateSession(next) \/ SwitchPipeline \/ RecordMessage

-----------------------------------------------------------------------------
(* A message that comes when the chat was idle for too long, or after a    *)
(* reset, goes to a session made for it and to the default pipeline, never *)
(* on in the old one, although the call that reads the last activity also  *)
(* refreshes it. Only a failed call, or a crash between the touch and the  *)
(* creation, can break it: the old session is then taken for a live one.   *)
FreshSession ==
  stage = "route" /\ due /\ met \cap {"valkey", "crash"} = {} =>
    talk.session >= SessionMadeAt(began) /\ talk.pipeline = "default"
=============================================================================
