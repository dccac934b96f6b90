---------------------------- MODULE ReplyContexts ----------------------------
(***************************************************************************)
(* Reply contexts of src/inbound/conversation_state.rs: an alert that can  *)
(* be answered leaves a hash with the words it takes, and the chat's       *)
(* pointer names the last such alert. A typed word is resolved against     *)
(* the alert the pointer names, in three calls, and only then told to the  *)
(* component that raised it. One chat: the pointer of a chat is its own.   *)
(***************************************************************************)
EXTENDS InboundStream

CONSTANTS
  Alerts,     (* context ids                                                *)
  NoAlert,    (* no pointer                                                 *)
  OptionsOf,  (* the words an alert takes: its reply_options                *)
  MaxAlerts   (* bound: how often an alert is tracked                       *)

ASSUME ContextAssumption ==
  /\ NoAlert \notin Alerts /\ MaxAlerts \in Nat
  /\ \A a \in Alerts : OptionsOf[a] \subseteq Updates

VARIABLES
  contexts,   (* alerts whose hash exists                                   *)
  pointer,    (* {site}:comms:active_context:{chat}                         *)
  resolving,  (* the alert resolve_reply read from the pointer              *)
  tracked,    (* history: how often an alert was tracked                    *)
  answered    (* history: answers a component was sent                      *)

contextVars == <<contexts, pointer, resolving, tracked, answered>>

ContextStages == {"pointer", "context", "clear", "callback"}

ContextTypeOK ==
  /\ contexts \subseteq Alerts /\ pointer \in Alerts \cup {NoAlert}
  /\ resolving \in Alerts \cup {NoAlert}
  /\ resolving # NoAlert => stage \in ContextStages
  /\ tracked \in [Alerts -> 0 .. MaxAlerts] /\ answered \in [Alerts -> Nat]

ContextInit ==
  /\ contexts = {} /\ pointer = NoAlert /\ resolving = NoAlert
  /\ tracked = [a \in Alerts |-> 0] /\ answered = [a \in Alerts |-> 0]

-----------------------------------------------------------------------------
(* The daemons that dispatch.                                              *)

(* track_context: the hash, then the pointer, in one pipeline that is no   *)
(* transaction. track_callback_context writes the hash only.               *)
Tracks(a) == contexts' = contexts \cup {a} /\ pointer' \in {a, pointer}

(* An alert is tracked before it is dispatched, and again when its entry   *)
(* is; it needs a chat for a pointer, and a failure is dropped.            *)
Track(a) ==
  /\ tracked[a] < MaxAlerts
  /\ tracked' = [tracked EXCEPT ![a] = @ + 1]
  /\ Tracks(a)
  /\ UNCHANGED <<inboundVars, resolving, answered>>

(* Both keys live for a day, the pointer no shorter than its alert.        *)
ContextExpires(a) ==
  /\ a \in contexts /\ contexts' = contexts \ {a}
  /\ pointer' \in {pointer} \cup (IF pointer = a THEN {NoAlert} ELSE {})
  /\ UNCHANGED <<inboundVars, resolving, tracked, answered>>

-----------------------------------------------------------------------------
(* resolve_reply; `otherwise` is where an unresolved word goes on, and a   *)
(* call that fails ends the handling of the entry.                         *)
ReadPointer(otherwise) ==
  /\ \/ Advance("pointer", "context") /\ pointer # NoAlert /\ resolving' = pointer /\ NoTrouble
     \/ Advance("pointer", otherwise) /\ pointer = NoAlert /\ UNCHANGED resolving /\ NoTrouble
     \/ Advance("pointer", "ack") /\ UNCHANGED resolving /\ Trouble("valkey")
  /\ UNCHANGED <<contexts, pointer, tracked, answered>>

(* The hash may be gone, and the word may not be one of its options.       *)
Answers(word, a) == a \in contexts /\ word \in OptionsOf[a]

ReadContext(otherwise) ==
  /\ \/ Advance("context", "clear") /\ Answers(InHand, resolving) /\ UNCHANGED resolving
        /\ NoTrouble
     \/ Advance("context", otherwise) /\ ~Answers(InHand, resolving) /\ resolving' = NoAlert
        /\ NoTrouble
     \/ Advance("context", "ack") /\ resolving' = NoAlert /\ Trouble("valkey")
  /\ UNCHANGED <<contexts, pointer, tracked, answered>>

(* The pointer survives the answer.                                        *)
KeepPointer ==
  /\ Advance("clear", "callback") /\ UNCHANGED resolving /\ NoTrouble
  /\ UNCHANGED <<contexts, pointer, tracked, answered>>

(* DEL of the pointer, whichever alert it names by now. A call that failed *)
(* may have been carried out.                                              *)
ClearPointer ==
  /\ \/ Advance("clear", "callback") /\ pointer' = NoAlert /\ UNCHANGED resolving /\ NoTrouble
     \/ Advance("clear", "ack") /\ pointer' \in {pointer, NoAlert} /\ resolving' = NoAlert
        /\ Trouble("valkey")
  /\ UNCHANGED <<contexts, tracked, answered>>

(* The XADD to the component's callback stream; its result is dropped.     *)
TellComponent ==
  /\ Advance("callback", "ack") /\ resolving' = NoAlert
  /\ \/ answered' = [answered EXCEPT ![resolving] = @ + 1] /\ NoTrouble
     \/ answered' = answered /\ Trouble("valkey")
  /\ UNCHANGED <<contexts, pointer, tracked>>

ResolveSteps(otherwise) ==
  ReadPointer(otherwise) \/ ReadContext(otherwise) \/ ClearPointer \/ TellComponent

-----------------------------------------------------------------------------
(* However often a word is sent, or its entry handled again after a crash, *)
(* a component gets one answer at most for each time its alert was tracked:*)
(* the pointer goes before the answer does. (The price: a crash, or a      *)
(* failure, between the two loses the answer.)                             *)
AnsweredOnce == \A a \in Alerts : answered[a] <= tracked[a]
=============================================================================
