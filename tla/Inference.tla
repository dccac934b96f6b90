------------------------------ MODULE Inference ------------------------------
(***************************************************************************)
(* What a chat asks of the inference service: the request the loop writes  *)
(* to the unified stream and the poller it leaves behind                   *)
(* (src/inbound/response_poller.rs), or the chain of draft, review and     *)
(* guard that it waits for itself (src/inbound/inference_chain.rs). Both   *)
(* find the answer by looking at the newest entries of a stream everything *)
(* else writes to as well. The service is not in this repository.          *)
(***************************************************************************)
EXTENDS InboundStream

CONSTANTS
  Newest,      (* entries a poll looks at                                   *)
  MaxRequests, (* bound: requests                                           *)
  MaxOther     (* bound: other entries of the unified stream                *)

ASSUME InferenceAssumption ==
  Newest \in Nat \ {0} /\ MaxRequests \in Nat /\ MaxOther \in Nat

VARIABLES
  unified,     (* the unified stream                                        *)
  requests,    (* ids given to requests so far                              *)
  pollers,     (* the poller of a request                                   *)
  looked,      (* history: the stream's length at a look that saw nothing    *)
  passed       (* history: guard requests on whose word a review was shown  *)

inferenceVars == <<unified, requests, pollers, looked, passed>>

RequestIds == 1 .. MaxRequests

PollerStates == {"none", "waiting", "looked", "found", "shown", "unshown",
                 "done", "kept", "lost", "timedout", "dead"}

InferenceStages ==
  {"indicator", "request", "request.bare", "draft", "draft.wait", "review", "review.wait",
   "guard", "guard.wait", "tell.review", "tell.filtered", "tell.error"}

Texts == {"safe", "other"}
Request(r) == [kind |-> "request", id |-> r, text |-> "other"]
Answer(r, text) == [kind |-> "answer", id |-> r, text |-> text]
Other == [kind |-> "other", id |-> 0, text |-> "other"]

InferenceTypeOK ==
  /\ unified \in Seq([kind : {"request", "answer", "other"}, id : 0 .. MaxRequests, text : Texts])
  /\ requests \in 0 .. MaxRequests
  /\ pollers \in [RequestIds -> PollerStates] /\ looked \in [RequestIds -> Nat]
  /\ passed \subseteq 1 .. requests

InferenceInit ==
  /\ unified = << >> /\ requests = 0 /\ passed = {}
  /\ pollers = [r \in RequestIds |-> "none"] /\ looked = [r \in RequestIds |-> 0]

Positions(kind, id) == {i \in DOMAIN unified : unified[i].kind = kind /\ unified[i].id = id}
Answered(r) == Positions("answer", r) # {}
Says(r, text) == \E i \in Positions("answer", r) : unified[i].text = text

-----------------------------------------------------------------------------
(* The service answers a request once, with a result or with an error; to  *)
(* the guard's verdict only the beginning of the text matters, and it is   *)
(* read the same way from both.                                            *)
Serve(r, text) ==
  /\ Positions("request", r) # {} /\ ~Answered(r)
  /\ unified' = Append(unified, Answer(r, text))
  /\ UNCHANGED <<inboundVars, requests, pollers, looked, passed>>

OtherEntry ==
  /\ Cardinality(Positions("other", 0)) < MaxOther
  /\ unified' = Append(unified, Other)
  /\ UNCHANGED <<inboundVars, requests, pollers, looked, passed>>

-----------------------------------------------------------------------------
(* XRANGE in place of XREVRANGE.                                           *)
OldestSees(r) == \E i \in Positions("answer", r) : i <= Newest

(* XREVRANGE + - COUNT 20.                                                 *)
Sees(r) == \E i \in Positions("answer", r) : i > Len(unified) - Newest

(* The XADD of a request; a failed one leaves an id nothing answers.       *)
Ask(from, to, failed) ==
  /\ requests < MaxRequests /\ requests' = requests + 1
  /\ \/ Advance(from, to) /\ unified' = Append(unified, Request(requests')) /\ NoTrouble
     \/ Advance(from, failed) /\ unified' = unified /\ Trouble("valkey")
  /\ UNCHANGED <<looked, passed>>

(* "Processing...": without it nobody polls for the answer.                *)
Indicator(first) ==
  /\ \/ Advance("indicator", first) /\ NoTrouble
     \/ Advance("indicator", IF first = "draft" THEN first ELSE "request.bare")
        /\ Trouble("telegram")
  /\ UNCHANGED inferenceVars

(* One pipeline: the request's result is dropped, a poller is spawned.     *)
AskDirect ==
  \/ Ask("request", "record", "record") /\ pollers' = [pollers EXCEPT ![requests'] = "waiting"]
  \/ Ask("request.bare", "record", "record") /\ UNCHANGED pollers

-----------------------------------------------------------------------------
(* The poller, a task of its own.                                          *)
PollerGoes(r, from, to) ==
  /\ running /\ pollers[r] = from /\ pollers' = [pollers EXCEPT ![r] = to]
  /\ UNCHANGED <<telegramVars, stream, groupVars, running, toHandle, handVars, handled,
                 unified, requests, passed>>

(* A poll that failed is a poll that saw nothing.                          *)
PollOnce(r) ==
  /\ \/ PollerGoes(r, "waiting", IF Sees(r) THEN "found" ELSE "looked") /\ NoTrouble
     \/ PollerGoes(r, "waiting", "looked") /\ Trouble("valkey")
  /\ looked' = [looked EXCEPT ![r] = IF pollers'[r] = "looked" THEN Len(unified) ELSE 0]

(* The deadline is looked at after each poll without an answer. Past it,   *)
(* the placeholder says so, and nobody looks again.                        *)
CheckDeadline(r) ==
  /\ \/ PollerGoes(r, "looked", "waiting") /\ looked' = [looked EXCEPT ![r] = 0]
     \/ PollerGoes(r, "looked", "timedout") /\ UNCHANGED looked
  /\ NoTrouble

DeliverAnswer(r) ==
  /\ \/ PollerGoes(r, "found", "shown") /\ NoTrouble
     \/ PollerGoes(r, "found", "unshown") /\ Trouble("telegram")
  /\ UNCHANGED looked

(* log_response: the whole text goes to a list, delivered or not.          *)
LogAnswer(r) ==
  /\ \/ PollerGoes(r, "shown", "done") /\ NoTrouble
     \/ PollerGoes(r, "shown", "done") /\ Trouble("valkey")
     \/ PollerGoes(r, "unshown", "kept") /\ NoTrouble
     \/ PollerGoes(r, "unshown", "lost") /\ Trouble("valkey")
  /\ UNCHANGED looked

PollerSteps ==
  \E r \in RequestIds : PollOnce(r) \/ CheckDeadline(r) \/ DeliverAnswer(r) \/ LogAnswer(r)

PollersDie ==
  pollers' = [r \in RequestIds |->
    IF pollers[r] \in {"waiting", "looked", "found", "shown", "unshown"}
    THEN "dead" ELSE pollers[r]]

-----------------------------------------------------------------------------
(* The chain: each stage is a request, and the loop waits for its answer.  *)
AskStage ==
  /\ \/ Ask("draft", "draft.wait", "tell.error")
     \/ Ask("review", "review.wait", "tell.error")
     \/ Ask("guard", "guard.wait", "tell.error")
  /\ UNCHANGED pollers

(* A stage that is not answered in time, or whose poll fails, ends it.     *)
StageFails ==
  /\ \E s \in {"draft.wait", "review.wait", "guard.wait"} :
       Advance(s, "tell.error") /\ (NoTrouble \/ Trouble("valkey"))
  /\ UNCHANGED inferenceVars

StageAnswered ==
  /\ Sees(requests) /\ NoTrouble
  /\ (Advance("draft.wait", "review") \/ Advance("review.wait", "guard"))
  /\ UNCHANGED inferenceVars

(* The verdict is read from the review.                                    *)
VerdictOfReview ==
  /\ Sees(requests) /\ NoTrouble
  /\ Advance("guard.wait", IF Says(requests - 1, "safe") THEN "tell.review" ELSE "tell.filtered")
  /\ UNCHANGED inferenceVars

(* The verdict: an answer that begins with "safe".                         *)
GuardVerdict ==
  /\ Sees(requests) /\ NoTrouble
  /\ Advance("guard.wait", IF Says(requests, "safe") THEN "tell.review" ELSE "tell.filtered")
  /\ UNCHANGED inferenceVars

(* The placeholder is edited, or a message sent; the result is dropped.    *)
TellResult ==
  /\ \/ Advance("tell.review", "record") /\ passed' = passed \cup {requests}
     \/ Advance("tell.filtered", "record") /\ UNCHANGED passed
     \/ Advance("tell.error", "record") /\ UNCHANGED passed
  /\ (NoTrouble \/ Trouble("telegram"))
  /\ UNCHANGED <<unified, requests, pollers, looked>>

-----------------------------------------------------------------------------
(* Properties.                                                             *)

(* A poller tells a chat that its request timed out only if, at its last   *)
(* look, the service had not answered, or so much else had been written    *)
(* since that the answer was no longer among the newest entries: an answer *)
(* that comes together with the deadline is taken. A failed look excepted. *)
TimeoutForCause ==
  \A r \in RequestIds : pollers[r] = "timedout" /\ "valkey" \notin met =>
    \A i \in Positions("answer", r) : i > looked[r] \/ i + Newest <= looked[r]

(* A review is shown to the operator only when the guard was asked about   *)
(* that very review, after it was there, and answered "safe": an answer    *)
(* that is late, missing or an answer to an earlier stage lets nothing     *)
(* through.                                                                *)
GuardHolds ==
  \A g \in passed :
    /\ Says(g, "safe")
    /\ \E i \in Positions("answer", g - 1), j \in Positions("request", g) : i < j
=============================================================================
