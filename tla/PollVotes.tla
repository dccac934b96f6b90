------------------------------ MODULE PollVotes ------------------------------
(***************************************************************************)
(* handle_poll_callback of src/main.rs: an operator presses a button of a  *)
(* poll. The press is claimed on the poll's context hash, which the        *)
(* dispatch of the poll stored with a day to live, and the vote is put on  *)
(* the producer's callback stream. The first press wins.                   *)
(***************************************************************************)
EXTENDS InboundStream

CONSTANTS
  Polls,
  MaxMade   (* bound: how often a poll finds no context and makes it        *)

ASSUME PollAssumption == MaxMade \in Nat

VARIABLES
  context,  (* {site}:comms:context:<poll>                                  *)
  claim,    (* its field poll_vote: the press that claimed it, or 0         *)
  votes,    (* the presses put on the producer's callback stream            *)
  made      (* how often there was no such hash and it was made             *)

pollVars == <<context, claim, votes, made>>

(* "untimed": made by a claim after it had expired, with no time to live   *)
(* and nothing in it but the claim.                                        *)
Contexts == {"none", "live", "expired", "untimed"}

PollStages == {"press.read", "press.claim", "press.vote"}

PollTypeOK ==
  /\ context \in [Polls -> Contexts]
  /\ claim \in [Polls -> Numbers \cup {0}]
  /\ votes \in [Polls -> Seq(Numbers)]
  /\ made \in [Polls -> Nat]

PollInit ==
  /\ context = [p \in Polls |-> "none"]
  /\ claim = [p \in Polls |-> 0]
  /\ votes = [p \in Polls |-> <<>>]
  /\ made = [p \in Polls |-> 0]

Exists(p) == context[p] \in {"live", "untimed"}

-----------------------------------------------------------------------------
(* The context is stored before the poll is sent, and again before every   *)
(* message with its id: HSET leaves a claim where it is, EXPIRE gives the  *)
(* hash another day. (Nothing changes while it lives.)                     *)
TrackPoll(p) ==
  /\ \/ ~ Exists(p) /\ made[p] < MaxMade /\ made' = [made EXCEPT ![p] = @ + 1]
     \/ context[p] = "untimed" /\ UNCHANGED made
  /\ context' = [context EXCEPT ![p] = "live"]
  /\ UNCHANGED <<inboundVars, claim, votes>>

PollExpires(p) ==
  /\ context[p] = "live"
  /\ context' = [context EXCEPT ![p] = "expired"]
  /\ claim' = [claim EXCEPT ![p] = 0]
  /\ UNCHANGED <<inboundVars, votes, made>>

-----------------------------------------------------------------------------
Press == stream[hand]
ThePoll == InHand.poll

(* HGETALL: an empty hash is a closed poll.                                *)
PressReads ==
  /\ \/ Advance("press.read", "press.claim") /\ Exists(ThePoll) /\ NoTrouble
     \/ Advance("press.read", "ack") /\ ~ Exists(ThePoll) /\ NoTrouble
     \/ Advance("press.read", "ack") /\ Trouble("valkey")
  /\ UNCHANGED pollVars

(* The claim makes the hash again when it has expired since the read.      *)
Writes ==
  /\ claim' = [claim EXCEPT ![ThePoll] = Press]
  /\ IF Exists(ThePoll) THEN UNCHANGED <<context, made>>
     ELSE /\ context' = [context EXCEPT ![ThePoll] = "untimed"]
          /\ made' = [made EXCEPT ![ThePoll] = @ + 1]

Claimed == claim[ThePoll] = 0 /\ Writes

(* The claim written whatever is there.                                    *)
PressClaimsAgain ==
  /\ \/ Advance("press.claim", "press.vote") /\ Writes /\ NoTrouble
     \/ Advance("press.claim", "ack") /\ Writes /\ Trouble("valkey")
     \/ Advance("press.claim", "ack") /\ UNCHANGED <<claim, context, made>> /\ Trouble("valkey")
  /\ UNCHANGED votes

(* HSETNX. A failed answer counts as a poll somebody else has claimed,     *)
(* whether the claim was written or not.                                   *)
PressClaims ==
  /\ \/ Advance("press.claim", "press.vote") /\ Claimed /\ NoTrouble
     \/ Advance("press.claim", "ack") /\ claim[ThePoll] # 0 /\ UNCHANGED <<claim, context, made>>
          /\ NoTrouble
     \/ Advance("press.claim", "ack") /\ Claimed /\ Trouble("valkey")
     \/ Advance("press.claim", "ack") /\ UNCHANGED <<claim, context, made>> /\ Trouble("valkey")
  /\ UNCHANGED votes

(* XADD to the callback stream; when it fails the claim stands.            *)
PressVotes ==
  /\ Advance("press.vote", "ack")
  /\ \/ votes' = [votes EXCEPT ![ThePoll] = Append(@, Press)] /\ NoTrouble
     \/ votes' = votes /\ Trouble("valkey")
  /\ UNCHANGED <<context, claim, made>>

PressSteps == PressReads \/ PressClaims \/ PressVotes
=============================================================================
