---------------------------- MODULE CommsInbound ----------------------------
(***************************************************************************)
(* The inbound side of src/main.rs: what people send to the bot, from      *)
(* Telegram through the receiver and the inbound stream to the handlers of *)
(* web links and of poll votes.                                            *)
(*                                                                         *)
(* An update is a record: `op` the account that sent it (private chat),    *)
(* `kind` "link" (with `code`), "unlink", "ask" or "press" (with `poll`).  *)
(* A question the handler of web links leaves to the operators' command    *)
(* router is acknowledged without more: the router is not modelled here.   *)
(***************************************************************************)
EXTENDS WebLinks, PollVotes

UpdateKinds == {"link", "unlink", "ask", "press"}

ASSUME UpdateAssumption ==
  \A x \in Updates :
    /\ x.kind \in UpdateKinds /\ x.op \in Operators
    /\ x.kind = "link" => x.code \in Codes
    /\ x.kind = "press" => x.poll \in Polls

vars == <<inboundVars, linkVars, pollVars>>

Stages == {"idle", "ack"} \cup LinkStages \cup PollStages

TypeOK == InboundTypeOK(Stages) /\ LinkTypeOK /\ PollTypeOK

Init == InboundInit /\ LinkInit /\ PollInit

-----------------------------------------------------------------------------
(* A code is sent by who was shown it, a button pressed on a poll that was *)
(* sent.                                                                   *)
Person ==
  /\ \E x \in Updates :
       /\ x.kind = "link" => code[x.code] # "none"
       /\ x.kind = "press" => context[x.poll] # "none"
       /\ PersonSends(x)
  /\ UNCHANGED <<linkVars, pollVars>>

(* The receiver's gate. Buttons are for operators; anybody may link and    *)
(* unlink; a linked account may ask. The EXISTS on the account's record    *)
(* and the XADD are one step: nobody else writes the inbound stream.       *)
MayPass(x) == \/ x.op \in Admins
              \/ x.kind \in {"link", "unlink"}
              \/ x.kind = "ask" /\ Linked(x.op)

LinkChecked(x) == x.op \notin Admins /\ x.kind = "ask"

Receiver ==
  /\ \/ Poll
     \/ Receive /\ MayPass(sent[offset + 1])
     \/ Refuse /\ ~MayPass(sent[offset + 1]) /\ NoTrouble
     \/ Refuse /\ LinkChecked(sent[offset + 1]) /\ Trouble("valkey")
  /\ UNCHANGED <<linkVars, pollVars>>

FirstStage(x) == CASE x.kind = "link"   -> "link.code"
                   [] x.kind = "unlink" -> "unlink.web"
                   [] x.kind = "ask"    -> "ask.web"
                   [] x.kind = "press"  -> "press.read"

Take ==
  /\ \E i \in toHandle : TakeUp(i, FirstStage(UpdateOf(i)))
  /\ UNCHANGED <<linkVars, pollVars>>

Group == (ReadInbound \/ AckInbound) /\ UNCHANGED <<linkVars, pollVars>>

Handle == \/ LinkSteps /\ UNCHANGED pollVars
          \/ PressSteps /\ UNCHANGED linkVars

Start == StartInbound /\ UNCHANGED <<linkVars, pollVars>>
Stop  == StopInbound  /\ UNCHANGED <<linkVars, pollVars>>

Sites == \/ Site /\ UNCHANGED pollVars
         \/ (\E p \in Polls : TrackPoll(p) \/ PollExpires(p)) /\ UNCHANGED linkVars

Next == Person \/ Receiver \/ Take \/ Group \/ Handle \/ Start \/ Stop \/ Sites

Spec == Init /\ [][Next]_vars

(* The supervisor starts the daemon again, and its two tasks go on.        *)
LiveSpec == Spec /\ WF_vars(Receiver) /\ WF_vars(Take \/ Group \/ Handle) /\ WF_vars(Start)

-----------------------------------------------------------------------------
(* Properties.                                                             *)

(* An account put on a subscriber's route has COMMS's own record for that  *)
(* subscriber, the record every addressed message and /unlink starts from: *)
(* link writes the record before the route, and every end of a link takes  *)
(* the route away first. Only a write ValKey refused can break it.         *)
RouteHasRecord ==
  "valkey" \notin met =>
    \A c \in Consumers, o \in Operators : route[c] = o => web[o] = c

(* Windows linked to an account that has no record of them.                *)
Astray == {c \in Consumers : route[c] \in Operators /\ web[route[c]] # c}

(* A call that ValKey refused costs at most one link: a read taken for a   *)
(* record that is not there, or a write passed over, leaves one window     *)
(* linked whose account has no record of it, and nothing done later leaves *)
(* another. A crash between two writes, or a handler run again, costs none.*)
StraysExplained ==
  Cardinality(Astray) <= IF "valkey" \in met THEN MaxTrouble - trouble ELSE 0

(* A code links one account, also when two people sent it and the loop     *)
(* died between the steps of link and took the update up again. (Unless,   *)
(* while it was down, the window ended the very route being linked, or an  *)
(* older entry whose acknowledgement had failed came back before it.)      *)
CodeLinksOne ==
  /\ met \cap {"read", "valkey"} = {}
  /\ "crash" \in met => ends = MaxEnds /\ "ack" \notin met
  =>
    \A k \in Codes : Cardinality(spentBy[k]) <= 1

LastOf(o) ==
  LET mine == {i \in DOMAIN sent : sent[i].op = o} IN
  IF mine = {} THEN "none" ELSE sent[CHOOSE i \in mine : \A j \in mine : j <= i].kind

(* Whoever sent /unlink last is not linked once everything is handled,     *)
(* whatever a crash had the loop do again.                                 *)
UnlinkSticks ==
  Quiet /\ met \subseteq {"crash"} =>
    \A o \in Operators : LastOf(o) = "unlink" =>
      ~Linked(o) /\ \A c \in Consumers : route[c] # o

(* Unlinking, and asking, never end somebody else's link, although both    *)
(* act on records read in an earlier step.                                 *)
OthersKeepLink ==
  [][(stage \in LinkStages /\ stage # "link.old" /\ stage # "link.put" /\ stage' # stage =>
       \A c \in Consumers : route[c] \in Operators \ {Who} => route'[c] = route[c])]_vars

(* Linking an account again ends the previous link of that account, and no *)
(* other account's.                                                        *)
LinkEndsOwn ==
  [][(stage = "link.old" /\ stage' = "link.web" =>
       \A c \in Consumers : route[c] \in Operators \ {Who} => route'[c] = route[c])]_vars

(* A question never goes on in the conversation of a window another        *)
(* account is linked to.                                                   *)
NeverAnothersWindow ==
  [][(\A r \in relayed' \ relayed :
       route[r[2]] \notin Operators \ {sent[r[1]].op})]_vars

(* What an operator sent is handled in the end, across crashes, unless the *)
(* receiver's write of it failed: the offset confirms an update only after *)
(* the inbound stream has it, and the group gives back what was in hand.   *)
OperatorsHeard ==
  \A u \in Numbers :
    (u <= Len(sent) /\ sent[u].op \in Admins) ~> (handled[u] > 0 \/ "write" \in met)

Presses(p) == {i \in DOMAIN sent : sent[i].kind = "press" /\ sent[i].poll = p
                                   /\ sent[i].op \in Admins}

(* A poll whose context lives, and was never made again, tells its         *)
(* producer one vote at most, and the vote is the claim, whoever presses   *)
(* and whatever fails.                                                     *)
VoteIsClaim ==
  \A p \in Polls : context[p] = "live" /\ made[p] = 1 =>
    votes[p] = <<>> \/ votes[p] = <<claim[p]>>

(* Whatever expires and whatever fails, a poll tells its producer one vote *)
(* at most, which is the claim, for every time its context was made: by    *)
(* the poll, by the poll sent again after its day, or by the claim of a    *)
(* press that had read the context before it expired.                      *)
VotesExplained ==
  /\ VoteIsClaim
  /\ \A p \in Polls : Len(votes[p]) <= made[p]

(* When nothing failed, the first press in Telegram's order is the vote    *)
(* the producer gets of a poll whose context was not made again.           *)
FirstPressWins ==
  Quiet /\ met = {} =>
    \A p \in Polls : context[p] = "live" /\ made[p] = 1 /\ Presses(p) # {} =>
      votes[p] = <<CHOOSE i \in Presses(p) : \A j \in Presses(p) : i <= j>>
=============================================================================
