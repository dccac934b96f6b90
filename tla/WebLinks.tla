------------------------------- MODULE WebLinks -------------------------------
(***************************************************************************)
(* src/inbound/web_link.rs and web_subscriber of src/main.rs: a Telegram   *)
(* account is linked to a web subscriber (a consumer of a site) by a code  *)
(* the site made, continues the subscriber's conversation, and is unlinked.*)
(*                                                                         *)
(* Three ValKey records say who is linked: the site's code, the site's     *)
(* route and COMMS's own record. No two of them are written together, a    *)
(* write that fails is passed over and a read that fails is a record that  *)
(* is not there. The site changes its own records meanwhile.               *)
(***************************************************************************)
EXTENDS InboundStream

CONSTANTS
  Operators,  (* Telegram accounts, each with its private chat              *)
  Admins,     (* accounts in COMMS_ADMIN_IDS                                *)
  Consumers,  (* web subscribers of the sites                               *)
  Codes,      (* one-time codes                                             *)
  ConsumerOf, (* the subscriber a code is made for                          *)
  None,       (* no consumer, and a route on which there is no account      *)
  MadeCodes,  (* codes made before anybody sent anything                    *)
  MaxEnds     (* bound: codes that expire and routes ended in the window    *)

(* A route the site or COMMS has removed.                                  *)
Gone == "gone"

ASSUME LinkAssumption ==
  /\ Admins \subseteq Operators
  /\ MadeCodes \subseteq Codes
  /\ ConsumerOf \in [Codes -> Consumers]
  /\ None \notin Operators \cup Consumers \cup {Gone} /\ Gone \notin Operators
  /\ MaxEnds \in Nat

VARIABLES
  code,     (* {site}:gnode:comms:link:<CODE>                               *)
  route,    (* {site}:gnode:comms:tg:<consumer>: the account on it          *)
  web,      (* {link}:gnode:comms:web:<operator>: the consumer it names     *)
  ends,     (* how often the site may still end something                   *)
  spentBy,  (* history: the accounts recorded for a code                    *)
  relayed   (* <<update, consumer>>: what went to a site's stream, and for whom *)

linkVars == <<code, route, web, ends, spentBy, relayed>>

CodeStates == {"none", "fresh", "expired", "linked"}

LinkStages == {"link.code", "link.route", "link.old", "link.web", "link.put", "link.answer",
               "unlink.web", "unlink.route", "unlink.del", "unlink.record",
               "ask.web", "ask.route", "ask.drop", "ask.relay"}

LinkTypeOK ==
  /\ code \in [Codes -> CodeStates]
  /\ route \in [Consumers -> Operators \cup {None, Gone}]
  /\ web \in [Operators -> Consumers \cup {None}]
  /\ ends \in 0 .. MaxEnds
  /\ spentBy \in [Codes -> SUBSET Operators]
  /\ relayed \subseteq Numbers \X Consumers

LinkInit ==
  /\ code = [k \in Codes |-> IF k \in MadeCodes THEN "fresh" ELSE "none"]
  /\ route = [c \in Consumers |-> IF \E k \in MadeCodes : ConsumerOf[k] = c
                                 THEN None ELSE Gone]
  /\ web = [o \in Operators |-> None]
  /\ ends = MaxEnds
  /\ spentBy = [k \in Codes |-> {}]
  /\ relayed = {}

Linked(o) == web[o] # None

-----------------------------------------------------------------------------
(* The site: not in this repository, known from what web_link.rs reads.    *)

(* A new code, and a route for its subscriber if there is none.            *)
MakeCode(k) ==
  /\ code[k] = "none"
  /\ code' = [code EXCEPT ![k] = "fresh"]
  /\ route' = [route EXCEPT ![ConsumerOf[k]] = IF @ = Gone THEN None ELSE @]
  /\ UNCHANGED <<inboundVars, web, ends, spentBy, relayed>>

CodeExpires(k) ==
  /\ code[k] = "fresh" /\ ends > 0 /\ ends' = ends - 1
  /\ code' = [code EXCEPT ![k] = "expired"]
  /\ UNCHANGED <<inboundVars, route, web, spentBy, relayed>>

(* Unlinked in the window.                                                 *)
WindowUnlinks(c) ==
  /\ route[c] # Gone /\ ends > 0 /\ ends' = ends - 1
  /\ route' = [route EXCEPT ![c] = Gone]
  /\ UNCHANGED <<inboundVars, code, web, spentBy, relayed>>

-----------------------------------------------------------------------------
Who    == InHand.op
Code   == InHand.code
Target == ConsumerOf[Code]

(* A write that may fail without a word.                                   *)
Put(f, x, value) == \/ f' = [f EXCEPT ![x] = value] /\ NoTrouble
                    \/ f' = f /\ Trouble("valkey")

-----------------------------------------------------------------------------
(* link: every check before any write, then the writes in this order.      *)

LinkCode ==
  /\ \/ Advance("link.code", "link.route") /\ code[Code] = "fresh" /\ NoTrouble
     \/ Advance("link.code", "ack") /\ code[Code] # "fresh" /\ NoTrouble
     \/ Advance("link.code", "ack") /\ Trouble("valkey")
  /\ UNCHANGED linkVars

LinkRoute ==
  /\ \/ Advance("link.route", "link.old") /\ route[Target] # Gone /\ NoTrouble
     \/ Advance("link.route", "ack") /\ route[Target] = Gone /\ NoTrouble
     \/ Advance("link.route", "ack") /\ Trouble("valkey")
  /\ UNCHANGED linkVars

(* The previous subscriber keeps its route.                                *)
LinkKeepsOld == Advance("link.old", "link.web") /\ NoTrouble /\ UNCHANGED linkVars

(* The route of the account's previous subscriber goes, whoever is on it.  *)
LinkEndsOld ==
  /\ Advance("link.old", "link.web")
  /\ IF web[Who] \in {None, Target}
     THEN route' = route /\ NoTrouble
     ELSE Put(route, web[Who], Gone)
  /\ UNCHANGED <<code, web, ends, spentBy, relayed>>

LinkRecords ==
  /\ Advance("link.web", "link.put")
  /\ Put(web, Who, Target)
  /\ spentBy' = [spentBy EXCEPT ![Code] = IF web' = web THEN @ ELSE @ \cup {Who}]
  /\ UNCHANGED <<code, route, ends, relayed>>

(* The route read before is written back with the account on it, also when *)
(* the site has removed it since.                                          *)
LinkPuts ==
  /\ Advance("link.put", "link.answer")
  /\ Put(route, Target, Who)
  /\ UNCHANGED <<code, web, ends, spentBy, relayed>>

(* The code can be used again.                                             *)
LinkAnswersNothing == Advance("link.answer", "ack") /\ NoTrouble /\ UNCHANGED linkVars

LinkAnswers ==
  /\ Advance("link.answer", "ack")
  /\ Put(code, Code, "linked")
  /\ UNCHANGED <<route, web, ends, spentBy, relayed>>

-----------------------------------------------------------------------------
(* unlink: the route goes only when this account is on it.                 *)

UnlinkWeb ==
  /\ \/ Advance("unlink.web", "unlink.route") /\ web[Who] # None /\ NoTrouble
     \/ Advance("unlink.web", "ack") /\ web[Who] = None /\ NoTrouble
     \/ Advance("unlink.web", "ack") /\ Trouble("valkey")
  /\ UNCHANGED linkVars

(* The route goes whoever is on it.                                        *)
UnlinkAnyRoute ==
  /\ \/ Advance("unlink.route", "unlink.del") /\ route[web[Who]] # Gone /\ NoTrouble
     \/ Advance("unlink.route", "unlink.record") /\ route[web[Who]] = Gone /\ NoTrouble
     \/ Advance("unlink.route", "unlink.record") /\ Trouble("valkey")
  /\ UNCHANGED linkVars

UnlinkRoute ==
  /\ \/ Advance("unlink.route", "unlink.del") /\ route[web[Who]] = Who /\ NoTrouble
     \/ Advance("unlink.route", "unlink.record") /\ route[web[Who]] # Who /\ NoTrouble
     \/ Advance("unlink.route", "unlink.record") /\ Trouble("valkey")
  /\ UNCHANGED linkVars

UnlinkDeletes ==
  /\ Advance("unlink.del", "unlink.record")
  /\ Put(route, web[Who], Gone)
  /\ UNCHANGED <<code, web, ends, spentBy, relayed>>

UnlinkKeepsRecord == Advance("unlink.record", "ack") /\ NoTrouble /\ UNCHANGED linkVars

UnlinkForgets ==
  /\ Advance("unlink.record", "ack")
  /\ Put(web, Who, None)
  /\ UNCHANGED <<code, route, ends, spentBy, relayed>>

-----------------------------------------------------------------------------
(* A question: resolve, then the site's own stream. An account without a   *)
(* record is left to the router when it is an admin's and else ignored.    *)

AskWeb ==
  /\ \/ Advance("ask.web", "ask.route") /\ web[Who] # None /\ NoTrouble
     \/ Advance("ask.web", "ack") /\ web[Who] = None /\ NoTrouble
     \/ Advance("ask.web", "ack") /\ Trouble("valkey")
  /\ UNCHANGED linkVars

(* The route is followed whoever is on it.                                 *)
AskAnyRoute ==
  /\ \/ Advance("ask.route", "ask.relay") /\ route[web[Who]] # Gone /\ NoTrouble
     \/ Advance("ask.route", "ask.drop") /\ route[web[Who]] = Gone /\ NoTrouble
     \/ Advance("ask.route", "ask.drop") /\ Trouble("valkey")
  /\ UNCHANGED linkVars

AskRoute ==
  /\ \/ Advance("ask.route", "ask.relay") /\ route[web[Who]] = Who /\ NoTrouble
     \/ Advance("ask.route", "ask.drop") /\ route[web[Who]] # Who /\ NoTrouble
     \/ Advance("ask.route", "ask.drop") /\ Trouble("valkey")
  /\ UNCHANGED linkVars

AskDrops ==
  /\ Advance("ask.drop", "ack")
  /\ Put(web, Who, None)
  /\ UNCHANGED <<code, route, ends, spentBy, relayed>>

(* Relayed, or over the hour's allowance, or the XADD failed.              *)
AskRelays ==
  /\ Advance("ask.relay", "ack")
  /\ \/ relayed' = relayed \cup {<<stream[hand], web[Who]>>} /\ NoTrouble
     \/ relayed' = relayed /\ NoTrouble
     \/ relayed' = relayed /\ Trouble("valkey")
  /\ UNCHANGED <<code, route, web, ends, spentBy>>

LinkSteps ==
  \/ LinkCode \/ LinkRoute \/ LinkEndsOld \/ LinkRecords \/ LinkPuts \/ LinkAnswers
  \/ UnlinkWeb \/ UnlinkRoute \/ UnlinkDeletes \/ UnlinkForgets
  \/ AskWeb \/ AskRoute \/ AskDrops \/ AskRelays

Site ==
  \/ \E k \in Codes : MakeCode(k)
  \/ \E k \in Codes : CodeExpires(k)
  \/ \E c \in Consumers : WindowUnlinks(c)
=============================================================================
