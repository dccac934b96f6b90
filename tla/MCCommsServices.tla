--------------------------- MODULE MCCommsServices ---------------------------
(***************************************************************************)
(* Values for TLC: the configurations of sites, messages, archives and     *)
(* chats that the services are run with.                                   *)
(***************************************************************************)
EXTENDS CommsServices

(* Recipients: of everything, of contact forms, of urgent messages.        *)
Any    == [types |-> {}, minPriority |-> 5]
Forms  == [types |-> {"contact"}, minPriority |-> 5]
Urgent == [types |-> {}, minPriority |-> 1]

Open ==
  [enabled |-> TRUE, deliveryOff |-> FALSE, allowNonprod |-> FALSE, linked |-> TRUE, bot |-> TRUE,
   addressed |-> {"planning"}, dailyCap |-> 1, rules |-> << >>,
   channels |-> [c \in {"email", "telegram"} |-> [enabled |-> TRUE, recipients |-> <<Any, Forms>>]]]

MCConfigurations ==
  {Open,
   [Open EXCEPT !.deliveryOff = TRUE],
   [Open EXCEPT !.linked = FALSE, !.enabled = FALSE],
   [Open EXCEPT !.allowNonprod = TRUE, !.channels["telegram"].enabled = FALSE,
                !.channels["email"].recipients = <<Urgent>>],
   [Open EXCEPT !.rules = <<[type |-> "planning", channels |-> <<"record">>],
                            [type |-> "all", channels |-> <<"telegram", "sms", "telegram">>]>>]}

Form == [type |-> "contact", to |-> "nobody", priority |-> 3, env |-> "production",
         channels |-> << >>]

MCMessages ==
  {Form,
   [Form EXCEPT !.env = "testing", !.channels = <<"email">>],
   [Form EXCEPT !.type = "planning", !.to = "email"],
   [Form EXCEPT !.type = "planning", !.to = "web"],
   [Form EXCEPT !.to = "email"]}

ByAge == [maxAge |-> 1, sentAge |-> 0, failedAge |-> 2, spam |-> "afterDays", spamDays |-> 1,
          maxCount |-> 0, minKeep |-> 1, maxSize |-> 0, vacuum |-> TRUE]

(* The daemon's retention, and the command line's with its options.        *)
Retention(daemon, cli) == [p \in Cleaners |-> IF p = "daemon" THEN daemon ELSE cli]

ByCount == [ByAge EXCEPT !.maxAge = 0, !.spam = "keep", !.maxCount = 1]
BySize  == [ByAge EXCEPT !.maxAge = 0, !.spam = "keep", !.maxSize = 1, !.vacuum = FALSE]

MCPolicies ==
  {Retention(ByAge, [ByAge EXCEPT !.maxAge = 2, !.sentAge = 2, !.vacuum = FALSE]),
   Retention(ByCount, [ByCount EXCEPT !.vacuum = FALSE]),
   Retention(BySize, [BySize EXCEPT !.spam = "now", !.vacuum = TRUE])}

(* One alert takes a word that is also a workflow's.                       *)
MCOptionsOf == [a \in Alerts |-> IF a = "scan" THEN {"DISMISS"} ELSE {"UPDATE", "DISMISS"}]

Quiet0 == [words |-> {"text"}, messages |-> 1, ticks |-> 0, alerts |-> {}, texts |-> {},
           requests |-> 1, chained |-> FALSE, engine |-> TRUE]

MCScenes ==
  {[Quiet0 EXCEPT !.words = {"UPDATE", "DISMISS"}, !.messages = 2, !.alerts = Alerts,
                  !.requests = 2],
   [Quiet0 EXCEPT !.words = {"UPDATE", "reset"}, !.messages = 2, !.alerts = {"release"},
                  !.engine = FALSE],
   [Quiet0 EXCEPT !.words = {"text", "pipeline", "reset"}, !.messages = 2, !.ticks = 2,
                  !.requests = 2],
   [Quiet0 EXCEPT !.words = {"status", "slash"}, !.chained = TRUE],
   [Quiet0 EXCEPT !.texts = {"other"}, !.messages = 2, !.requests = 2],
   [Quiet0 EXCEPT !.texts = Texts, !.requests = 3, !.chained = TRUE]}
=============================================================================
