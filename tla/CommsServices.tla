---------------------------- MODULE CommsServices ----------------------------
(***************************************************************************)
(* The parts of COMMS around the dispatch of one message: which streams    *)
(* are read, how a message finds its recipients, what the archive forgets, *)
(* what the operators' chat does, what the hourly watch tells. They share  *)
(* no state, so that in a behaviour one of them runs and the others rest:  *)
(* every behaviour of each is one of this specification, and a property of *)
(* one is checked whatever the others would do.                            *)
(***************************************************************************)
EXTENDS RateLimiter, SiteStreams, Routing, SpamFilter, ArchiveUpkeep, Watcher, CommsChat

CONSTANT Services  (* those that run                                        *)

ASSUME ServicesAssumption ==
  Services \subseteq {"limiter", "streams", "routing", "spam", "upkeep", "watch", "chat"}

VARIABLE service

serviceVars == <<service, limiterVars, streamsVars, routingVars, spamVars, upkeepVars,
                 watchVars, chatVars>>

ServicesTypeOK ==
  /\ service \in Services
  /\ LimiterTypeOK /\ StreamsTypeOK /\ RoutingTypeOK /\ SpamTypeOK /\ UpkeepTypeOK
  /\ WatchTypeOK /\ ChatTypeOK

(* A service that rests has one of its configurations, whichever.          *)
Fixed(who, x, S) == service = who \/ x = CHOOSE y \in S : TRUE

ServicesInit ==
  /\ service \in Services
  /\ LimiterInit /\ StreamsInit /\ WatchInit
  /\ RoutingInit /\ Fixed("routing", conf, Configurations)
  /\ UpkeepInit  /\ Fixed("upkeep", policy, Policies)
  /\ SpamInit    /\ Fixed("spam", mail, Mails)
  /\ Fixed("spam", extra, [words : SUBSET Words, addresses : SUBSET Addresses])
  /\ ChatInit    /\ Fixed("chat", scene, Scenes)
  /\ Fixed("chat", sent, [1 .. scene.messages -> scene.words])

LimiterRuns ==
  /\ service = "limiter" /\ LimiterNext
  /\ UNCHANGED <<service, streamsVars, routingVars, spamVars, upkeepVars, watchVars, chatVars>>

StreamsRun ==
  /\ service = "streams" /\ StreamsNext
  /\ UNCHANGED <<service, limiterVars, routingVars, spamVars, upkeepVars, watchVars, chatVars>>

RoutingRuns ==
  /\ service = "routing" /\ RoutingNext
  /\ UNCHANGED <<service, limiterVars, streamsVars, spamVars, upkeepVars, watchVars, chatVars>>

SpamFilterRuns ==
  /\ service = "spam" /\ SpamNext
  /\ UNCHANGED <<service, limiterVars, streamsVars, routingVars, upkeepVars, watchVars, chatVars>>

UpkeepRuns ==
  /\ service = "upkeep" /\ UpkeepNext
  /\ UNCHANGED <<service, limiterVars, streamsVars, routingVars, spamVars, watchVars, chatVars>>

WatchRuns ==
  /\ service = "watch" /\ WatchNext
  /\ UNCHANGED <<service, limiterVars, streamsVars, routingVars, spamVars, upkeepVars, chatVars>>

ChatRuns ==
  /\ service = "chat" /\ ChatNext
  /\ UNCHANGED <<service, limiterVars, streamsVars, routingVars, spamVars, upkeepVars, watchVars>>

(* The bounds of every service but the consumer run out.                   *)
Rests == service # "streams" /\ UNCHANGED serviceVars

ServicesNext ==
  \/ LimiterRuns \/ StreamsRun \/ RoutingRuns \/ SpamFilterRuns \/ UpkeepRuns \/ WatchRuns
  \/ ChatRuns \/ Rests

(* StreamsFairness, when it is the consumer that runs.                     *)
ConsumerGoesOn ==
  /\ WF_streamsVars(service = "streams" /\ ConsumerStep)
  /\ SF_streamsVars(service = "streams" /\ Rediscover)
  /\ SF_streamsVars(service = "streams" /\ step = "handle" /\ EndIteration /\ step' = "claim")

ServicesSpec == ServicesInit /\ [][ServicesNext]_serviceVars /\ ConsumerGoesOn
=============================================================================
