--------------------------- MODULE ServicesProofs ---------------------------
(***************************************************************************)
(* The services together: a behaviour of CommsServices is one of each      *)
(* service, so that what is proved of each holds of them composed; and the *)
(* types of all of them.                                                   *)
(***************************************************************************)
EXTENDS CommsServices, IntakeProofs, RoutingProofs, UpkeepProofs, ChatProofs

-----------------------------------------------------------------------------
(* One runs and the others rest: a step of all is a step of each.          *)
LEMMA EachSteps ==
  ASSUME [ServicesNext]_serviceVars
  PROVE  /\ [LimiterNext]_limiterVars /\ [StreamsNext]_streamsVars
         /\ [RoutingNext]_routingVars /\ [SpamNext]_spamVars
         /\ [UpkeepNext]_upkeepVars /\ [WatchNext]_watchVars /\ [ChatNext]_chatVars
  BY DEF ServicesNext, serviceVars, LimiterRuns, StreamsRun, RoutingRuns, SpamFilterRuns,
         UpkeepRuns, WatchRuns, ChatRuns, Rests

LEMMA EachBegins ==
  ASSUME ServicesInit
  PROVE  /\ LimiterInit /\ StreamsInit /\ RoutingInit /\ SpamInit /\ UpkeepInit
         /\ WatchInit /\ ChatInit
  BY DEF ServicesInit

LEMMA EachRuns ==
  ServicesSpec => /\ LimiterSpec /\ RoutingSpec /\ SpamSpec /\ UpkeepSpec
                  /\ WatchSpec /\ ChatSpec
  BY EachSteps, EachBegins, PTL
  DEF ServicesSpec, LimiterSpec, RoutingSpec, SpamSpec, UpkeepSpec, WatchSpec, ChatSpec

(* The consumer's fairness is left out: its safety does not need it.       *)
LEMMA ConsumerRuns == ServicesSpec => StreamsInit /\ [][StreamsNext]_streamsVars
  BY EachSteps, EachBegins, PTL DEF ServicesSpec

-----------------------------------------------------------------------------
(* The types of each service, from its own invariant.                      *)
LEMMA SmallTypes ==
  /\ LimiterSpec => []LimiterTypeOK
  /\ SpamSpec => []SpamTypeOK
  /\ WatchSpec => []WatchTypeOK
  <1>1. LimiterInv => LimiterTypeOK  BY DEF LimiterInv
  <1>2. LimiterSpec => []LimiterTypeOK  BY <1>1, LimiterInvariant, PTL
  <1>3. SpamInv => SpamTypeOK  BY DEF SpamInv
  <1>4. SpamSpec => []SpamTypeOK  BY <1>3, SpamBegins, SpamSteps, PTL DEF SpamSpec
  <1>5. WatchInv => WatchTypeOK  BY DEF WatchInv
  <1>6. WatchSpec => []WatchTypeOK
    BY <1>5, WatchAssumption, WatchBegins, WatchStep, PTL DEF WatchSpec
  <1> QED BY <1>2, <1>4, <1>6

OneOfThem == service \in Services

LEMMA OneRuns == ServicesSpec => []OneOfThem
  <1>1. ServicesInit => OneOfThem  BY DEF ServicesInit, OneOfThem
  <1>2. OneOfThem /\ [ServicesNext]_serviceVars => OneOfThem'
    BY DEF OneOfThem, ServicesNext, serviceVars, LimiterRuns, StreamsRun, RoutingRuns,
           SpamFilterRuns, UpkeepRuns, WatchRuns, ChatRuns, Rests
  <1> QED BY <1>1, <1>2, PTL DEF ServicesSpec

(* Whatever service runs, every variable of every one keeps its type: the  *)
(* windows of the limiter, the pending entries of the consumer and its     *)
(* step, the copies and caps of the routing, the rows, file and cleaners   *)
(* of the archive, the two copies of the watch's state, and the chat's     *)
(* stages, sessions, pollers and requests with what is in hand.            *)
THEOREM ServicesTypeCorrect == ServicesSpec => []ServicesTypeOK
  <1>1. UpkeepSpec => []UpkeepTypeOK  BY UpkeepTyped, UpkeepAssumption
  <1>2. OneOfThem /\ LimiterTypeOK /\ StreamsTypeOK /\ RoutingTypeOK /\ SpamTypeOK
        /\ UpkeepTypeOK /\ WatchTypeOK /\ ChatTypeOK
        => ServicesTypeOK
    BY DEF ServicesTypeOK, OneOfThem
  <1> QED BY <1>1, <1>2, EachRuns, ConsumerRuns, OneRuns, SmallTypes, StreamsTyped, RoutingTyped,
             ChatTyped, PTL

(* What is proved of a service alone holds of the services together: the   *)
(* safety of each of them, in every behaviour of CommsServices.            *)
THEOREM EveryServiceSafe ==
  ServicesSpec =>
    /\ []AllowanceKept /\ RefusedForCause /\ ActsAsCounter
    /\ []SettledOnce /\ ConsumerDelivers /\ []NoSecondCopy /\ []CapKept
    /\ []NeverWeaker /\ LimitsKeepBuffer /\ SentAgainOnlyForgotten
    /\ []NothingPassedUnsaid /\ []SaidOnce /\ []CanaryJudged
    /\ []AnsweredOnce /\ []FreshSession /\ []TimeoutForCause /\ []GuardHolds
  <1>1. StreamsInv => SettledOnce  BY DEF StreamsInv, HandedOK, SettledOK, SettledOnce
  <1>2. ServicesSpec => []SettledOnce
    BY <1>1, ConsumerRuns, StreamsInvariant, PTL
  <1>3. ServicesSpec => ConsumerDelivers  BY ConsumerRuns, ConsumerImplements
  <1>4. LimiterSpec => []AllowanceKept /\ RefusedForCause /\ ActsAsCounter
    BY WindowNeverOverdrawn, RefusalsCaused, LimiterActsAsCounter
  <1>5. RoutingSpec => []NoSecondCopy /\ []CapKept  BY OneCopyEach, CapHolds
  <1>6. UpkeepSpec => LimitsKeepBuffer /\ SentAgainOnlyForgotten
    BY BufferKept, SentOnceKnown, UpkeepAssumption
  <1>7. WatchSpec => []NothingPassedUnsaid /\ []SaidOnce /\ []CanaryJudged
    BY ReceiptsAreTold, NewsIsSaidOnce, MailIsJudged
  <1>8. ChatSpec => []AnsweredOnce /\ []FreshSession /\ []TimeoutForCause /\ []GuardHolds
    BY AlertsAnsweredOnce, SessionsAreFresh, TimeoutsHaveCause, ReviewsAreGuarded
  <1> QED BY <1>2, <1>3, <1>4, <1>5, <1>6, <1>7, <1>8, FilterNeverWeaker, EachRuns
=============================================================================
