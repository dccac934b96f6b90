------------------------- MODULE CommsDispatchProofs -------------------------
(***************************************************************************)
(* Theorems about CommsDispatch, for every value of its constants: its     *)
(* types, the fence between the archive and the acknowledgement, and that  *)
(* it implements EntryDelivery.                                            *)
(***************************************************************************)
EXTENDS CommsDispatch, TLAPS

(* What the type invariant needs to be inductive: the entry in hand is one *)
(* of the stream's, and so is the entry a retry key points to; and no key  *)
(* ever reaches max_attempts.                                              *)
HandOK     == job.stage # "idle" => job.e \in Entries
PointsToOK == \A id \in Ids : retry[id].attempts > 0 => retry[id].entry \in Entries
KeysOK     == RetryOK /\ PointsToOK /\ RetryBounded

TypeInv == TypeOK /\ HandOK /\ PointsToOK /\ RetryBounded

USE DispatchAssumption

LEMMA TypeInit == Init => TypeInv
  BY DEF Init, TypeInv, TypeOK, HandOK, PointsToOK, RetryBounded, Entries, RetryState, NoRetry,
         Job, Stages, Idle, Settled, Statuses, NotCached, FaultKinds, DueState,
         StreamsOK, RetryOK, CfgOK, RowOK, LoopOK, JobOK, CacheOK, BackoffOK, UsedOK, FaultOK, SendsOK, HowOK

(* What does not change keeps its type.                                    *)
LEMMA Unchanged ==
  ASSUME TypeInv
  PROVE  /\ UNCHANGED streamVars  => StreamsOK'
         /\ UNCHANGED retry       => KeysOK'
         /\ UNCHANGED cfg         => CfgOK'
         /\ UNCHANGED row         => RowOK'
         /\ UNCHANGED loopVars    => LoopOK'
         /\ UNCHANGED job         => JobOK' /\ HandOK'
         /\ UNCHANGED cache       => CacheOK'
         /\ UNCHANGED backoff     => BackoffOK'
         /\ UNCHANGED used        => UsedOK'
         /\ UNCHANGED faultVars   => FaultOK'
         /\ UNCHANGED sends       => SendsOK'
         /\ UNCHANGED <<how, gaveUp>> => HowOK'
  BY DEF TypeInv, TypeOK, HandOK, PointsToOK, RetryBounded, KeysOK, streamVars, loopVars, faultVars,
         StreamsOK, RetryOK, CfgOK, RowOK, LoopOK, JobOK, CacheOK, BackoffOK, UsedOK, FaultOK, SendsOK, HowOK

(* Spending from the budget, or not, keeps its type.                       *)
LEMMA FaultType ==
  ASSUME TypeInv
  PROVE  /\ NoFault => FaultOK'
         /\ \A kind \in FaultKinds : Fault(kind) => FaultOK'
  <1> FaultOK  BY DEF TypeInv, TypeOK
  <1> QED BY DEF FaultOK, Fault, NoFault, faultVars

LEMMA Parts ==
  ASSUME StreamsOK', KeysOK', CfgOK', RowOK', LoopOK', JobOK', HandOK', CacheOK', BackoffOK', UsedOK', FaultOK', SendsOK', HowOK'
  PROVE TypeInv'
  BY DEF TypeInv, TypeOK, KeysOK


LEMMA TypeEnvironment == TypeInv /\ Environment => TypeInv'
  <1> SUFFICES ASSUME TypeInv, Environment PROVE TypeInv'
    OBVIOUS
  <1>0. StreamsOK /\ CfgOK /\ BackoffOK /\ UsedOK /\ KeysOK /\ FaultOK
    BY DEF TypeInv, TypeOK, KeysOK
  <1>1. ASSUME NEW e \in Entries, SaveSettings(e) PROVE TypeInv'
    <2>1. CfgOK'  BY <1>0, <1>1 DEF SaveSettings, CfgOK, Entries
    <2> QED BY <2>1, <1>1, Unchanged, Parts DEF SaveSettings, memVars, historyVars
  <1>2. ASSUME NEW e \in Entries, Append(e) PROVE TypeInv'
    <2>1. StreamsOK'  BY <1>0, <1>2 DEF Append, StreamsOK, Entries
    <2> QED BY <2>1, <1>2, Unchanged, Parts DEF Append, storeVars, memVars, historyVars
  <1>3. ASSUME NEW e \in Entries, Trim(e) PROVE TypeInv'
    <2>1. StreamsOK'  BY <1>0, <1>3 DEF Trim, StreamsOK, Entries
    <2> QED BY <2>1, <1>3, Unchanged, Parts DEF Trim, storeVars, memVars, historyVars
  <1>4. ASSUME NEW s \in Sites, BackoffEnds(s) PROVE TypeInv'
    <2>1. BackoffOK'  BY <1>0, <1>4 DEF BackoffEnds, BackoffOK
    <2> QED BY <2>1, <1>4, Unchanged, Parts DEF BackoffEnds, storeVars, historyVars
  <1>5. ASSUME NEW s \in Sites, WindowSlides(s) PROVE TypeInv'
    <2>1. UsedOK'  BY <1>0, <1>5 DEF WindowSlides, UsedOK
    <2> QED BY <2>1, <1>5, Unchanged, Parts DEF WindowSlides, storeVars, historyVars
  <1>6. ASSUME NEW id \in Ids, RetryKeyExpires(id) PROVE TypeInv'
    <2>1. KeysOK'
      BY <1>0, <1>6 DEF RetryKeyExpires, KeysOK, RetryOK, PointsToOK, RetryBounded, RetryState, NoRetry
    <2>2. FaultOK'
      BY <1>6, FaultType DEF RetryKeyExpires, FaultKinds
    <2> QED BY <2>1, <2>2, <1>6, Unchanged, Parts DEF RetryKeyExpires, memVars, historyVars
  <1>7. CASE Crash
    <2>1. FaultOK'  BY <1>7, FaultType DEF Crash, FaultKinds
    <2>2. LoopOK'   BY <1>7 DEF Crash, LoopOK
    <2>3. JobOK' /\ HandOK'
      BY <1>7 DEF Crash, JobOK, HandOK, Idle, Job, Stages, Settled
    <2>4. CacheOK' /\ BackoffOK' /\ UsedOK'
      BY <1>7 DEF Crash, CacheOK, BackoffOK, UsedOK, NotCached
    <2> QED BY <2>1, <2>2, <2>3, <2>4, <1>7, Unchanged, Parts DEF Crash, storeVars, historyVars
  <1> QED BY <1>1, <1>2, <1>3, <1>4, <1>5, <1>6, <1>7 DEF Environment

LEMMA TypeLoop == TypeInv /\ Loop => TypeInv'
  <1> SUFFICES ASSUME TypeInv, Loop PROVE TypeInv'
    OBVIOUS
  <1>0. StreamsOK /\ LoopOK /\ HowOK /\ KeysOK /\ FaultOK
    BY DEF TypeInv, TypeOK, KeysOK
  <1>1. CASE Restart
    <2>1. LoopOK'  BY <1>0, <1>1 DEF Restart, LoopOK
    <2> QED BY <2>1, <1>1, Unchanged, Parts DEF Restart, storeVars, memVars, historyVars
  <1>2. CASE Read
    <2>1. StreamsOK'  BY <1>0, <1>2 DEF Read, StreamsOK, Unread, Entries
    <2>2. LoopOK'     BY <1>0, <1>2 DEF Read, LoopOK, Unread, Readable
    <2>3. FaultOK'    BY <1>2, FaultType DEF Read, Lost, FaultKinds
    <2> QED BY <2>1, <2>2, <2>3, <1>2, Unchanged, Parts DEF Read, storeVars, memVars, historyVars
  <1>3. ASSUME NEW S \in SUBSET pel, Claim(S) PROVE TypeInv'
    <2>1. StreamsOK'  BY <1>0, <1>3 DEF Claim, StreamsOK
    <2>2. LoopOK'     BY <1>0, <1>3 DEF Claim, LoopOK, Readable, StreamsOK
    <2>3. HowOK'      BY <1>0, <1>3 DEF Claim, HowOK, Settled
    <2> QED BY <2>1, <2>2, <2>3, <1>3, Unchanged, Parts DEF Claim, storeVars, memVars
  <1>4. ASSUME NEW S \in SUBSET Ids, NEW twice \in SUBSET S, Sweep(S, twice) PROVE TypeInv'
    <2>1. due' \subseteq DueState
      BY <1>0, <1>4 DEF Sweep, DueState, KeysOK, RetryOK, PointsToOK, RetryState
    <2>2. LoopOK'   BY <2>1, <1>0, <1>4 DEF Sweep, LoopOK
    <2>3. FaultOK'  BY <1>4, FaultType DEF Sweep, FaultKinds
    <2> QED BY <2>2, <2>3, <1>4, Unchanged, Parts DEF Sweep, storeVars, memVars, historyVars
  <1>5. CASE EndLoop
    <2>1. LoopOK'  BY <1>0, <1>5 DEF EndLoop, LoopOK
    <2> QED BY <2>1, <1>5, Unchanged, Parts DEF EndLoop, storeVars, memVars, historyVars
  <1> QED BY <1>1, <1>2, <1>3, <1>4, <1>5 DEF Loop

(* Taking an entry from the batch.                                         *)
LEMMA TakingType ==
  ASSUME TypeInv, NEW e \in Entries, Taking(e), UNCHANGED <<phase, due>>
  PROVE  LoopOK' /\ phase \in {"main", "claim"}
  <1> LoopOK  BY DEF TypeInv, TypeOK
  <1> QED BY DEF LoopOK, Taking

LEMMA CacheType ==
  ASSUME TypeInv, NEW s \in Sites
  PROVE  /\ LoadSettings(s) => CacheOK'
         /\ RateAllows(s) /\ Count(s) => UsedOK'
  <1> CacheOK /\ CfgOK /\ UsedOK  BY DEF TypeInv, TypeOK
  <1>1. LoadSettings(s) => CacheOK'
    BY DEF LoadSettings, CacheOK, CfgOK, NotCached
  <1>2. RateAllows(s) /\ Count(s) => UsedOK'
    BY DEF RateAllows, Count, UsedOK
  <1> QED BY <1>1, <1>2

LEMMA UndeliveredType ==
  ASSUME TypeInv, NEW e, Undelivered(e)  PROVE FaultOK'
  BY FaultType DEF Undelivered, FaultKinds

(* A job as it is taken up, every field spelled out.                       *)
Hand(stage, path, e, todo, fail, skip, cause) ==
  [stage |-> stage, path |-> path, e |-> e, todo |-> todo, ok |-> {},
   fail |-> fail, skip |-> skip, how |-> cause]

LEMMA HandType ==
  ASSUME NEW stage \in Stages, NEW path \in {"main", "claim", "retry"}, NEW e \in Entries,
         NEW todo \in SUBSET Channels, NEW fail \in SUBSET Channels,
         NEW skip \in SUBSET (Channels \cup {All}),
         NEW cause \in Settled \cup {"none"},
         job' = Hand(stage, path, e, todo, fail, skip, cause)
  PROVE  JobOK' /\ HandOK'
  BY DEF Hand, JobOK, HandOK, Job, Entries

LEMMA TypeGuards == TypeInv /\ Guards => TypeInv'
  <1> SUFFICES ASSUME TypeInv, Guards PROVE TypeInv'
    OBVIOUS
  <1>1. ASSUME NEW e \in Entries, HoldInBackoff(e) PROVE TypeInv'
    BY <1>1, TakingType, Unchanged, Parts DEF HoldInBackoff, storeVars, memVars, historyVars
  <1>2. ASSUME NEW e \in Entries, SkipDuplicate(e) PROVE TypeInv'
    <2>1. LoopOK' /\ phase \in {"main", "claim"}  BY <1>2, TakingType DEF SkipDuplicate
    <2>hand. job' = Hand("ack", phase, e, {}, {}, {}, "dup")
      BY <1>2 DEF SkipDuplicate, Idle, Hand
    <2>2. JobOK' /\ HandOK'
      BY <2>1, <2>hand, HandType DEF Stages, Settled
    <2> QED BY <2>1, <2>2, <1>2, Unchanged, Parts DEF SkipDuplicate, storeVars, memVars, historyVars
  <1>3. ASSUME NEW e \in Entries, ArchiveOnly(e) PROVE TypeInv'
    <2>1. LoopOK' /\ phase \in {"main", "claim"}  BY <1>3, TakingType DEF ArchiveOnly
    <2>hand. job' = Hand("archive", phase, e, {}, {}, {}, IF Exhausted(e) THEN "claimed" ELSE "spam")
      BY <1>3 DEF ArchiveOnly, Idle, Hand
    <2>2. JobOK' /\ HandOK'
      BY <2>1, <2>hand, HandType DEF Stages, Settled
    <2>3. FaultOK'  BY <1>3, UndeliveredType DEF ArchiveOnly
    <2> QED BY <2>1, <2>2, <2>3, <1>3, Unchanged, Parts DEF ArchiveOnly, storeVars, memVars, historyVars
  <1>4. ASSUME NEW e \in Entries, HandleControl(e) PROVE TypeInv'
    <2>1. LoopOK' /\ phase \in {"main", "claim"}  BY <1>4, TakingType DEF HandleControl
    <2>hand. job' = Hand("ack", "main", e, {}, {}, {}, "control")
      BY <1>4 DEF HandleControl, Idle, Hand
    <2>2. JobOK' /\ HandOK'
      BY <2>1, <2>hand, HandType DEF Stages, Settled
    <2>3. FaultOK'  BY <1>4, UndeliveredType DEF HandleControl
    <2>4. CacheOK  BY DEF TypeInv, TypeOK
    <2>5. CacheOK'  BY <1>4, <2>4 DEF HandleControl, CacheOK, NotCached
    <2> QED BY <2>1, <2>2, <2>3, <2>5, <1>4, Unchanged, Parts
            DEF HandleControl, storeVars, memVars, historyVars
  <1>5. ASSUME NEW e \in Entries, HoldRateLimited(e) PROVE TypeInv'
    <2>1. LoopOK'  BY <1>5, TakingType DEF HoldRateLimited, Dispatchable
    <2>2. FaultOK' BY <1>5, UndeliveredType DEF HoldRateLimited, Dispatchable
    <2> QED BY <2>1, <2>2, <1>5, Unchanged, Parts DEF HoldRateLimited, storeVars, memVars, historyVars
  <1>6. ASSUME NEW e \in Entries, DispatchError(e) PROVE TypeInv'
    <2>1. LoopOK' /\ phase \in {"main", "claim"}
      BY <1>6, TakingType DEF DispatchError, Dispatchable
    <2>hand. job' = Hand("ack", phase, e, {}, {}, {}, "error")
      BY <1>6 DEF DispatchError, Idle, Hand
    <2>2. JobOK' /\ HandOK'
      BY <2>1, <2>hand, HandType DEF Stages, Settled
    <2>3. FaultOK'  BY <1>6, UndeliveredType DEF DispatchError, Dispatchable
    <2>4. SiteOf[e] \in Sites  OBVIOUS
    <2>5. CacheOK' /\ UsedOK'  BY <1>6, <2>4, CacheType, Unchanged DEF DispatchError
    <2> QED BY <2>1, <2>2, <2>3, <2>5, <1>6, Unchanged, Parts DEF DispatchError, storeVars, historyVars
  <1>7. ASSUME NEW e \in Entries, NEW route \in Routes, NEW refused \in BOOLEAN,
               Dispatch(e, route, refused)
        PROVE TypeInv'
    <2>1. LoopOK' /\ phase \in {"main", "claim"}
      BY <1>7, TakingType DEF Dispatch, Dispatchable
    <2>hand. job' = Hand("send", phase, e, IF refused THEN {} ELSE route, {},
                       IF refused THEN {All} ELSE {}, IF phase = "main" THEN "archived" ELSE "claimed")
      BY <1>7 DEF Dispatch, Idle, Hand
    <2>2. JobOK' /\ HandOK'
      BY <2>1, <2>hand, HandType DEF Stages, Settled
    <2>3. FaultOK'  BY <1>7, UndeliveredType DEF Dispatch, Dispatchable
    <2>4. SiteOf[e] \in Sites  OBVIOUS
    <2>5. CacheOK' /\ UsedOK'  BY <1>7, <2>4, CacheType DEF Dispatch
    <2> QED BY <2>1, <2>2, <2>3, <2>5, <1>7, Unchanged, Parts DEF Dispatch, storeVars, historyVars
  <1> QED BY <1>1, <1>2, <1>3, <1>4, <1>5, <1>6, <1>7 DEF Guards

(* The entry in hand is one of the stream's, and its message one of Ids.   *)
LEMMA InHand ==
  ASSUME TypeInv, job.stage # "idle"
  PROVE  /\ job \in Job /\ job.e \in Entries
         /\ IdOf[job.e] \in Ids /\ SiteOf[job.e] \in Sites
  BY DEF TypeInv, TypeOK, JobOK, HandOK

(* Counting an accepted delivery.                                          *)
LEMMA DeliverType ==
  ASSUME TypeInv, NEW c \in Channels, job.stage # "idle", Deliver(c)
  PROVE  SendsOK'
  <1> SendsOK  BY DEF TypeInv, TypeOK
  <1> QED BY InHand DEF SendsOK, Deliver

LEMMA TypeSends ==
  ASSUME TypeInv, NEW c \in Channels, Send(c) \/ SendSkipped(c) \/ SendFails(c) \/ SendAnswerLost(c)
  PROVE  TypeInv'
  <1>0. job \in Job /\ job.e \in Entries /\ job.stage = "send"
    BY InHand DEF Send, SendSkipped, SendFails, SendAnswerLost
  <1>1. CASE Send(c)
    <2>1. JobOK' /\ HandOK'  BY <1>0, <1>1 DEF Send, JobOK, HandOK, Job
    <2>2. SendsOK' /\ FaultOK'  BY <1>0, <1>1, DeliverType, FaultType DEF Send
    <2> QED BY <2>1, <2>2, <1>1, Unchanged, Parts DEF Send, storeVars, memVars
  <1>2. CASE SendSkipped(c)
    <2>1. JobOK' /\ HandOK'  BY <1>0, <1>2 DEF SendSkipped, JobOK, HandOK, Job
    <2> QED BY <2>1, <1>2, Unchanged, Parts DEF SendSkipped, storeVars, memVars, historyVars
  <1>3. CASE SendFails(c)
    <2>1. JobOK' /\ HandOK'  BY <1>0, <1>3 DEF SendFails, JobOK, HandOK, Job
    <2> QED BY <2>1, <1>3, Unchanged, Parts DEF SendFails, storeVars, memVars, historyVars
  <1>4. CASE SendAnswerLost(c)
    <2>1. JobOK' /\ HandOK'  BY <1>0, <1>4 DEF SendAnswerLost, JobOK, HandOK, Job
    <2>2. SendsOK' /\ FaultOK'  BY <1>0, <1>4, DeliverType, FaultType DEF SendAnswerLost, FaultKinds
    <2> QED BY <2>1, <2>2, <1>4, Unchanged, Parts DEF SendAnswerLost, storeVars, memVars
  <1> QED BY <1>1, <1>2, <1>3, <1>4

LEMMA IdleType == job' = Idle => JobOK' /\ HandOK'
  BY DEF Idle, JobOK, HandOK, Job, Stages, Settled

(* Every status a job is archived with is a final one.                     *)
LEMMA StatusIsFinal == Status(job) \in Terminal
  BY DEF Status, MainStatus, ClaimStatus, Terminal

LEMMA TypeArchive ==
  ASSUME TypeInv, SendsDone \/ Archive \/ (\E written \in 0 .. 2 : ArchiveFails(written)) \/ MarkSent
  PROVE  TypeInv'
  <1>0. job \in Job /\ job.e \in Entries /\ IdOf[job.e] \in Ids /\ SiteOf[job.e] \in Sites
    BY InHand DEF SendsDone, Archive, ArchiveFails, MarkSent
  <1>r. RowOK /\ BackoffOK  BY DEF TypeInv, TypeOK
  <1>s. Status(job) \in Statuses  BY StatusIsFinal DEF Terminal, Statuses
  <1>1. CASE SendsDone
    <2>1. JobOK' /\ HandOK'  BY <1>0, <1>1 DEF SendsDone, JobOK, HandOK, Job, Stages, Settled
    <2> QED BY <2>1, <1>1, Unchanged, Parts DEF SendsDone, storeVars, memVars, historyVars
  <1>2. CASE Archive
    <2>1. JobOK' /\ HandOK'  BY <1>0, <1>2 DEF Archive, JobOK, HandOK, Job, Stages
    <2>2. RowOK'  BY <1>r, <1>s, <1>0, <1>2 DEF Archive, RowOK
    <2>3. BackoffOK'  BY <1>r, <1>0, <1>2 DEF Archive, BackoffOK
    <2> QED BY <2>1, <2>2, <2>3, <1>2, Unchanged, Parts DEF Archive, historyVars
  <1>3. ASSUME NEW written \in 0 .. 2, ArchiveFails(written) PROVE TypeInv'
    <2>1. JobOK' /\ HandOK' /\ BackoffOK'
      <3>1. CASE job.path = "main"
        <4>1. JobOK' /\ HandOK'
          BY <3>1, <1>3, IdleType DEF ArchiveFails
        <4>2. BackoffOK'  BY <3>1, <1>r, <1>0, <1>3 DEF ArchiveFails, BackoffOK
        <4> QED BY <4>1, <4>2
      <3>2. CASE job.path # "main"
        <4>1. JobOK' /\ HandOK'  BY <3>2, <1>0, <1>3 DEF ArchiveFails, JobOK, HandOK, Job, Stages
        <4>2. BackoffOK'  BY <3>2, <1>r, <1>3 DEF ArchiveFails, BackoffOK
        <4> QED BY <4>1, <4>2
      <3> QED BY <3>1, <3>2
    <2>3. RowOK'
      <3>1. written \in {0, 1, 2}  OBVIOUS
      <3>2. row' = row \/ row' = [row EXCEPT ![IdOf[job.e]] = IF @ = "none" THEN "pending" ELSE @]
            \/ row' = [row EXCEPT ![IdOf[job.e]] = Status(job)]
        BY <3>1, <1>3 DEF ArchiveFails
      <3> QED BY <3>2, <1>r, <1>s, <1>0 DEF RowOK, Statuses
    <2>4. FaultOK'  BY <1>3, FaultType DEF ArchiveFails, FaultKinds
    <2> QED BY <2>1, <2>3, <2>4, <1>3, Unchanged, Parts DEF ArchiveFails, historyVars
  <1>4. CASE MarkSent
    <2>1. JobOK' /\ HandOK'  BY <1>4, IdleType DEF MarkSent
    <2>2. RowOK'  BY <1>r, <1>0, <1>4 DEF MarkSent, RowOK, Statuses
    <2>3. FaultOK'  BY <1>4, FaultType DEF MarkSent, FaultKinds
    <2> QED BY <2>1, <2>2, <2>3, <1>4, Unchanged, Parts DEF MarkSent, memVars, historyVars
  <1> QED BY <1>1, <1>2, <1>3, <1>4

LEMMA ClearType ==
  ASSUME TypeInv, NEW id \in Ids, ClearRetry(id)
  PROVE  KeysOK'
  BY DEF TypeInv, TypeOK, ClearRetry, KeysOK, RetryOK, PointsToOK, RetryBounded, RetryState, NoRetry

(* RecordFailure keeps a key below max_attempts, or drops it.              *)
LEMMA RecordType ==
  ASSUME TypeInv, NEW id \in Ids, NEW e \in Entries, NEW chans \in SUBSET Channels,
         RecordFailure(id, e, chans)
  PROVE  KeysOK' /\ gaveUp' \subseteq Ids
  <1>0. RetryOK /\ PointsToOK /\ RetryBounded /\ gaveUp \subseteq Ids
    BY DEF TypeInv, TypeOK, HowOK
  <1>1. retry[id].attempts \in Nat /\ retry[id].entry \in 0 .. N
    BY <1>0 DEF RetryOK, RetryState
  <1>2. CASE retry[id].attempts + 1 >= MaxAttempts
    <2>1. ClearRetry(id) /\ gaveUp' = gaveUp \cup {id}  BY <1>2 DEF RecordFailure, ClearRetry
    <2> QED BY <2>1, <1>0, ClearType
  <1>3. CASE ~(retry[id].attempts + 1 >= MaxAttempts)
    <2> DEFINE n  == retry[id].attempts + 1
               pe == IF retry[id].attempts = 0 THEN e ELSE retry[id].entry
               new == [attempts |-> n, entry |-> pe, chans |-> chans]
    <2>1. retry' = [retry EXCEPT ![id] = new] /\ gaveUp' = gaveUp \ {id}
      BY <1>3 DEF RecordFailure
    <2>2. n \in 1 .. MaxAttempts /\ n < MaxAttempts  BY <1>1, <1>3
    <2>3. pe \in Entries  BY <1>0, <1>1 DEF PointsToOK
    <2>4. new \in RetryState  BY <2>2, <2>3 DEF RetryState, Entries
    <2> HIDE DEF new, pe, n
    <2>5. new.attempts = n /\ new.entry = pe  BY DEF new
    <2>6. RetryOK'  BY <2>1, <2>4, <1>0 DEF RetryOK
    <2>7. \A i \in Ids : retry'[i] = IF i = id THEN new ELSE retry[i]
      BY <2>1, <1>0 DEF RetryOK
    <2>8. PointsToOK' /\ RetryBounded'
      BY <2>7, <2>5, <2>2, <2>3, <1>0 DEF PointsToOK, RetryBounded
    <2> QED BY <2>1, <2>6, <2>8, <1>0 DEF KeysOK
  <1> QED BY <1>2, <1>3

LEMMA SettleNextType ==
  ASSUME TypeInv, job.stage # "idle", job' = SettleNext
  PROVE  JobOK' /\ HandOK'
  <1>1. CASE job' = Idle  BY <1>1, IdleType
  <1>2. CASE job' = [job EXCEPT !.stage = "mark"]
    BY <1>2, InHand DEF JobOK, HandOK, Job, Stages
  <1> QED BY <1>1, <1>2 DEF SettleNext

LEMMA TypeSettle ==
  ASSUME TypeInv, Ack \/ Settle \/ SettleFails
  PROVE  TypeInv'
  <1>0. /\ job \in Job /\ job.e \in Entries /\ job.stage # "idle"
        /\ IdOf[job.e] \in Ids /\ SiteOf[job.e] \in Sites
    BY InHand DEF Ack, Settle, SettleFails
  <1>h. HowOK /\ StreamsOK  BY DEF TypeInv, TypeOK
  <1>1. CASE Ack
    <2>1. JobOK' /\ HandOK'
      <3>1. CASE job' = Idle  BY <3>1, IdleType
      <3>2. CASE job' = [job EXCEPT !.stage = "settle"]
        BY <3>2, <1>0 DEF JobOK, HandOK, Job, Stages
      <3> QED BY <3>1, <3>2, <1>1 DEF Ack
    <2>2. FaultOK'  BY <1>1, FaultType DEF Ack, FaultKinds
    <2>3. StreamsOK'  BY <1>1, <1>h DEF Ack, StreamsOK
    <2>4. HowOK'
      <3>1. CASE UNCHANGED how  BY <3>1, <1>1, <1>h DEF Ack, HowOK
      <3>2. CASE how' = [how EXCEPT ![job.e] = SettledAs(job)]
        <4>1. SettledAs(job) \in Settled \cup {"none"}
          BY <1>0 DEF SettledAs, Job, Settled
        <4> QED BY <4>1, <3>2, <1>1, <1>0, <1>h DEF Ack, HowOK
      <3> QED BY <3>1, <3>2, <1>1 DEF Ack
    <2> QED BY <2>1, <2>2, <2>3, <2>4, <1>1, Unchanged, Parts DEF Ack, storeVars, memVars
  <1>2. CASE Settle
    <2>1. JobOK' /\ HandOK'  BY <1>2, <1>0, SettleNextType DEF Settle
    <2>2. job.fail \in SUBSET Channels  BY <1>0 DEF Job
    <2>3. KeysOK' /\ gaveUp' \subseteq Ids
      <3>1. CASE After(job) = "record"  BY <3>1, <1>2, <1>0, <2>2, RecordType DEF Settle
      <3>2. CASE After(job) = "drop"    BY <3>2, <1>2, <1>0, <1>h, ClearType DEF Settle, HowOK
      <3>3. CASE After(job) \notin {"record", "drop"}
        BY <3>3, <1>2, <1>0, <1>h, ClearType DEF Settle, HowOK
      <3> QED BY <3>1, <3>2, <3>3
    <2>4. HowOK'  BY <2>3, <1>2, <1>h DEF Settle, HowOK
    <2> QED BY <2>1, <2>3, <2>4, <1>2, Unchanged, Parts DEF Settle, memVars
  <1>3. CASE SettleFails
    <2>1. JobOK' /\ HandOK'  BY <1>3, <1>0, SettleNextType DEF SettleFails
    <2>2. FaultOK'  BY <1>3, FaultType DEF SettleFails, FaultKinds
    <2> QED BY <2>1, <2>2, <1>3, Unchanged, Parts DEF SettleFails, storeVars, memVars, historyVars
  <1> QED BY <1>1, <1>2, <1>3

(* A due retry points to an entry of the stream.                           *)
LEMMA DueEntry ==
  ASSUME TypeInv, NEW r \in due
  PROVE  r.entry \in Entries /\ r.chans \in SUBSET Channels /\ SiteOf[r.entry] \in Sites
  <1>1. r \in DueState  BY DEF TypeInv, TypeOK, LoopOK
  <1>2. r.entry \in Entries /\ r.chans \in SUBSET Channels  BY <1>1 DEF DueState
  <1> QED BY <1>2

LEMMA TakingRetryType ==
  ASSUME TypeInv, NEW r \in due, TakingRetry(r), UNCHANGED <<phase, batch>>
  PROVE  LoopOK'
  <1> LoopOK  BY DEF TypeInv, TypeOK
  <1> QED BY DEF LoopOK, TakingRetry

LEMMA TypeRetries == TypeInv /\ Retries => TypeInv'
  <1> SUFFICES ASSUME TypeInv, Retries PROVE TypeInv'
    OBVIOUS
  <1>1. ASSUME NEW r \in due, RetryRateLimited(r) PROVE TypeInv'
    BY <1>1, TakingRetryType, Unchanged, Parts
       DEF RetryRateLimited, storeVars, memVars, historyVars
  <1>2. ASSUME NEW r \in due, RetryTrimmed(r) PROVE TypeInv'
    <2>0. SiteOf[r.entry] \in Sites /\ r.entry \in Entries  BY DueEntry
    <2>1. LoopOK'  BY <1>2, TakingRetryType DEF RetryTrimmed, RetryAllowed
    <2>2. UsedOK'  BY <2>0, <1>2, CacheType DEF RetryTrimmed, RetryAllowed
    <2>3. job' = Hand("settle", "retry", r.entry, {}, {}, {}, "trimmed")
      BY <1>2 DEF RetryTrimmed, RetryJob, Idle, Hand
    <2>4. JobOK' /\ HandOK'  BY <2>0, <2>3, HandType DEF Stages, Settled
    <2> QED BY <2>1, <2>2, <2>4, <1>2, Unchanged, Parts DEF RetryTrimmed, storeVars, historyVars
  <1>3. ASSUME NEW r \in due, RetryFetchFails(r) PROVE TypeInv'
    <2>0. SiteOf[r.entry] \in Sites  BY DueEntry
    <2>1. LoopOK'  BY <1>3, TakingRetryType DEF RetryFetchFails, RetryAllowed
    <2>2. UsedOK' /\ FaultOK'
      BY <2>0, <1>3, CacheType, FaultType DEF RetryFetchFails, RetryAllowed, FaultKinds
    <2> QED BY <2>1, <2>2, <1>3, Unchanged, Parts DEF RetryFetchFails, storeVars, historyVars
  <1>4. ASSUME NEW r \in due, RetryError(r) PROVE TypeInv'
    <2>0. SiteOf[r.entry] \in Sites /\ r.entry \in Entries /\ r.chans \in SUBSET Channels
      BY DueEntry
    <2>1. LoopOK'  BY <1>4, TakingRetryType DEF RetryError, RetryAllowed
    <2>2. UsedOK' /\ CacheOK'
      BY <2>0, <1>4, CacheType, Unchanged DEF RetryError, RetryAllowed
    <2>3. job' = Hand("settle", "retry", r.entry, {}, r.chans, {}, "error")
      BY <1>4 DEF RetryError, RetryJob, Idle, Hand
    <2>4. JobOK' /\ HandOK'  BY <2>0, <2>3, HandType DEF Stages, Settled
    <2> QED BY <2>1, <2>2, <2>4, <1>4, Unchanged, Parts DEF RetryError, storeVars, historyVars
  <1>5. ASSUME NEW r \in due, NEW route \in Routes, NEW refused \in BOOLEAN,
               RetryDispatch(r, route, refused)
        PROVE TypeInv'
    <2>0. SiteOf[r.entry] \in Sites /\ r.entry \in Entries  BY DueEntry
    <2>1. LoopOK'  BY <1>5, TakingRetryType DEF RetryDispatch, RetryAllowed
    <2>2. UsedOK' /\ CacheOK'
      BY <2>0, <1>5, CacheType DEF RetryDispatch, RetryAllowed
    <2> DEFINE todo == IF refused THEN {} ELSE IF r.chans = {} THEN route ELSE route \cap r.chans
    <2>3. job' = Hand("send", "retry", r.entry, todo, {}, IF refused THEN {All} ELSE {}, "none")
      BY <1>5 DEF RetryDispatch, RetryJob, Idle, Hand
    <2>4. todo \in SUBSET Channels  OBVIOUS
    <2>5. JobOK' /\ HandOK'  BY <2>0, <2>3, <2>4, HandType DEF Stages
    <2> QED BY <2>1, <2>2, <2>5, <1>5, Unchanged, Parts DEF RetryDispatch, storeVars, historyVars
  <1> QED BY <1>1, <1>2, <1>3, <1>4, <1>5 DEF Retries

LEMMA TypeNext == TypeInv /\ [Next]_vars => TypeInv'
  <1> SUFFICES ASSUME TypeInv, [Next]_vars PROVE TypeInv'
    OBVIOUS
  <1>1. CASE Environment  BY <1>1, TypeEnvironment
  <1>2. CASE Loop         BY <1>2, TypeLoop
  <1>3. CASE Guards       BY <1>3, TypeGuards
  <1>4. CASE Steps        BY <1>4, TypeSends, TypeArchive, TypeSettle DEF Steps
  <1>5. CASE Retries      BY <1>5, TypeRetries
  <1>6. CASE UNCHANGED vars
    BY <1>6, Unchanged, Parts DEF vars, storeVars, memVars, historyVars
  <1> QED BY <1>1, <1>2, <1>3, <1>4, <1>5, <1>6 DEF Next, Daemon

(* In every reachable state the variables have their types: in particular  *)
(* the rate window is never overdrawn, a retry key always points to an     *)
(* entry that was appended, and the entry in hand is one of the stream's.  *)
THEOREM TypeCorrect == Spec => []TypeOK
  <1>1. TypeInv => TypeOK  BY DEF TypeInv
  <1> QED BY <1>1, TypeInit, TypeNext, PTL DEF Spec

(* No retry key ever holds max_attempts attempts.                          *)
THEOREM RetriesBounded == Spec => []RetryBounded
  <1>1. TypeInv => RetryBounded  BY DEF TypeInv
  <1> QED BY <1>1, TypeInit, TypeNext, PTL DEF Spec

-----------------------------------------------------------------------------
(* The acknowledgement fence.                                              *)

(* What a job carries that the fence rests on: only the main path settles  *)
(* as archived or mixed, only a row that says sent makes a duplicate, and  *)
(* a retry is never archived nor acknowledged.                             *)
JobFence ==
  /\ job.how \in {"archived", "mixed"} => job.path = "main"
  /\ job.stage \in {"send", "archive"} => job.how # "dup"
  /\ job.stage \in {"archive", "ack"} => job.path \in {"main", "claim"} /\ job.how # "none"
  /\ job.stage = "send" /\ job.path # "retry" => job.how # "none"

(* What is about to be acknowledged behind the fence is archived.          *)
AckReady ==
  job.stage = "ack" /\ SettledAs(job) \in Fenced => row[IdOf[job.e]] \in Terminal

FenceInv == JobFence /\ AckReady /\ AckFence

LEMMA FenceInit == Init => FenceInv
  BY DEF Init, FenceInv, JobFence, AckReady, AckFence, Idle, Fenced

(* Who writes the rows.                                                    *)
LEMMA RowFrame ==
  ASSUME [Next]_vars
  PROVE  UNCHANGED row \/ Archive \/ MarkSent \/ \E written \in 0 .. 2 : ArchiveFails(written)
  <1>1. Environment => UNCHANGED row
    BY DEF Environment, SaveSettings, Append, Trim, BackoffEnds, WindowSlides, RetryKeyExpires,
           Crash, storeVars
  <1>2. Loop => UNCHANGED row
    BY DEF Loop, Restart, Read, Claim, Sweep, EndLoop, storeVars
  <1>3. Guards => UNCHANGED row
    BY DEF Guards, HoldInBackoff, SkipDuplicate, ArchiveOnly, HandleControl, HoldRateLimited,
           DispatchError, Dispatch, storeVars
  <1>4. Retries => UNCHANGED row
    BY DEF Retries, RetryRateLimited, RetryTrimmed, RetryFetchFails, RetryError, RetryDispatch,
           storeVars
  <1>5. Steps => UNCHANGED row \/ Archive \/ MarkSent \/ \E written \in 0 .. 2 : ArchiveFails(written)
    BY DEF Steps, Send, SendSkipped, SendFails, SendAnswerLost, SendsDone, Ack, Settle,
           SettleFails, storeVars
  <1> QED BY <1>1, <1>2, <1>3, <1>4, <1>5 DEF Next, Daemon, vars, storeVars

(* A final status stays final.                                             *)
LEMMA FinalStays ==
  ASSUME TypeInv, [Next]_vars, NEW id \in Ids, row[id] \in Terminal
  PROVE  row'[id] \in Terminal
  <1>0. RowOK  BY DEF TypeInv, TypeOK
  <1>1. CASE Archive
    <2>1. IdOf[job.e] \in Ids  BY <1>1, InHand DEF Archive
    <2> QED BY <1>0, <1>1, <2>1, StatusIsFinal DEF Archive, RowOK
  <1>2. ASSUME NEW written \in 0 .. 2, ArchiveFails(written) PROVE row'[id] \in Terminal
    <2>1. IdOf[job.e] \in Ids  BY <1>2, InHand DEF ArchiveFails
    <2>2. written \in {0, 1, 2}  OBVIOUS
    <2>3. \/ row' = row
          \/ row' = [row EXCEPT ![IdOf[job.e]] = IF @ = "none" THEN "pending" ELSE @]
          \/ row' = [row EXCEPT ![IdOf[job.e]] = Status(job)]
      BY <1>2, <2>2 DEF ArchiveFails
    <2> QED BY <1>0, <2>1, <2>3, StatusIsFinal DEF RowOK, Terminal
  <1>3. CASE MarkSent
    <2>1. IdOf[job.e] \in Ids  BY <1>3, InHand DEF MarkSent
    <2> QED BY <1>0, <1>3, <2>1 DEF MarkSent, RowOK, Terminal
  <1>4. CASE UNCHANGED row  BY <1>4
  <1> QED BY <1>1, <1>2, <1>3, <1>4, RowFrame

(* With no entry settled the fence holds on, final statuses being final.   *)
LEMMA FenceKept ==
  ASSUME TypeInv, FenceInv, [Next]_vars, UNCHANGED how
  PROVE  AckFence'
  <1> SUFFICES ASSUME NEW e \in Entries, how[e] \in Fenced  PROVE row'[IdOf[e]] \in Terminal
    BY DEF AckFence
  <1>1. row[IdOf[e]] \in Terminal /\ IdOf[e] \in Ids  BY DEF FenceInv, AckFence
  <1> QED BY <1>1, FinalStays

(* With the same job in hand, so does what is to be acknowledged.          *)
LEMMA ReadyKept ==
  ASSUME TypeInv, FenceInv, [Next]_vars, UNCHANGED job
  PROVE  JobFence' /\ AckReady'
  <1>1. JobFence'  BY DEF FenceInv, JobFence
  <1>2. AckReady'
    <2>1. CASE job.stage = "ack" /\ SettledAs(job) \in Fenced
      BY <2>1, FinalStays, InHand DEF FenceInv, AckReady
    <2>2. CASE ~(job.stage = "ack" /\ SettledAs(job) \in Fenced)
      BY <2>2 DEF AckReady, SettledAs
    <2> QED BY <2>1, <2>2
  <1> QED BY <1>1, <1>2

LEMMA FenceGuards == TypeInv /\ FenceInv /\ Guards => FenceInv'
  <1> SUFFICES ASSUME TypeInv, FenceInv, Guards PROVE FenceInv'
    OBVIOUS
  <1>n. [Next]_vars  BY DEF Next, Daemon
  <1>1. AckFence'
    <2> UNCHANGED how
      BY DEF Guards, HoldInBackoff, SkipDuplicate, ArchiveOnly, HandleControl, HoldRateLimited,
             DispatchError, Dispatch, historyVars
    <2> QED BY <1>n, FenceKept
  <1>2. JobFence' /\ AckReady'
    <2>1. CASE UNCHANGED job  BY <2>1, <1>n, ReadyKept
    <2>2. ASSUME NEW e \in Entries, SkipDuplicate(e) PROVE JobFence' /\ AckReady'
      <3>1. phase \in {"main", "claim"} /\ row' = row /\ row[IdOf[e]] = "sent"
        BY <2>2, TakingType DEF SkipDuplicate, storeVars
      <3>2. job' = Hand("ack", phase, e, {}, {}, {}, "dup")  BY <2>2 DEF SkipDuplicate, Idle, Hand
      <3> QED BY <3>1, <3>2 DEF Hand, JobFence, AckReady, Terminal
    <2>3. ASSUME NEW e \in Entries, ArchiveOnly(e) PROVE JobFence' /\ AckReady'
      <3>1. phase \in {"main", "claim"}  BY <2>3, TakingType DEF ArchiveOnly
      <3>2. job' = Hand("archive", phase, e, {}, {}, {}, IF Exhausted(e) THEN "claimed" ELSE "spam")
        BY <2>3 DEF ArchiveOnly, Idle, Hand
      <3> QED BY <3>1, <3>2 DEF Hand, JobFence, AckReady
    <2>4. ASSUME NEW e \in Entries, HandleControl(e) PROVE JobFence' /\ AckReady'
      <3>1. job' = Hand("ack", "main", e, {}, {}, {}, "control")
        BY <2>4 DEF HandleControl, Idle, Hand
      <3> QED BY <3>1 DEF Hand, JobFence, AckReady, SettledAs, Fenced
    <2>5. ASSUME NEW e \in Entries, DispatchError(e) PROVE JobFence' /\ AckReady'
      <3>1. phase \in {"main", "claim"}  BY <2>5, TakingType DEF DispatchError, Dispatchable
      <3>2. job' = Hand("ack", phase, e, {}, {}, {}, "error")  BY <2>5 DEF DispatchError, Idle, Hand
      <3> QED BY <3>1, <3>2 DEF Hand, JobFence, AckReady, SettledAs, Fenced
    <2>6. ASSUME NEW e \in Entries, NEW route \in Routes, NEW refused \in BOOLEAN,
                 Dispatch(e, route, refused)
          PROVE  JobFence' /\ AckReady'
      <3>1. phase \in {"main", "claim"}  BY <2>6, TakingType DEF Dispatch, Dispatchable
      <3>2. job' = Hand("send", phase, e, IF refused THEN {} ELSE route, {},
                        IF refused THEN {All} ELSE {},
                        IF phase = "main" THEN "archived" ELSE "claimed")
        BY <2>6 DEF Dispatch, Idle, Hand
      <3> QED BY <3>1, <3>2 DEF Hand, JobFence, AckReady
    <2> QED BY <2>1, <2>2, <2>3, <2>4, <2>5, <2>6 DEF Guards, HoldInBackoff, HoldRateLimited
  <1> QED BY <1>1, <1>2 DEF FenceInv

LEMMA FenceRetries == TypeInv /\ FenceInv /\ Retries => FenceInv'
  <1> SUFFICES ASSUME TypeInv, FenceInv, Retries PROVE FenceInv'
    OBVIOUS
  <1>n. [Next]_vars  BY DEF Next, Daemon
  <1>1. AckFence'
    <2> UNCHANGED how
      BY DEF Retries, RetryRateLimited, RetryTrimmed, RetryFetchFails, RetryError, RetryDispatch,
             historyVars
    <2> QED BY <1>n, FenceKept
  <1>2. JobFence' /\ AckReady'
    <2>1. CASE UNCHANGED job  BY <2>1, <1>n, ReadyKept
    <2>2. ASSUME NEW r \in due, RetryTrimmed(r) PROVE JobFence' /\ AckReady'
      <3>1. job' = Hand("settle", "retry", r.entry, {}, {}, {}, "trimmed")
        BY <2>2 DEF RetryTrimmed, RetryJob, Idle, Hand
      <3> QED BY <3>1 DEF Hand, JobFence, AckReady
    <2>3. ASSUME NEW r \in due, RetryError(r) PROVE JobFence' /\ AckReady'
      <3>1. job' = Hand("settle", "retry", r.entry, {}, r.chans, {}, "error")
        BY <2>3 DEF RetryError, RetryJob, Idle, Hand
      <3> QED BY <3>1 DEF Hand, JobFence, AckReady
    <2>4. ASSUME NEW r \in due, NEW route \in Routes, NEW refused \in BOOLEAN,
                 RetryDispatch(r, route, refused)
          PROVE  JobFence' /\ AckReady'
      <3>1. job' = Hand("send", "retry", r.entry,
                        IF refused THEN {} ELSE IF r.chans = {} THEN route ELSE route \cap r.chans,
                        {}, IF refused THEN {All} ELSE {}, "none")
        BY <2>4 DEF RetryDispatch, RetryJob, Idle, Hand
      <3> QED BY <3>1 DEF Hand, JobFence, AckReady
    <2> QED BY <2>1, <2>2, <2>3, <2>4 DEF Retries, RetryRateLimited, RetryFetchFails
  <1> QED BY <1>1, <1>2 DEF FenceInv

LEMMA FenceEnvironment == TypeInv /\ FenceInv /\ Environment => FenceInv'
  <1> SUFFICES ASSUME TypeInv, FenceInv, Environment PROVE FenceInv'
    OBVIOUS
  <1>n. [Next]_vars  BY DEF Next, Daemon
  <1>1. AckFence'
    <2> UNCHANGED how
      BY DEF Environment, SaveSettings, Append, Trim, BackoffEnds, WindowSlides, RetryKeyExpires,
             Crash, historyVars
    <2> QED BY <1>n, FenceKept
  <1>2. JobFence' /\ AckReady'
    <2>1. CASE UNCHANGED job  BY <2>1, <1>n, ReadyKept
    <2>2. CASE Crash  BY <2>2 DEF Crash, Idle, JobFence, AckReady
    <2> QED BY <2>1, <2>2
            DEF Environment, SaveSettings, Append, Trim, BackoffEnds, WindowSlides, RetryKeyExpires
  <1> QED BY <1>1, <1>2 DEF FenceInv

LEMMA FenceLoop == TypeInv /\ FenceInv /\ Loop => FenceInv'
  <1> SUFFICES ASSUME TypeInv, FenceInv, Loop PROVE FenceInv'
    OBVIOUS
  <1>n. [Next]_vars  BY DEF Next, Daemon
  <1>1. AckFence'
    <2>1. CASE UNCHANGED how  BY <2>1, <1>n, FenceKept
    <2>2. ASSUME NEW S \in SUBSET pel, Claim(S) PROVE AckFence'
      <3> SUFFICES ASSUME NEW e \in Entries, how'[e] \in Fenced  PROVE row'[IdOf[e]] \in Terminal
        BY DEF AckFence
      <3>1. how[e] \in Fenced /\ row' = row  BY <2>2 DEF Claim, Fenced, storeVars
      <3> QED BY <3>1 DEF FenceInv, AckFence
    <2> QED BY <2>1, <2>2 DEF Loop, Restart, Read, Sweep, EndLoop, historyVars
  <1>2. JobFence' /\ AckReady'
    <2> UNCHANGED job  BY DEF Loop, Restart, Read, Claim, Sweep, EndLoop
    <2> QED BY <1>n, ReadyKept
  <1> QED BY <1>1, <1>2 DEF FenceInv

LEMMA FenceSteps == TypeInv /\ FenceInv /\ Steps => FenceInv'
  <1> SUFFICES ASSUME TypeInv, FenceInv, Steps PROVE FenceInv'
    OBVIOUS
  <1>n. [Next]_vars  BY DEF Next, Daemon
  <1>0. /\ job \in Job /\ job.e \in Entries /\ job.stage # "idle"
        /\ IdOf[job.e] \in Ids
    BY InHand DEF Steps, Send, SendSkipped, SendFails, SendAnswerLost, SendsDone, Archive,
                  ArchiveFails, Ack, Settle, SettleFails, MarkSent
  <1>1. AckFence'
    <2>1. CASE UNCHANGED how  BY <2>1, <1>n, FenceKept
    <2>2. CASE Ack /\ how' = [how EXCEPT ![job.e] = SettledAs(job)]
      <3> SUFFICES ASSUME NEW e \in Entries, how'[e] \in Fenced  PROVE row'[IdOf[e]] \in Terminal
        BY DEF AckFence
      <3>1. how \in [Entries -> Settled \cup {"none"}]  BY DEF TypeInv, TypeOK, HowOK
      <3>2. row' = row /\ job.stage = "ack"  BY <2>2 DEF Ack, storeVars
      <3>3. CASE e = job.e
        BY <3>1, <3>2, <3>3, <2>2 DEF FenceInv, AckReady
      <3>4. CASE e # job.e
        BY <3>1, <3>2, <3>4, <2>2 DEF FenceInv, AckFence
      <3> QED BY <3>3, <3>4
    <2> QED BY <2>1, <2>2 DEF Steps, Send, SendSkipped, SendFails, SendAnswerLost, SendsDone,
            Archive, ArchiveFails, Ack, Settle, SettleFails, MarkSent, historyVars
  <1> USE DEF FenceInv, JobFence, AckReady
  <1>2. ASSUME NEW c \in Channels, Send(c) \/ SendSkipped(c) \/ SendFails(c) \/ SendAnswerLost(c)
        PROVE  JobFence' /\ AckReady'
    <2>1. job'.stage = "send" /\ job.stage = "send" /\ job'.path = job.path /\ job'.how = job.how
      BY <1>0, <1>2 DEF Job, Send, SendSkipped, SendFails, SendAnswerLost
    <2> QED BY <2>1
  <1>3. CASE SendsDone
    <2>1. /\ job.stage = "send" /\ job'.path = job.path
          /\ job'.stage = IF job.path = "retry" THEN "settle" ELSE "archive"
          /\ job'.how = job.how \/ (job'.how = "mixed" /\ job.path = "main")
      BY <1>0, <1>3 DEF Job, SendsDone
    <2>2. job.path \in {"main", "claim", "retry"}  BY <1>0 DEF Job
    <2>3. job'.stage = "archive" => job'.how # "none"
      BY <2>1
    <2> QED BY <1>1, <2>1, <2>2, <2>3
  <1>4. CASE Archive
    <2>1. /\ job.stage = "archive" /\ job'.stage = "ack" /\ job'.e = job.e
          /\ job'.path = job.path /\ job'.how = job.how
      BY <1>0, <1>4 DEF Job, Archive
    <2>2. row'[IdOf[job.e]] \in Terminal
      BY <1>0, <1>4, StatusIsFinal DEF Archive, TypeInv, TypeOK, RowOK
    <2> QED BY <1>1, <2>1, <2>2
  <1>5. ASSUME NEW written \in 0 .. 2, ArchiveFails(written) PROVE JobFence' /\ AckReady'
    <2>1. CASE job.path = "main"
      BY <2>1, <1>5 DEF ArchiveFails, Idle
    <2>2. CASE job.path # "main"
      <3>1. /\ job.stage = "archive" /\ job'.stage = "ack" /\ job'.e = job.e
            /\ job'.path = job.path /\ job'.how = job.how
        BY <1>0, <1>5, <2>2 DEF Job, ArchiveFails
      <3> QED BY <3>1, <2>2 DEF SettledAs, Fenced
    <2> QED BY <2>1, <2>2
  <1>6. CASE Ack \/ Settle \/ SettleFails \/ MarkSent
    <2>1. CASE job' = Idle  BY <1>1, <2>1 DEF Idle
    <2>2. CASE \E stage \in {"settle", "mark"} : job' = [job EXCEPT !.stage = stage]
      <3>1. job'.stage \in {"settle", "mark"} /\ job'.path = job.path /\ job'.how = job.how
        BY <1>0, <2>2 DEF Job
      <3> QED BY <1>1, <3>1
    <2> QED BY <1>6, <2>1, <2>2 DEF Ack, Settle, SettleFails, MarkSent, SettleNext
  <1> QED BY <1>1, <1>2, <1>3, <1>4, <1>5, <1>6 DEF Steps

LEMMA FenceNext == TypeInv /\ FenceInv /\ [Next]_vars => FenceInv'
  <1> SUFFICES ASSUME TypeInv, FenceInv, [Next]_vars PROVE FenceInv'
    OBVIOUS
  <1>1. CASE UNCHANGED vars
    BY <1>1, FenceKept, ReadyKept DEF vars, FenceInv, historyVars
  <1> QED BY <1>1, FenceEnvironment, FenceLoop, FenceGuards, FenceSteps, FenceRetries
          DEF Next, Daemon

(* What the main path acknowledges, and what it takes for a duplicate, is  *)
(* archived with a final status, whatever fails or crashes when.           *)
THEOREM AckBehindArchive == Spec => []AckFence
  <1>1. TypeInv /\ FenceInv => AckFence  BY DEF FenceInv
  <1> QED BY <1>1, TypeInit, TypeNext, FenceInit, FenceNext, PTL DEF Spec

-----------------------------------------------------------------------------
(* CommsDispatch implements EntryDelivery.                                 *)

(* What the mapping rests on: the entries in the daemon's hands are still  *)
(* pending, and what is pending has been delivered and not settled.        *)
PelOK ==
  /\ pel \subseteq 1 .. delivered /\ delivered <= added
  /\ \A e \in pel : how[e] = "none"
  /\ \A e \in Entries : how[e] # "none" => e <= delivered

HoldsPending ==
  /\ phase \in {"down", "read"} => job.stage = "idle"
  /\ batch \subseteq pel
  /\ job.stage \in {"send", "archive", "ack"} /\ job.path # "retry" =>
       job.e \in pel /\ job.e \notin batch

PendingInv == PelOK /\ HoldsPending

LEMMA PendingInit == Init => PendingInv
  BY DEF Init, PendingInv, PelOK, HoldsPending, Idle, Entries

LEMMA PelKept ==
  ASSUME PendingInv, UNCHANGED <<added, delivered, pel, how>>
  PROVE  PelOK'
  BY DEF PendingInv, PelOK

LEMMA HoldsKept ==
  ASSUME PendingInv, UNCHANGED <<pel, batch, job, phase>>
  PROVE  HoldsPending'
  BY DEF PendingInv, HoldsPending

LEMMA PendingEnvironment == TypeInv /\ PendingInv /\ Environment => PendingInv'
  <1> SUFFICES ASSUME TypeInv, PendingInv, Environment PROVE PendingInv'
    OBVIOUS
  <1>1. CASE UNCHANGED <<added, delivered, pel, batch, job, phase, how>>
    BY <1>1, PelKept, HoldsKept DEF PendingInv
  <1>2. ASSUME NEW e \in Entries, Append(e) PROVE PendingInv'
    <2>1. StreamsOK  BY DEF TypeInv, TypeOK
    <2>2. PelOK'  BY <2>1, <1>2 DEF Append, historyVars, PendingInv, PelOK, StreamsOK
    <2> QED BY <2>2, <1>2, HoldsKept DEF Append, loopVars, PendingInv
  <1>3. CASE Crash
    <2>1. HoldsPending'  BY <1>3 DEF Crash, Idle, HoldsPending
    <2> QED BY <2>1, <1>3, PelKept DEF Crash, streamVars, historyVars, PendingInv
  <1> QED BY <1>1, <1>2, <1>3
          DEF Environment, SaveSettings, Trim, BackoffEnds, WindowSlides, RetryKeyExpires,
              streamVars, loopVars, historyVars

LEMMA PendingLoop == TypeInv /\ PendingInv /\ Loop => PendingInv'
  <1> SUFFICES ASSUME TypeInv, PendingInv, Loop PROVE PendingInv'
    OBVIOUS
  <1>0. StreamsOK /\ HowOK  BY DEF TypeInv, TypeOK
  <1>1. CASE Read
    <2>1. /\ job' = job /\ how' = how /\ added' = added /\ job.stage = "idle"
          /\ phase' = "main" /\ batch' \subseteq pel'
      BY <1>1 DEF Read, historyVars, Readable, PendingInv, HoldsPending
    <2>2. \/ delivered' = added /\ pel' = pel \cup Unread
          \/ UNCHANGED <<delivered, pel>>
      BY <1>1 DEF Read
    <2>3. PelOK'
      <3>0. PelOK /\ added \in Nat /\ delivered \in Nat  BY <1>0 DEF PendingInv, StreamsOK
      <3>1. CASE UNCHANGED <<delivered, pel>>  BY <3>1, <2>1, PelKept
      <3>2. CASE delivered' = added /\ pel' = pel \cup Unread
        <4>1. ASSUME NEW e \in pel'  PROVE e \in 1 .. delivered'
          <5>1. CASE e \in pel
            <6>1. e \in 1 .. delivered /\ delivered <= added  BY <5>1, <3>0 DEF PelOK
            <6> QED BY <6>1, <3>0, <3>2
          <5>2. CASE e \in Unread  BY <5>2, <3>0, <3>2 DEF Unread, Entries
          <5> QED BY <5>1, <5>2, <3>2
        <4>2. ASSUME NEW e \in pel'  PROVE how'[e] = "none"
          <5>1. CASE e \in pel  BY <5>1, <3>0, <2>1 DEF PelOK
          <5>2. CASE e \in Unread
            <6>1. e \in Entries /\ ~(e <= delivered)  BY <5>2, <3>0 DEF Unread, Entries
            <6> QED BY <6>1, <3>0, <2>1 DEF PelOK
          <5> QED BY <5>1, <5>2, <3>2
        <4>3. \A e \in Entries : how'[e] # "none" => e <= delivered'
          BY <3>0, <3>2, <2>1 DEF PelOK, Entries
        <4>4. delivered' <= added'  BY <3>0, <3>2, <2>1
        <4> QED BY <4>1, <4>2, <4>3, <4>4 DEF PelOK
      <3> QED BY <3>1, <3>2, <2>2
    <2>4. HoldsPending'  BY <2>1 DEF HoldsPending
    <2> QED BY <2>3, <2>4 DEF PendingInv
  <1>2. ASSUME NEW S \in SUBSET pel, Claim(S) PROVE PendingInv'
    <2>1. /\ job' = job /\ added' = added /\ delivered' = delivered /\ job.stage = "idle"
          /\ phase' = "claim" /\ pel' = pel \ (S \cap trimmed) /\ batch' \subseteq pel'
      BY <1>2 DEF Claim, Free, Readable
    <2>2. \A e \in Entries : how'[e] = IF e \in S \cap trimmed THEN "trimmed" ELSE how[e]
      BY <1>2 DEF Claim
    <2>3. PelOK'
      BY <2>1, <2>2, <1>0 DEF PendingInv, PelOK, StreamsOK, Entries
    <2>4. HoldsPending'  BY <2>1 DEF HoldsPending
    <2> QED BY <2>3, <2>4 DEF PendingInv
  <1>3. CASE Restart \/ EndLoop \/ \E S \in SUBSET Ids : \E twice \in SUBSET S : Sweep(S, twice)
    <2>1. UNCHANGED <<added, delivered, pel, batch, job, how>>
      BY <1>3 DEF Restart, EndLoop, Sweep, streamVars, historyVars
    <2>2. phase' = "retry" \/ job.stage = "idle"
      BY <1>3 DEF Restart, EndLoop, Sweep, Free, PendingInv, HoldsPending
    <2>3. HoldsPending'  BY <2>1, <2>2 DEF PendingInv, HoldsPending
    <2> QED BY <2>1, <2>3, PelKept DEF PendingInv
  <1> QED BY <1>1, <1>2, <1>3 DEF Loop

LEMMA PendingGuards == TypeInv /\ PendingInv /\ Guards => PendingInv'
  <1> SUFFICES ASSUME TypeInv, PendingInv, Guards PROVE PendingInv'
    OBVIOUS
  <1>1. UNCHANGED <<added, delivered, pel, how>>
    BY DEF Guards, HoldInBackoff, SkipDuplicate, ArchiveOnly, HandleControl, HoldRateLimited,
           DispatchError, Dispatch, streamVars, historyVars
  <1>2. PICK e \in Entries : Taking(e) /\ phase' = phase /\ (job' = job \/ job'.e = e)
    BY ZenonT(40)
       DEF Guards, HoldInBackoff, SkipDuplicate, ArchiveOnly, HandleControl, HoldRateLimited,
           DispatchError, Dispatch, Dispatchable, Idle
  <1>3. /\ e \in batch /\ batch' = batch \ {e} /\ job.stage = "idle"
        /\ phase \in {"main", "claim"}
    BY <1>2 DEF Taking
  <1>4. HoldsPending'  BY <1>1, <1>2, <1>3 DEF PendingInv, HoldsPending
  <1> QED BY <1>1, <1>4, PelKept DEF PendingInv

LEMMA PendingRetries == TypeInv /\ PendingInv /\ Retries => PendingInv'
  <1> SUFFICES ASSUME TypeInv, PendingInv, Retries PROVE PendingInv'
    OBVIOUS
  <1>1. UNCHANGED <<added, delivered, pel, how, batch, phase>>
    BY DEF Retries, RetryRateLimited, RetryTrimmed, RetryFetchFails, RetryError, RetryDispatch,
           streamVars, historyVars
  <1>2. (job' = job \/ job'.path = "retry") /\ phase = "retry"
    BY DEF Retries, RetryRateLimited, RetryTrimmed, RetryFetchFails, RetryError, RetryDispatch,
           RetryJob, RetryAllowed, TakingRetry, Idle
  <1>3. HoldsPending'  BY <1>1, <1>2 DEF PendingInv, HoldsPending
  <1> QED BY <1>1, <1>3, PelKept DEF PendingInv

LEMMA SendsDoneKeeps ==
  ASSUME TypeInv, SendsDone
  PROVE  job.stage = "send" /\ job'.e = job.e /\ job'.path = job.path
  <1>1. job \in Job  BY DEF TypeInv, TypeOK, JobOK
  <1> QED BY <1>1 DEF Job, SendsDone

LEMMA PendingSteps == TypeInv /\ FenceInv /\ PendingInv /\ Steps => PendingInv'
  <1> SUFFICES ASSUME TypeInv, FenceInv, PendingInv, Steps PROVE PendingInv'
    OBVIOUS
  <1>0. job \in Job /\ job.e \in Entries /\ job.stage # "idle"
    BY InHand DEF Steps, Send, SendSkipped, SendFails, SendAnswerLost, SendsDone, Archive,
                  ArchiveFails, Ack, Settle, SettleFails, MarkSent
  <1>1. UNCHANGED <<added, delivered, batch, phase>>
    BY DEF Steps, Send, SendSkipped, SendFails, SendAnswerLost, SendsDone, Archive,
           ArchiveFails, Ack, Settle, SettleFails, MarkSent, streamVars, loopVars
  <1>2. CASE UNCHANGED <<pel, how>>
    <2>1. \/ job'.stage \in {"idle", "settle", "mark"}
          \/ /\ job'.e = job.e /\ job'.path = job.path
             /\ job.stage \in {"send", "archive"}
      <3>1. CASE job' = Idle  BY <3>1 DEF Idle
      <3>2. CASE \E stage \in {"settle", "mark"} : job' = [job EXCEPT !.stage = stage]
        BY <3>2, <1>0 DEF Job
      <3>3. ASSUME NEW c \in Channels, Send(c) \/ SendSkipped(c) \/ SendFails(c) \/ SendAnswerLost(c)
            PROVE  job'.e = job.e /\ job'.path = job.path /\ job.stage = "send"
        BY <3>3, <1>0 DEF Job, Send, SendSkipped, SendFails, SendAnswerLost
      <3>4. CASE SendsDone
        BY <3>4, <1>0, SendsDoneKeeps
      <3>5. CASE Archive \/ \E written \in 0 .. 2 : ArchiveFails(written)
        <4>1. job.stage = "archive" /\ (job' = Idle \/ job' = [job EXCEPT !.stage = "ack"])
          BY <3>5 DEF Archive, ArchiveFails
        <4> QED BY <4>1, <3>1, <1>0 DEF Job
      <3> QED BY <3>1, <3>2, <3>3, <3>4, <3>5
              DEF Steps, Ack, Settle, SettleFails, MarkSent, SettleNext
    <2>2. HoldsPending'  BY <1>0, <1>1, <1>2, <2>1 DEF PendingInv, HoldsPending
    <2> QED BY <2>2, <1>1, <1>2, PelKept DEF PendingInv
  <1>3. CASE Ack /\ pel' = pel \ {job.e} /\ how' = [how EXCEPT ![job.e] = SettledAs(job)]
    <2>1. StreamsOK /\ HowOK  BY DEF TypeInv, TypeOK
    <2>2. job.stage = "ack" /\ job.path # "retry"  BY <1>3 DEF Ack, FenceInv, JobFence
    <2>3. job.e \in pel /\ job.e \notin batch  BY <2>2 DEF PendingInv, HoldsPending
    <2>4. \A e \in Entries : how'[e] = IF e = job.e THEN SettledAs(job) ELSE how[e]
      BY <1>3, <2>1 DEF HowOK
    <2>5. PelOK'
      <3>1. pel' \subseteq 1 .. delivered' /\ delivered' <= added'
        BY <1>1, <1>3 DEF PendingInv, PelOK
      <3>2. ASSUME NEW e \in pel'  PROVE how'[e] = "none"
        <4>1. e \in pel /\ e # job.e /\ e \in Entries  BY <1>3, <2>1 DEF StreamsOK
        <4> QED BY <4>1, <2>4 DEF PendingInv, PelOK
      <3>3. ASSUME NEW e \in Entries, how'[e] # "none"  PROVE e <= delivered'
        <4>1. CASE e = job.e
          <5>1. e \in 1 .. delivered  BY <4>1, <2>3 DEF PendingInv, PelOK
          <5> QED BY <5>1, <1>1
        <4>2. CASE e # job.e
          <5>1. how[e] # "none"  BY <3>3, <4>2, <2>4
          <5> QED BY <5>1, <1>1 DEF PendingInv, PelOK
        <4> QED BY <4>1, <4>2
      <3> QED BY <3>1, <3>2, <3>3 DEF PelOK
    <2>6. job'.stage \in {"idle", "settle"}
      <3>1. CASE job' = Idle  BY <3>1 DEF Idle
      <3>2. CASE job' = [job EXCEPT !.stage = "settle"]  BY <3>2, <1>0 DEF Job
      <3> QED BY <1>3, <3>1, <3>2 DEF Ack
    <2>7. HoldsPending'
      BY <1>0, <1>1, <1>3, <2>3, <2>6 DEF PendingInv, HoldsPending
    <2> QED BY <2>5, <2>7 DEF PendingInv
  <1>4. \/ UNCHANGED <<pel, how>>
        \/ Ack /\ pel' = pel \ {job.e} /\ how' = [how EXCEPT ![job.e] = SettledAs(job)]
    BY DEF Steps, Send, SendSkipped, SendFails, SendAnswerLost, SendsDone, Archive,
           ArchiveFails, Ack, Settle, SettleFails, MarkSent, streamVars, historyVars
  <1> QED BY <1>2, <1>3, <1>4

LEMMA PendingNext == TypeInv /\ FenceInv /\ PendingInv /\ [Next]_vars => PendingInv'
  <1> SUFFICES ASSUME TypeInv, FenceInv, PendingInv, [Next]_vars PROVE PendingInv'
    OBVIOUS
  <1>1. CASE UNCHANGED vars
    BY <1>1, PelKept, HoldsKept DEF vars, PendingInv, streamVars, loopVars, historyVars
  <1> QED BY <1>1, PendingEnvironment, PendingLoop, PendingGuards, PendingSteps, PendingRetries
          DEF Next, Daemon

(* The mapping, value by value.                                            *)
Archived == {id \in Ids : row[id] \in Terminal}

LEMMA RefineInit == Init => Abstract!Init
  BY DEF Init, Abstract!Init, Fate, Terminal, Entries

LEMMA FateKept == UNCHANGED <<added, pel, how>> => UNCHANGED Fate
  BY DEF Fate

LEMMA ArchivedKept == UNCHANGED row => UNCHANGED Archived
  BY DEF Archived

LEMMA RefineAppend ==
  ASSUME TypeInv, PendingInv, NEW e \in Entries, Append(e)
  PROVE  Abstract!Queue(e)
  <1>0. StreamsOK /\ PelOK  BY DEF TypeInv, TypeOK, PendingInv
  <1>1. added' = e /\ e = added + 1 /\ UNCHANGED <<pel, how, row>>
    BY DEF Append, storeVars, historyVars
  <1>2. e \notin pel /\ how[e] = "none"
    BY <1>0, <1>1 DEF StreamsOK, PelOK, Entries
  <1>3. Fate[e] = "absent"  BY <1>0, <1>1, <1>2 DEF Fate, StreamsOK, Entries
  <1>4. ASSUME NEW f \in Entries
        PROVE  Fate'[f] = IF f \in {e} THEN "queued" ELSE Fate[f]
    <2>1. f <= added' <=> f <= added \/ f = e  BY <1>0, <1>1 DEF StreamsOK, Entries
    <2>2. Fate'[f] = IF f \in pel THEN "pending" ELSE IF how[f] # "none" THEN how[f]
                     ELSE IF f <= added' THEN "queued" ELSE "absent"
      BY <1>1 DEF Fate
    <2>3. Fate[f] = IF f \in pel THEN "pending" ELSE IF how[f] # "none" THEN how[f]
                    ELSE IF f <= added THEN "queued" ELSE "absent"
      BY DEF Fate
    <2> QED BY <2>1, <2>2, <2>3, <1>2
  <1>5. Fate' = [f \in Entries |-> IF f \in {e} THEN "queued" ELSE Fate[f]]
    BY <1>4 DEF Fate
  <1>6. UNCHANGED Archived  BY <1>1, ArchivedKept
  <1> QED BY <1>3, <1>5, <1>6 DEF Abstract!Queue, Abstract!Move, Archived

LEMMA RefineRead ==
  ASSUME TypeInv, PendingInv, delivered' = added, pel' = pel \cup Unread,
         UNCHANGED <<added, how, row>>
  PROVE  Abstract!Deliver(Unread) /\ Unread \in SUBSET Entries
  <1>0. StreamsOK /\ PelOK  BY DEF TypeInv, TypeOK, PendingInv
  <1>1. ASSUME NEW e \in Unread  PROVE Fate[e] = "queued"
    <2>1. e \in Entries /\ delivered < e /\ e <= added  BY DEF Unread
    <2>2. e \notin pel /\ how[e] = "none"
      BY <1>0, <2>1 DEF StreamsOK, PelOK, Entries
    <2> QED BY <2>1, <2>2 DEF Fate
  <1>2. ASSUME NEW f \in Entries
        PROVE  Fate'[f] = IF f \in Unread THEN "pending" ELSE Fate[f]
    BY DEF Fate
  <1>3. Fate' = [f \in Entries |-> IF f \in Unread THEN "pending" ELSE Fate[f]]
    BY <1>2 DEF Fate
  <1>4. UNCHANGED Archived  BY ArchivedKept
  <1> QED BY <1>1, <1>3, <1>4 DEF Abstract!Deliver, Abstract!Move, Archived, Unread

LEMMA RefineClaim ==
  ASSUME TypeInv, PendingInv, NEW S \in SUBSET pel, Claim(S)
  PROVE  Abstract!Settle(S \cap trimmed, "trimmed") /\ S \cap trimmed \in SUBSET Entries
  <1>0. StreamsOK /\ PelOK  BY DEF TypeInv, TypeOK, PendingInv
  <1> DEFINE gone == S \cap trimmed
  <1>1. /\ pel' = pel \ gone /\ added' = added /\ row' = row
        /\ how' = [e \in Entries |-> IF e \in gone THEN "trimmed" ELSE how[e]]
    BY DEF Claim, storeVars
  <1>2. gone \subseteq pel /\ gone \subseteq Entries  BY <1>0 DEF StreamsOK
  <1> HIDE DEF gone
  <1>3. ASSUME NEW e \in gone  PROVE Fate[e] = "pending"  BY <1>2 DEF Fate
  <1>4. ASSUME NEW f \in Entries
        PROVE  Fate'[f] = IF f \in gone THEN "trimmed" ELSE Fate[f]
    BY <1>1, <1>2 DEF Fate
  <1>5. Fate' = [f \in Entries |-> IF f \in gone THEN "trimmed" ELSE Fate[f]]
    BY <1>4 DEF Fate
  <1>6. UNCHANGED Archived  BY <1>1, ArchivedKept
  <1>7. Abstract!Settle(gone, "trimmed")
    BY <1>3, <1>5, <1>6 DEF Abstract!Settle, Abstract!Move, Archived, Fenced
  <1> QED BY <1>2, <1>7 DEF gone

LEMMA RefineAck ==
  ASSUME TypeInv, FenceInv, PendingInv, Ack, pel' = pel \ {job.e},
         how' = [how EXCEPT ![job.e] = SettledAs(job)]
  PROVE  Abstract!Settle({job.e}, SettledAs(job)) /\ SettledAs(job) \in Settled
  <1>0. StreamsOK /\ HowOK  BY DEF TypeInv, TypeOK
  <1>1. job.stage = "ack" /\ added' = added /\ row' = row  BY DEF Ack, storeVars
  <1>2. job \in Job /\ job.e \in Entries /\ IdOf[job.e] \in Ids  BY <1>1, InHand
  <1>3. job.e \in pel  BY <1>1 DEF FenceInv, JobFence, PendingInv, HoldsPending
  <1>4. SettledAs(job) \in Settled
    <2>1. job.how \in Settled \cup {"none"} /\ job.how # "none"
      BY <1>1, <1>2 DEF Job, FenceInv, JobFence
    <2> QED BY <2>1 DEF SettledAs, Settled
  <1>5. SettledAs(job) \in Fenced => IdOf[job.e] \in Archived
    BY <1>1, <1>2 DEF FenceInv, AckReady, Archived
  <1>6. SettledAs(job) # "none"  BY <1>4 DEF Settled
  <1>7. ASSUME NEW f \in Entries
        PROVE  Fate'[f] = IF f \in {job.e} THEN SettledAs(job) ELSE Fate[f]
    <2>1. how'[f] = IF f = job.e THEN SettledAs(job) ELSE how[f]  BY <1>0 DEF HowOK
    <2> QED BY <2>1, <1>1, <1>6 DEF Fate
  <1>8. Fate' = [f \in Entries |-> IF f \in {job.e} THEN SettledAs(job) ELSE Fate[f]]
    BY <1>7 DEF Fate
  <1>9. Fate[job.e] = "pending"  BY <1>2, <1>3 DEF Fate
  <1>10. UNCHANGED Archived  BY <1>1, ArchivedKept
  <1> QED BY <1>4, <1>5, <1>8, <1>9, <1>10 DEF Abstract!Settle, Abstract!Move, Archived

(* Every step maps to a step of the abstract specification or to a stutter. *)
LEMMA RefineNext ==
  ASSUME TypeInv, FenceInv, PendingInv, [Next]_vars
  PROVE  [Abstract!Next]_<<Fate, Archived>>
  <1>1. CASE UNCHANGED <<added, pel, how, row>>
    BY <1>1, FateKept, ArchivedKept
  <1>2. ASSUME NEW e \in Entries, Append(e) PROVE Abstract!Next
    BY <1>2, RefineAppend DEF Abstract!Next
  <1>3. CASE Environment
    BY <1>1, <1>2, <1>3 DEF Environment, SaveSettings, Trim, BackoffEnds, WindowSlides,
       RetryKeyExpires, Crash, streamVars, storeVars, historyVars
  <1>4. CASE Loop
    <2>1. ASSUME delivered' = added, pel' = pel \cup Unread, UNCHANGED <<added, how, row>>
          PROVE  Abstract!Next
      BY <2>1, RefineRead DEF Abstract!Next
    <2>2. ASSUME NEW S \in SUBSET pel, Claim(S) PROVE Abstract!Next
      <3>1. "trimmed" \in Settled \ Fenced  BY DEF Settled, Fenced
      <3> QED BY <3>1, <2>2, RefineClaim DEF Abstract!Next
    <2>3. CASE Read
      BY <1>1, <2>1, <2>3 DEF Read, storeVars, historyVars
    <2>4. CASE Restart \/ EndLoop \/ \E S \in SUBSET Ids : \E twice \in SUBSET S : Sweep(S, twice)
      BY <1>1, <2>4 DEF Restart, EndLoop, Sweep, streamVars, storeVars, historyVars
    <2> QED BY <1>4, <2>2, <2>3, <2>4 DEF Loop
  <1>5. CASE Guards
    BY <1>1, <1>5 DEF Guards, HoldInBackoff, SkipDuplicate, ArchiveOnly, HandleControl,
       HoldRateLimited, DispatchError, Dispatch, streamVars, storeVars, historyVars
  <1>6. CASE Retries
    BY <1>1, <1>6 DEF Retries, RetryRateLimited, RetryTrimmed, RetryFetchFails, RetryError,
       RetryDispatch, streamVars, storeVars, historyVars
  <1>7. CASE Steps
    <2>0. IdOf[job.e] \in Ids
      BY <1>7, InHand DEF Steps, Send, SendSkipped, SendFails, SendAnswerLost, SendsDone, Archive,
         ArchiveFails, Ack, Settle, SettleFails, MarkSent
    <2>r. row \in [Ids -> Statuses]  BY DEF TypeInv, TypeOK, RowOK
    <2>1. ASSUME NEW status \in Terminal, row' = [row EXCEPT ![IdOf[job.e]] = status],
                 UNCHANGED <<added, pel, how>>
          PROVE  Abstract!Next
      <3>1. PICK id \in Ids : id = IdOf[job.e]  BY <2>0
      <3>2. Archived' = Archived \cup {id}  BY <3>1, <2>r, <2>1 DEF Archived
      <3>3. Abstract!Archive(id)  BY <3>2, <2>1, FateKept DEF Abstract!Archive, Archived
      <3> QED BY <3>3 DEF Abstract!Next
    <2>2. CASE Archive
      BY <2>1, <2>2, StatusIsFinal DEF Archive, streamVars, historyVars
    <2>3. ASSUME NEW written \in 0 .. 2, ArchiveFails(written)
          PROVE  [Abstract!Next]_<<Fate, Archived>>
      <3>0. UNCHANGED <<added, pel, how>>  BY <2>3 DEF ArchiveFails, streamVars, historyVars
      <3>1. CASE row' = row  BY <3>0, <3>1, <1>1
      <3>2. CASE row' = [row EXCEPT ![IdOf[job.e]] = IF @ = "none" THEN "pending" ELSE @]
        <4>1. UNCHANGED Archived  BY <3>2, <2>0, <2>r DEF Archived, Terminal
        <4> QED BY <4>1, <3>0, FateKept
      <3>3. CASE row' = [row EXCEPT ![IdOf[job.e]] = Status(job)]
        BY <3>0, <3>3, <2>1, StatusIsFinal
      <3>4. written \in {0, 1, 2}  OBVIOUS
      <3> QED BY <2>3, <3>1, <3>2, <3>3, <3>4 DEF ArchiveFails
    <2>4. CASE MarkSent
      <3>0. UNCHANGED <<added, pel, how>>  BY <2>4 DEF MarkSent, streamVars, historyVars
      <3>1. CASE row' = row  BY <3>0, <3>1, <1>1
      <3>2. CASE row' = [row EXCEPT ![IdOf[job.e]] = IF @ = "none" THEN @ ELSE "sent"]
        <4>1. CASE row[IdOf[job.e]] = "none"
          <5>1. row' = row  BY <4>1, <3>2, <2>r, <2>0
          <5> QED BY <5>1, <3>0, <1>1
        <4>2. CASE row[IdOf[job.e]] # "none"
          <5>1. row' = [row EXCEPT ![IdOf[job.e]] = "sent"]  BY <4>2, <3>2
          <5>2. "sent" \in Terminal  BY DEF Terminal
          <5> QED BY <5>1, <5>2, <3>0, <2>1
        <4> QED BY <4>1, <4>2
      <3> QED BY <2>4, <3>1, <3>2 DEF MarkSent
    <2>5. CASE Ack
      <3>1. CASE pel' = pel \ {job.e} /\ how' = [how EXCEPT ![job.e] = SettledAs(job)]
        <4>1. {job.e} \in SUBSET Entries  BY <2>5, InHand DEF Ack
        <4>2. SettledAs(job) \in Fenced \cup (Settled \ Fenced)
          BY <2>5, <3>1, RefineAck
        <4> QED BY <2>5, <3>1, <4>1, <4>2, RefineAck DEF Abstract!Next
      <3>2. CASE UNCHANGED <<pel, how>>
        BY <1>1, <2>5, <3>2 DEF Ack, storeVars
      <3> QED BY <2>5, <3>1, <3>2 DEF Ack
    <2> QED BY <1>1, <1>7, <2>2, <2>3, <2>4, <2>5 DEF Steps, Send, SendSkipped, SendFails,
            SendAnswerLost, SendsDone, Settle, SettleFails, streamVars, storeVars, historyVars
  <1>8. CASE UNCHANGED vars
    BY <1>1, <1>8 DEF vars, streamVars, storeVars, historyVars
  <1> QED BY <1>3, <1>4, <1>5, <1>6, <1>7, <1>8 DEF Next, Daemon

(* The daemon implements EntryDelivery: every entry is settled at most     *)
(* once, from the pending list and by one cause; a final row never goes    *)
(* back; and the main path settles only what the archive holds.            *)
THEOREM DeliveryImplemented == Spec => ImplementsDelivery
  <1>1. Init => TypeInv /\ FenceInv /\ PendingInv /\ Abstract!Init
    BY TypeInit, FenceInit, PendingInit, RefineInit
  <1>2. TypeInv /\ FenceInv /\ PendingInv /\ [Next]_vars => (TypeInv /\ FenceInv /\ PendingInv)'
    BY TypeNext, FenceNext, PendingNext
  <1>3. TypeInv /\ FenceInv /\ PendingInv /\ [Next]_vars => [Abstract!Next]_<<Fate, Archived>>
    BY RefineNext
  <1> QED BY <1>1, <1>2, <1>3, PTL DEF Spec, ImplementsDelivery, Abstract!Spec, Archived
-----------------------------------------------------------------------------
(* The rate window. What the model keeps for the limiter is the counter    *)
(* that the limiter itself, map, clock and pruning, is proved to be.       *)

Limiter == INSTANCE RateAllowance WITH
  Clients <- Sites, Allowance <- MaxPerWindow, count <- used

(* A dispatch or a retry that is let through counts for its site.          *)
LEMMA CountAdmits ==
  ASSUME NEW s \in Sites, RateAllows(s), Count(s)
  PROVE  Limiter!Next
  BY DEF RateAllows, Count, Limiter!Next, Limiter!Admit

LEMMA UsedFalls ==
  ASSUME TypeInv, Crash \/ \E s \in Sites : WindowSlides(s)
  PROVE  Limiter!Next
  <1>1. used \in [Sites -> Nat]  BY DispatchAssumption DEF TypeInv, TypeOK, UsedOK
  <1>2. ASSUME NEW s \in Sites, WindowSlides(s) PROVE Limiter!Next
    <2>1. used[s] \in Nat /\ used[s] > 0 /\ used' = [used EXCEPT ![s] = @ - 1]
      BY <1>1, <1>2 DEF WindowSlides
    <2>2. used[s] - 1 \in Nat /\ used[s] - 1 <= used[s]  BY <2>1
    <2>3. \A t \in Sites : used'[t] \in Nat /\ used'[t] <= used[t]
      BY <1>1, <2>1, <2>2
    <2> QED BY <1>1, <2>1, <2>3 DEF Limiter!Next, Limiter!Fall
  <1>3. CASE Crash
    <2>1. used' = [t \in Sites |-> 0]  BY <1>3 DEF Crash
    <2>2. \A t \in Sites : 0 <= used[t]  BY <1>1
    <2> QED BY <2>1, <2>2 DEF Limiter!Next, Limiter!Fall
  <1> QED BY <1>2, <1>3

LEMMA UsedMoves == TypeInv /\ [Next]_vars => [Limiter!Next]_used
  <1> SUFFICES ASSUME TypeInv, [Next]_vars PROVE Limiter!Next \/ used' = used
    OBVIOUS
  <1>1. CASE Environment
    <2>1. CASE Crash \/ \E s \in Sites : WindowSlides(s)  BY <2>1, UsedFalls
    <2>2. CASE ~ (Crash \/ \E s \in Sites : WindowSlides(s))
      BY <1>1, <2>2 DEF Environment, Append, SaveSettings, Trim, BackoffEnds, RetryKeyExpires,
         memVars
    <2> QED BY <2>1, <2>2
  <1>2. CASE Loop
    BY <1>2 DEF Loop, Restart, Read, Claim, Sweep, EndLoop, memVars
  <1>3. CASE Guards
    <2>1. ASSUME NEW e \in Entries, DispatchError(e) PROVE Limiter!Next
      BY <2>1, DispatchAssumption, CountAdmits DEF DispatchError, Dispatchable
    <2>2. ASSUME NEW e \in Entries, NEW route \in Routes, NEW refused \in BOOLEAN,
                 Dispatch(e, route, refused)
          PROVE  Limiter!Next
      BY <2>2, DispatchAssumption, CountAdmits DEF Dispatch, Dispatchable
    <2>3. ASSUME NEW e \in Entries,
                 HoldInBackoff(e) \/ SkipDuplicate(e) \/ ArchiveOnly(e) \/ HandleControl(e)
                   \/ HoldRateLimited(e)
          PROVE  used' = used
      BY <2>3 DEF HoldInBackoff, SkipDuplicate, ArchiveOnly, HandleControl, HoldRateLimited,
         memVars
    <2> QED BY <1>3, <2>1, <2>2, <2>3 DEF Guards
  <1>4. CASE Steps
    BY <1>4 DEF Steps, Send, SendSkipped, SendFails, SendAnswerLost, SendsDone, Archive,
       ArchiveFails, Ack, Settle, SettleFails, MarkSent, memVars
  <1>5. CASE Retries
    <2>1. ASSUME NEW r \in due, RetryAllowed(r) PROVE Limiter!Next
      BY <2>1, DueEntry, CountAdmits DEF RetryAllowed
    <2>2. ASSUME NEW r \in due, RetryRateLimited(r) PROVE used' = used
      BY <2>2 DEF RetryRateLimited, memVars
    <2> QED BY <1>5, <2>1, <2>2 DEF Retries, RetryTrimmed, RetryFetchFails, RetryError,
            RetryDispatch
  <1>6. CASE UNCHANGED vars  BY <1>6 DEF vars, memVars
  <1> QED BY <1>1, <1>2, <1>3, <1>4, <1>5, <1>6 DEF Next, Daemon

(* First dispatches, claimed ones and retries take from one allowance per  *)
(* site, each exactly once and only below it; a crash or the sliding       *)
(* window alone gives back. It is the counter RateLimiter implements.      *)
THEOREM DispatchesTakeFromAllowance == Spec => Limiter!Spec
  <1>1. Init => Limiter!Init  BY DEF Init, Limiter!Init
  <1> QED BY <1>1, TypeInit, TypeNext, UsedMoves, PTL DEF Spec, Limiter!Spec

=============================================================================
