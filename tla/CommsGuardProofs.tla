--------------------------- MODULE CommsGuardProofs ---------------------------
(* What CommsDispatch does with a message, for every value of the          *)
(* constants: spam is never sent, acknowledged settings have been          *)
(* reloaded, what failed is not forgotten, what is sent stays sent and is  *)
(* not waiting to be sent again, and every duplicate is paid for.          *)
EXTENDS CommsDispatchProofs, FiniteSetTheorems

USE DispatchAssumption

-----------------------------------------------------------------------------
(* Spam. The main path's guard is not enough: the claim path and the retry *)
(* sweep have guards of their own, or none. A spam entry in hand is only   *)
(* archived and acknowledged, and no retry key or due state names one.     *)
IsSpam(e) == KindOf[e] = "spam"

SpamInHand ==
  job.stage # "idle" /\ IsSpam(job.e) =>
    job.stage \in {"archive", "ack"} /\ job.how \in {"spam", "dup"}
SpamKeys == \A id \in Ids : retry[id].attempts > 0 => ~IsSpam(retry[id].entry)
SpamDue  == \A r \in due : ~IsSpam(r.entry)

SpamInv == SpamInHand /\ SpamKeys /\ SpamDue /\ SpamNeverSent

LEMMA SpamInit == Init => SpamInv
  BY DEF Init, SpamInv, SpamInHand, SpamKeys, SpamDue, SpamNeverSent, Idle, NoRetry

(* What does not change keeps its part of the invariant.                   *)
LEMMA SpamKept ==
  ASSUME SpamInv
  PROVE  /\ UNCHANGED job   => SpamInHand'
         /\ UNCHANGED retry => SpamKeys'
         /\ UNCHANGED due   => SpamDue'
         /\ UNCHANGED sends => SpamNeverSent'
         /\ job' = Idle     => SpamInHand'
  BY DEF SpamInv, SpamInHand, SpamKeys, SpamDue, SpamNeverSent, Idle

(* Dropping a retry key.                                                   *)
LEMMA SpamClear ==
  ASSUME TypeInv, SpamInv, NEW id \in Ids, ClearRetry(id)
  PROVE  SpamKeys'
  BY DEF TypeInv, TypeOK, RetryOK, SpamInv, SpamKeys, ClearRetry, NoRetry

LEMMA SpamEnvironment == TypeInv /\ SpamInv /\ Environment => SpamInv'
  <1> SUFFICES ASSUME TypeInv, SpamInv, Environment PROVE SpamInv'
    OBVIOUS
  <1>1. UNCHANGED sends
    BY DEF Environment, SaveSettings, Append, Trim, BackoffEnds, WindowSlides, RetryKeyExpires,
           Crash, historyVars
  <1>2. CASE UNCHANGED <<job, due, retry>>  BY <1>1, <1>2, SpamKept DEF SpamInv
  <1>3. ASSUME NEW id \in Ids, RetryKeyExpires(id) PROVE SpamInv'
    BY <1>1, <1>3, SpamKept, SpamClear DEF RetryKeyExpires, ClearRetry, loopVars, SpamInv
  <1>4. CASE Crash
    <2>1. SpamDue'  BY <1>4 DEF Crash, SpamDue
    <2> QED BY <1>1, <1>4, <2>1, SpamKept DEF Crash, storeVars, SpamInv
  <1> QED BY <1>2, <1>3, <1>4
          DEF Environment, SaveSettings, Append, Trim, BackoffEnds, WindowSlides,
              storeVars, loopVars

LEMMA SpamLoop == TypeInv /\ SpamInv /\ Loop => SpamInv'
  <1> SUFFICES ASSUME TypeInv, SpamInv, Loop PROVE SpamInv'
    OBVIOUS
  <1>1. UNCHANGED <<job, retry, sends>>
    BY DEF Loop, Restart, Read, Claim, Sweep, EndLoop, storeVars, historyVars
  <1>2. CASE UNCHANGED due  BY <1>1, <1>2, SpamKept DEF SpamInv
  <1>3. ASSUME NEW S \in SUBSET Ids, NEW twice \in SUBSET S, Sweep(S, twice)
        PROVE  SpamDue'
    <2> SUFFICES ASSUME NEW r \in due'  PROVE ~IsSpam(r.entry)
      BY DEF SpamDue, IsSpam
    <2>1. PICK id \in S : r.entry = retry[id].entry
      BY <1>3 DEF Sweep
    <2> QED BY <1>3, <2>1 DEF Sweep, SpamInv, SpamKeys
  <1> QED BY <1>1, <1>2, <1>3, SpamKept DEF Loop, Restart, Read, Claim, EndLoop, SpamInv

LEMMA SpamGuards == TypeInv /\ SpamInv /\ Guards => SpamInv'
  <1> SUFFICES ASSUME TypeInv, SpamInv, Guards PROVE SpamInv'
    OBVIOUS
  <1>1. UNCHANGED <<retry, due, sends>>
    BY DEF Guards, HoldInBackoff, SkipDuplicate, ArchiveOnly, HandleControl, HoldRateLimited,
           DispatchError, Dispatch, storeVars, historyVars
  <1>2. SpamInHand'
    <2>1. CASE UNCHANGED job  BY <2>1, SpamKept
    <2>2. ASSUME NEW e \in Entries, SkipDuplicate(e) PROVE SpamInHand'
      <3>1. job' = Hand("ack", phase, e, {}, {}, {}, "dup")  BY <2>2 DEF SkipDuplicate, Idle, Hand
      <3> QED BY <3>1 DEF Hand, SpamInHand
    <2>3. ASSUME NEW e \in Entries, ArchiveOnly(e) PROVE SpamInHand'
      <3>1. job' = Hand("archive", phase, e, {}, {}, {}, IF Exhausted(e) THEN "claimed" ELSE "spam")
        BY <2>3 DEF ArchiveOnly, Idle, Hand
      <3>2. retry[IdOf[e]].attempts \in Nat /\ IdOf[e] \in Ids
        BY DEF TypeInv, TypeOK, RetryOK, RetryState
      <3>3. ~Exhausted(e)  BY <3>2 DEF Exhausted, TypeInv, RetryBounded
      <3> QED BY <3>1, <3>3 DEF Hand, SpamInHand
    <2>4. ASSUME NEW e \in Entries, HandleControl(e) PROVE SpamInHand'
      <3>1. job' = Hand("ack", "main", e, {}, {}, {}, "control")
        BY <2>4 DEF HandleControl, Idle, Hand
      <3>2. ~IsSpam(e)  BY <2>4 DEF HandleControl, Control, IsControl, IsSpam
      <3> QED BY <3>1, <3>2 DEF Hand, SpamInHand
    <2>5. ASSUME NEW e \in Entries, DispatchError(e) PROVE SpamInHand'
      <3>1. job' = Hand("ack", phase, e, {}, {}, {}, "error")  BY <2>5 DEF DispatchError, Idle, Hand
      <3>2. ~IsSpam(e)  BY <2>5 DEF DispatchError, Dispatchable, IsSpam
      <3> QED BY <3>1, <3>2 DEF Hand, SpamInHand
    <2>6. ASSUME NEW e \in Entries, NEW route \in Routes, NEW refused \in BOOLEAN,
                 Dispatch(e, route, refused)
          PROVE  SpamInHand'
      <3>1. job' = Hand("send", phase, e, IF refused THEN {} ELSE route, {},
                        IF refused THEN {All} ELSE {},
                        IF phase = "main" THEN "archived" ELSE "claimed")
        BY <2>6 DEF Dispatch, Idle, Hand
      <3>2. ~IsSpam(e)  BY <2>6 DEF Dispatch, Dispatchable, IsSpam
      <3> QED BY <3>1, <3>2 DEF Hand, SpamInHand
    <2> QED BY <2>1, <2>2, <2>3, <2>4, <2>5, <2>6 DEF Guards, HoldInBackoff, HoldRateLimited
  <1> QED BY <1>1, <1>2, SpamKept DEF SpamInv

LEMMA SpamRetries == TypeInv /\ SpamInv /\ Retries => SpamInv'
  <1> SUFFICES ASSUME TypeInv, SpamInv, Retries PROVE SpamInv'
    OBVIOUS
  <1>1. UNCHANGED <<retry, sends>> /\ due' \subseteq due
    BY DEF Retries, RetryRateLimited, RetryTrimmed, RetryFetchFails, RetryError, RetryDispatch,
           RetryAllowed, TakingRetry, storeVars, historyVars
  <1>2. SpamDue'  BY <1>1 DEF SpamInv, SpamDue
  <1>3. PICK r \in due : job' = job \/ job'.e = r.entry
    BY DEF Retries, RetryRateLimited, RetryTrimmed, RetryFetchFails, RetryError, RetryDispatch,
           RetryJob, Idle
  <1>4. SpamInHand'
    <2>1. CASE job' = job  BY <2>1, SpamKept
    <2>2. CASE job'.e = r.entry  BY <2>2 DEF SpamInHand, SpamInv, SpamDue
    <2> QED BY <1>3, <2>1, <2>2
  <1> QED BY <1>1, <1>2, <1>4, SpamKept DEF SpamInv

(* An accepted delivery is of an entry that is not spam.                   *)
LEMMA SpamDeliver ==
  ASSUME TypeInv, SpamInv, NEW c \in Channels, job.stage = "send", Deliver(c)
  PROVE  SpamNeverSent'
  <1>0. SendsOK  BY DEF TypeInv, TypeOK
  <1>1. job.e \in Entries /\ ~IsSpam(job.e)  BY InHand DEF SpamInv, SpamInHand
  <1> SUFFICES ASSUME NEW id \in Ids, \A e \in EntriesOf(id) : KindOf[e] = "spam",
                      NEW d \in Channels
               PROVE  sends'[id][d] = 0
    BY DEF SpamNeverSent
  <1>2. id # IdOf[job.e]  BY <1>1 DEF EntriesOf, IsSpam
  <1>3. sends'[id] = sends[id]  BY <1>0, <1>2 DEF Deliver, SendsOK
  <1> QED BY <1>3 DEF SpamInv, SpamNeverSent

LEMMA SpamSteps == TypeInv /\ SpamInv /\ Steps => SpamInv'
  <1> SUFFICES ASSUME TypeInv, SpamInv, Steps PROVE SpamInv'
    OBVIOUS
  <1>0. /\ job \in Job /\ job.e \in Entries /\ job.stage # "idle" /\ IdOf[job.e] \in Ids
    BY InHand DEF Steps, Send, SendSkipped, SendFails, SendAnswerLost, SendsDone, Archive,
                  ArchiveFails, Ack, Settle, SettleFails, MarkSent
  <1>1. UNCHANGED due
    BY DEF Steps, Send, SendSkipped, SendFails, SendAnswerLost, SendsDone, Archive,
           ArchiveFails, Ack, Settle, SettleFails, MarkSent, loopVars
  <1>2. SpamInHand'
    <2>1. CASE job' = Idle  BY <2>1, SpamKept
    <2>2. CASE ~IsSpam(job.e) /\ job'.e = job.e  BY <2>2 DEF SpamInHand
    <2>3. job' = Idle \/ job'.e = job.e
      BY <1>0 DEF Job, Steps, Send, SendSkipped, SendFails, SendAnswerLost, SendsDone, Archive,
             ArchiveFails, Ack, Settle, SettleFails, MarkSent, SettleNext
    <2>4. CASE IsSpam(job.e)
      <3>1. job.stage \in {"archive", "ack"} /\ job.how \in {"spam", "dup"}
        BY <1>0, <2>4 DEF SpamInv, SpamInHand
      <3>2. \/ job' = Idle
            \/ job' = [job EXCEPT !.stage = "ack"]
            \/ Ack
        BY <3>1 DEF Steps, Send, SendSkipped, SendFails, SendAnswerLost, SendsDone, Archive,
                    ArchiveFails, Settle, SettleFails, MarkSent
      <3>3. CASE job' = [job EXCEPT !.stage = "ack"]
        BY <3>1, <3>3, <1>0 DEF Job, SpamInHand
      <3>4. CASE Ack
        <4>1. After(job) = "none"  BY <3>1 DEF After
        <4> QED BY <3>4, <4>1, <2>1 DEF Ack
      <3> QED BY <3>2, <3>3, <3>4, <2>1
    <2> QED BY <2>1, <2>2, <2>3, <2>4
  <1>3. SpamKeys'
    <2>1. CASE UNCHANGED retry  BY <2>1, SpamKept
    <2>2. CASE Settle
      <3>1. ~IsSpam(job.e)  BY <2>2 DEF Settle, SpamInv, SpamInHand
      <3>2. CASE ClearRetry(IdOf[job.e])  BY <3>2, <1>0, SpamClear
      <3>3. CASE RecordFailure(IdOf[job.e], job.e, job.fail) /\ ~ClearRetry(IdOf[job.e])
        <4> DEFINE id == IdOf[job.e]
                   pe == IF retry[id].attempts = 0 THEN job.e ELSE retry[id].entry
        <4>1. PICK n \in Nat : retry' = [retry EXCEPT ![id] =
                                 [attempts |-> n, entry |-> pe, chans |-> job.fail]]
          <5>1. retry[id].attempts + 1 \in Nat
            BY <1>0 DEF TypeInv, TypeOK, RetryOK, RetryState
          <5> QED BY <3>3, <5>1 DEF RecordFailure, ClearRetry
        <4>2. retry[id].attempts \in Nat
          BY <1>0 DEF TypeInv, TypeOK, RetryOK, RetryState
        <4>3. ~IsSpam(pe)
          <5>1. CASE retry[id].attempts = 0  BY <5>1, <3>1
          <5>2. CASE retry[id].attempts > 0  BY <5>2, <1>0 DEF SpamInv, SpamKeys
          <5> QED BY <4>2, <5>1, <5>2
        <4> HIDE DEF pe, id
        <4>4. ASSUME NEW i \in Ids, retry'[i].attempts > 0  PROVE ~IsSpam(retry'[i].entry)
          <5>0. retry \in [Ids -> RetryState]  BY DEF TypeInv, TypeOK, RetryOK
          <5>1. CASE i = id
            <6>1. retry'[i].entry = pe  BY <5>0, <5>1, <4>1
            <6> QED BY <6>1, <4>3
          <5>2. CASE i # id
            <6>1. retry'[i] = retry[i]  BY <5>0, <5>2, <4>1
            <6> QED BY <6>1, <4>4 DEF SpamInv, SpamKeys
          <5> QED BY <5>1, <5>2
        <4> QED BY <4>4 DEF SpamKeys, IsSpam
      <3> QED BY <2>2, <3>2, <3>3 DEF Settle, ClearRetry
    <2> QED BY <2>1, <2>2 DEF Steps, Send, SendSkipped, SendFails, SendAnswerLost, SendsDone,
            Archive, ArchiveFails, Ack, SettleFails, MarkSent, storeVars
  <1>4. SpamNeverSent'
    <2>1. CASE UNCHANGED sends  BY <2>1, SpamKept
    <2>2. ASSUME NEW c \in Channels, Send(c) \/ SendAnswerLost(c)  PROVE SpamNeverSent'
      BY <2>2, SpamDeliver DEF Send, SendAnswerLost
    <2> QED BY <2>1, <2>2 DEF Steps, SendSkipped, SendFails, SendsDone, Archive,
            ArchiveFails, Ack, Settle, SettleFails, MarkSent, historyVars
  <1> QED BY <1>1, <1>2, <1>3, <1>4, SpamKept DEF SpamInv

LEMMA SpamNext == TypeInv /\ SpamInv /\ [Next]_vars => SpamInv'
  <1> SUFFICES ASSUME TypeInv, SpamInv, [Next]_vars PROVE SpamInv'
    OBVIOUS
  <1>1. CASE UNCHANGED vars
    BY <1>1, SpamKept DEF vars, SpamInv, storeVars, loopVars, historyVars
  <1> QED BY <1>1, SpamEnvironment, SpamLoop, SpamGuards, SpamSteps, SpamRetries DEF Next, Daemon

(* A message all of whose entries are spam reaches no channel, by no path, *)
(* whatever fails or crashes when.                                         *)
THEOREM SpamStays == Spec => []SpamNeverSent
  <1>1. SpamInv => SpamNeverSent  BY DEF SpamInv
  <1> QED BY <1>1, TypeInit, TypeNext, SpamInit, SpamNext, PTL DEF Spec

-----------------------------------------------------------------------------
(* Settings. A reload entry follows its save, so a load that happens once  *)
(* the entry is in the stream finds settings at least as new; and between  *)
(* dropping the cached settings and acknowledging nothing is loaded.       *)
IsReload(e) == KindOf[e] = "settings.reload"

SavedFirst == \A e \in Entries : e <= added /\ IsReload(e) => cfg[SiteOf[e]] >= e
ControlInHand ==
  job.how = "control" =>
    /\ job.stage = "ack"
    /\ IsReload(job.e) => cache[SiteOf[job.e]] >= job.e

ReloadInv == SavedFirst /\ ControlInHand /\ ReloadApplied

LEMMA ReloadInit == Init => ReloadInv
  BY DEF Init, ReloadInv, SavedFirst, ControlInHand, ReloadApplied, Idle, Entries

LEMMA ReloadKept ==
  ASSUME ReloadInv
  PROVE  /\ UNCHANGED <<added, cfg>> => SavedFirst'
         /\ UNCHANGED <<job, cache>> => ControlInHand'
         /\ UNCHANGED <<how, cache>> => ReloadApplied'
         /\ job' = Idle => ControlInHand'
  BY DEF ReloadInv, SavedFirst, ControlInHand, ReloadApplied, IsReload, Idle

(* Loading settings puts none older than an acknowledged reload in place.  *)
LEMMA LoadKeeps ==
  ASSUME TypeInv, PendingInv, ReloadInv, NEW s \in Sites, LoadSettings(s) \/ UNCHANGED cache,
         UNCHANGED how
  PROVE  ReloadApplied'
  <1>0. StreamsOK /\ CacheOK /\ CfgOK /\ PelOK  BY DEF TypeInv, TypeOK, PendingInv
  <1> SUFFICES ASSUME NEW e \in Entries, how[e] = "control", IsReload(e)
               PROVE  cache'[SiteOf[e]] >= e
    BY DEF ReloadApplied, IsReload
  <1>1. e <= added
    <2>1. e <= delivered /\ delivered <= added  BY <1>0 DEF PelOK
    <2> QED BY <2>1, <1>0 DEF StreamsOK, Entries
  <1>2. cfg[SiteOf[e]] >= e  BY <1>1 DEF ReloadInv, SavedFirst
  <1>3. cache[SiteOf[e]] >= e  BY DEF ReloadInv, ReloadApplied, IsReload
  <1> QED BY <1>0, <1>2, <1>3 DEF LoadSettings, CacheOK

LEMMA ReloadEnvironment == TypeInv /\ ReloadInv /\ Environment => ReloadInv'
  <1> SUFFICES ASSUME TypeInv, ReloadInv, Environment PROVE ReloadInv'
    OBVIOUS
  <1>0. StreamsOK /\ CfgOK  BY DEF TypeInv, TypeOK
  <1>1. CASE UNCHANGED <<added, cfg, job, cache, how>>  BY <1>1, ReloadKept DEF ReloadInv
  <1>2. ASSUME NEW e \in Entries, SaveSettings(e) PROVE ReloadInv'
    <2>1. UNCHANGED <<added, job, cache, how>> /\ cfg' = [cfg EXCEPT ![SiteOf[e]] = e]
      BY <1>2 DEF SaveSettings, streamVars, memVars, historyVars
    <2>2. SavedFirst'
      <3> SUFFICES ASSUME NEW f \in Entries, f <= added, IsReload(f)
                   PROVE  cfg'[SiteOf[f]] >= f
        BY <2>1 DEF SavedFirst, IsReload
      <3>1. cfg[SiteOf[f]] >= f  BY DEF ReloadInv, SavedFirst
      <3>2. cfg[SiteOf[e]] < e  BY <1>2 DEF SaveSettings
      <3>3. cfg[SiteOf[e]] \in Nat /\ e \in Nat /\ f \in Nat  BY <1>0 DEF CfgOK, Entries
      <3> QED BY <3>1, <3>2, <3>3, <2>1, <1>0 DEF CfgOK
    <2> QED BY <2>1, <2>2, ReloadKept DEF ReloadInv
  <1>3. ASSUME NEW e \in Entries, Append(e) PROVE ReloadInv'
    <2>1. UNCHANGED <<cfg, job, cache, how>>
      BY <1>3 DEF Append, storeVars, memVars, historyVars
    <2>2. SavedFirst'
      BY <1>0, <1>3, <2>1 DEF Append, StreamsOK, Entries, ReloadInv, SavedFirst, IsReload
    <2> QED BY <2>1, <2>2, ReloadKept DEF ReloadInv
  <1>4. CASE Crash
    <2>1. UNCHANGED <<added, cfg, how>>  BY <1>4 DEF Crash, streamVars, storeVars, historyVars
    <2>2. ReloadApplied'  BY <1>4 DEF Crash, ReloadApplied, NotCached, Entries
    <2> QED BY <1>4, <2>1, <2>2, ReloadKept DEF Crash, ReloadInv
  <1> QED BY <1>1, <1>2, <1>3, <1>4
          DEF Environment, Trim, BackoffEnds, WindowSlides, RetryKeyExpires,
              streamVars, storeVars, memVars, historyVars

LEMMA ReloadLoop == ReloadInv /\ Loop => ReloadInv'
  <1> SUFFICES ASSUME ReloadInv, Loop PROVE ReloadInv'
    OBVIOUS
  <1>1. UNCHANGED <<added, cfg, job, cache>>
    BY DEF Loop, Restart, Read, Claim, Sweep, EndLoop, streamVars, storeVars, memVars
  <1>2. \A e \in Entries : how'[e] = "control" => how[e] = "control"
    BY DEF Loop, Restart, Read, Claim, Sweep, EndLoop, historyVars
  <1>3. ReloadApplied'  BY <1>1, <1>2 DEF ReloadInv, ReloadApplied
  <1> QED BY <1>1, <1>3, ReloadKept DEF ReloadInv

LEMMA ReloadGuards == TypeInv /\ PendingInv /\ ReloadInv /\ Guards => ReloadInv'
  <1> SUFFICES ASSUME TypeInv, PendingInv, ReloadInv, Guards PROVE ReloadInv'
    OBVIOUS
  <1>1. UNCHANGED <<added, cfg, how>>
    BY DEF Guards, HoldInBackoff, SkipDuplicate, ArchiveOnly, HandleControl, HoldRateLimited,
           DispatchError, Dispatch, streamVars, storeVars, historyVars
  <1>2. CASE UNCHANGED <<cache, job>>  BY <1>1, <1>2, ReloadKept DEF ReloadInv
  <1>3. ASSUME NEW e \in Entries, SkipDuplicate(e) \/ ArchiveOnly(e) PROVE ReloadInv'
    <2>1. UNCHANGED cache  BY <1>3 DEF SkipDuplicate, ArchiveOnly, memVars
    <2>2. job'.how # "control"  BY <1>3 DEF SkipDuplicate, ArchiveOnly, Idle
    <2>3. ControlInHand'  BY <2>2 DEF ControlInHand
    <2> QED BY <1>1, <2>1, <2>3, ReloadKept DEF ReloadInv
  <1>4. ASSUME NEW e \in Entries, HandleControl(e) PROVE ReloadInv'
    <2>0. CacheOK /\ SiteOf[e] \in Sites  BY DEF TypeInv, TypeOK
    <2>1. job' = Hand("ack", "main", e, {}, {}, {}, "control")
      BY <1>4 DEF HandleControl, Idle, Hand
    <2>2. /\ IsReload(e) => cache'[SiteOf[e]] = NotCached
          /\ \A s \in Sites : cache'[s] = cache[s] \/ cache'[s] = NotCached
      BY <1>4, <2>0 DEF HandleControl, CacheOK, IsReload
    <2>3. ControlInHand'  BY <2>1, <2>2 DEF ControlInHand, Hand, IsReload, NotCached, Entries
    <2>4. ReloadApplied'
      <3> SUFFICES ASSUME NEW f \in Entries, how[f] = "control", IsReload(f)
                   PROVE  cache'[SiteOf[f]] >= f
        BY <1>1 DEF ReloadApplied, IsReload
      <3>1. cache[SiteOf[f]] >= f  BY DEF ReloadInv, ReloadApplied, IsReload
      <3> QED BY <2>2, <3>1 DEF NotCached, Entries
    <2> QED BY <1>1, <2>3, <2>4, ReloadKept DEF ReloadInv
  <1>5. ASSUME NEW e \in Entries, DispatchError(e) PROVE ReloadInv'
    <2>1. job'.how # "control"  BY <1>5 DEF DispatchError, Idle
    <2>2. ReloadApplied'  BY <1>1, <1>5, LoadKeeps DEF DispatchError
    <2> QED BY <1>1, <2>1, <2>2, ReloadKept DEF ReloadInv, ControlInHand
  <1>6. ASSUME NEW e \in Entries, NEW route \in Routes, NEW refused \in BOOLEAN,
               Dispatch(e, route, refused)
        PROVE  ReloadInv'
    <2>1. job'.how # "control"  BY <1>6 DEF Dispatch, Idle
    <2>2. ReloadApplied'  BY <1>1, <1>6, LoadKeeps DEF Dispatch
    <2> QED BY <1>1, <2>1, <2>2, ReloadKept DEF ReloadInv, ControlInHand
  <1> QED BY <1>2, <1>3, <1>4, <1>5, <1>6 DEF Guards, HoldInBackoff, HoldRateLimited, memVars

LEMMA ReloadRetries == TypeInv /\ PendingInv /\ ReloadInv /\ Retries => ReloadInv'
  <1> SUFFICES ASSUME TypeInv, PendingInv, ReloadInv, Retries PROVE ReloadInv'
    OBVIOUS
  <1>1. UNCHANGED <<added, cfg, how>>
    BY DEF Retries, RetryRateLimited, RetryTrimmed, RetryFetchFails, RetryError, RetryDispatch,
           streamVars, storeVars, historyVars
  <1>2. CASE UNCHANGED <<cache, job>>  BY <1>1, <1>2, ReloadKept DEF ReloadInv
  <1>3. ASSUME NEW r \in due, job'.how # "control",
               LoadSettings(SiteOf[r.entry]) \/ UNCHANGED cache
        PROVE  ReloadInv'
    <2>1. SiteOf[r.entry] \in Sites  BY DueEntry
    <2>2. ReloadApplied'  BY <1>1, <1>3, <2>1, LoadKeeps
    <2> QED BY <1>1, <1>3, <2>2, ReloadKept DEF ReloadInv, ControlInHand
  <1>4. UNCHANGED <<cache, job>> \/ \E r \in due :
          job'.how # "control" /\ (LoadSettings(SiteOf[r.entry]) \/ UNCHANGED cache)
    BY DEF Retries, RetryRateLimited, RetryTrimmed, RetryFetchFails, RetryError, RetryDispatch,
           RetryJob, Idle, memVars
  <1> QED BY <1>2, <1>3, <1>4

LEMMA ReloadSteps == TypeInv /\ ReloadInv /\ Steps => ReloadInv'
  <1> SUFFICES ASSUME TypeInv, ReloadInv, Steps PROVE ReloadInv'
    OBVIOUS
  <1>0. /\ job \in Job /\ job.e \in Entries /\ job.stage # "idle"
    BY InHand DEF Steps, Send, SendSkipped, SendFails, SendAnswerLost, SendsDone, Archive,
                  ArchiveFails, Ack, Settle, SettleFails, MarkSent
  <1>1. UNCHANGED <<added, cfg, cache>>
    BY DEF Steps, Send, SendSkipped, SendFails, SendAnswerLost, SendsDone, Archive,
           ArchiveFails, Ack, Settle, SettleFails, MarkSent, streamVars, storeVars, memVars
  <1>2. ControlInHand'
    <2>1. CASE job' = Idle  BY <2>1, ReloadKept
    <2>2. CASE job.how = "control"
      <3>1. Ack  BY <2>2 DEF ReloadInv, ControlInHand, Steps, Send, SendSkipped, SendFails,
              SendAnswerLost, SendsDone, Archive, ArchiveFails, Settle, SettleFails, MarkSent
      <3>2. After(job) = "none"  BY <2>2 DEF After
      <3> QED BY <2>1, <3>1, <3>2 DEF Ack
    <2>3. job'.how \in {job.how, "mixed"} \/ job' = Idle
      BY <1>0 DEF Job, Steps, Send, SendSkipped, SendFails, SendAnswerLost, SendsDone, Archive,
             ArchiveFails, Ack, Settle, SettleFails, MarkSent, SettleNext
    <2> QED BY <2>1, <2>2, <2>3 DEF ControlInHand
  <1>3. ReloadApplied'
    <2>1. CASE UNCHANGED how  BY <1>1, <2>1, ReloadKept
    <2>2. CASE Ack /\ how' = [how EXCEPT ![job.e] = SettledAs(job)]
      <3>0. HowOK  BY DEF TypeInv, TypeOK
      <3> SUFFICES ASSUME NEW e \in Entries, how'[e] = "control", IsReload(e)
                   PROVE  cache[SiteOf[e]] >= e
        BY <1>1 DEF ReloadApplied, IsReload
      <3>1. CASE e = job.e
        <4>1. SettledAs(job) = "control"  BY <2>2, <3>0, <3>1 DEF HowOK
        <4>2. job.how = "control"  BY <4>1 DEF SettledAs
        <4> QED BY <3>1, <4>2 DEF ReloadInv, ControlInHand
      <3>2. CASE e # job.e
        BY <2>2, <3>0, <3>2 DEF HowOK, ReloadInv, ReloadApplied, IsReload
      <3> QED BY <3>1, <3>2
    <2> QED BY <2>1, <2>2 DEF Steps, Send, SendSkipped, SendFails, SendAnswerLost, SendsDone,
            Archive, ArchiveFails, Ack, Settle, SettleFails, MarkSent, historyVars
  <1> QED BY <1>1, <1>2, <1>3, ReloadKept DEF ReloadInv

LEMMA ReloadNext == TypeInv /\ PendingInv /\ ReloadInv /\ [Next]_vars => ReloadInv'
  <1> SUFFICES ASSUME TypeInv, PendingInv, ReloadInv, [Next]_vars PROVE ReloadInv'
    OBVIOUS
  <1>1. CASE UNCHANGED vars
    BY <1>1, ReloadKept DEF vars, ReloadInv, streamVars, storeVars, memVars, historyVars
  <1> QED BY <1>1, ReloadEnvironment, ReloadLoop, ReloadGuards, ReloadSteps, ReloadRetries
          DEF Next, Daemon

(* An acknowledged settings.reload has taken effect: from then on the      *)
(* daemon holds no settings older than the save it announced.              *)
THEOREM ReloadTakesEffect == Spec => []ReloadApplied
  <1>1. ReloadInv => ReloadApplied  BY DEF ReloadInv
  <1>2. Init => TypeInv /\ FenceInv /\ PendingInv /\ ReloadInv
    BY TypeInit, FenceInit, PendingInit, ReloadInit
  <1>3. TypeInv /\ FenceInv /\ PendingInv /\ ReloadInv /\ [Next]_vars
          => (TypeInv /\ FenceInv /\ PendingInv /\ ReloadInv)'
    BY TypeNext, FenceNext, PendingNext, ReloadNext
  <1> QED BY <1>1, <1>2, <1>3, PTL DEF Spec
-----------------------------------------------------------------------------
(* What a step does to the job in hand, group by group.                    *)

LEMMA GuardSteps ==
  ASSUME TypeInv, Guards
  PROVE  /\ UNCHANGED <<retry, row, due, phase, pel, sends, how, gaveUp>>
         /\ phase \in {"main", "claim"} /\ job.stage = "idle"
         /\ \E e \in batch :
              /\ batch' = batch \ {e} /\ e \in Entries
              /\ \/ job' = job /\ (NoFault \/ Undelivered(e))
                 \/ job' = Hand("ack", phase, e, {}, {}, {}, "dup") /\ row[IdOf[e]] = "sent" /\ NoFault
                 \/ /\ Undelivered(e)
                    /\ \/ job' = Hand("archive", phase, e, {}, {}, {}, "spam")
                       \/ phase = "main" /\ job' = Hand("ack", "main", e, {}, {}, {}, "control")
                       \/ job' = Hand("ack", phase, e, {}, {}, {}, "error")
                       \/ \E todo \in SUBSET Channels, skip \in {{}, {All}} :
                            /\ job' = Hand("send", phase, e, todo, {}, skip,
                                           IF phase = "main" THEN "archived" ELSE "claimed")
                            /\ skip = {} => todo \in Routes
  <1>0. LoopOK  BY DEF TypeInv, TypeOK
  <1>1. UNCHANGED <<retry, row, due, phase, pel, sends, how, gaveUp>>
    BY DEF Guards, HoldInBackoff, SkipDuplicate, ArchiveOnly, HandleControl, HoldRateLimited,
           DispatchError, Dispatch, storeVars, streamVars, historyVars
  <1>2. PICK e \in Entries :
          \/ HoldInBackoff(e) \/ SkipDuplicate(e) \/ ArchiveOnly(e) \/ HandleControl(e)
          \/ HoldRateLimited(e) \/ DispatchError(e)
          \/ \E route \in Routes, refused \in BOOLEAN : Dispatch(e, route, refused)
    BY DEF Guards
  <1>3. Taking(e)
    BY <1>2 DEF HoldInBackoff, SkipDuplicate, ArchiveOnly, HandleControl, HoldRateLimited,
                DispatchError, Dispatch, Dispatchable
  <1>4. e \in batch /\ batch' = batch \ {e} /\ phase \in {"main", "claim"} /\ job.stage = "idle"
    BY <1>3 DEF Taking
  <1>5. CASE HoldInBackoff(e) \/ HoldRateLimited(e)
    BY <1>1, <1>4, <1>5 DEF HoldInBackoff, HoldRateLimited, Dispatchable, NoFault
  <1>6. CASE SkipDuplicate(e)
    BY <1>1, <1>4, <1>6 DEF SkipDuplicate, Idle, Hand, NoFault
  <1>7. CASE ArchiveOnly(e)
    <2>1. ~Exhausted(e)
      <3>1. retry[IdOf[e]].attempts \in Nat /\ IdOf[e] \in Ids
        BY DEF TypeInv, TypeOK, RetryOK, RetryState
      <3> QED BY <3>1 DEF Exhausted, TypeInv, RetryBounded
    <2> QED BY <1>1, <1>4, <1>7, <2>1 DEF ArchiveOnly, Idle, Hand
  <1>8. CASE HandleControl(e)
    BY <1>1, <1>4, <1>8 DEF HandleControl, Control, Idle, Hand
  <1>9. CASE DispatchError(e)
    BY <1>1, <1>4, <1>9 DEF DispatchError, Dispatchable, Idle, Hand
  <1>10. ASSUME NEW route \in Routes, NEW refused \in BOOLEAN, Dispatch(e, route, refused)
         PROVE  /\ Undelivered(e)
                /\ \E todo \in SUBSET Channels, skip \in {{}, {All}} :
                     /\ job' = Hand("send", phase, e, todo, {}, skip,
                                    IF phase = "main" THEN "archived" ELSE "claimed")
                     /\ skip = {} => todo \in Routes
    <2>1. job' = Hand("send", phase, e, IF refused THEN {} ELSE route, {},
                      IF refused THEN {All} ELSE {}, IF phase = "main" THEN "archived" ELSE "claimed")
      BY <1>10 DEF Dispatch, Idle, Hand
    <2>2. (IF refused THEN {} ELSE route) \in SUBSET Channels  OBVIOUS
    <2>3. CASE refused   BY <1>10, <2>1, <2>2, <2>3 DEF Dispatch, Dispatchable
    <2>4. CASE ~refused  BY <1>10, <2>1, <2>2, <2>4 DEF Dispatch, Dispatchable
    <2> QED BY <2>3, <2>4
  <1> QED BY <1>1, <1>2, <1>4, <1>5, <1>6, <1>7, <1>8, <1>9, <1>10

LEMMA RetrySteps ==
  ASSUME TypeInv, Retries
  PROVE  /\ UNCHANGED <<retry, row, batch, phase, pel, sends, how, gaveUp>>
         /\ phase = "retry" /\ job.stage = "idle"
         /\ \E r \in due :
              /\ due' = due \ {r} /\ r \in DueState
              /\ \/ job' = job /\ (NoFault \/ Fault("valkey"))
                 \/ /\ NoFault
                    /\ \/ job' = Hand("settle", "retry", r.entry, {}, {}, {}, "trimmed")
                       \/ job' = Hand("settle", "retry", r.entry, {}, r.chans, {}, "error")
                       \/ \E todo \in SUBSET Channels, skip \in {{}, {All}} :
                            /\ job' = Hand("send", "retry", r.entry, todo, {}, skip, "none")
                            /\ todo \subseteq r.chans \/ r.chans = {}
  <1>0. LoopOK  BY DEF TypeInv, TypeOK
  <1>1. UNCHANGED <<retry, row, batch, phase, pel, sends, how, gaveUp>>
    BY DEF Retries, RetryRateLimited, RetryTrimmed, RetryFetchFails, RetryError, RetryDispatch,
           storeVars, streamVars, historyVars
  <1>2. PICK r \in due :
          \/ RetryRateLimited(r) \/ RetryTrimmed(r) \/ RetryFetchFails(r) \/ RetryError(r)
          \/ \E route \in Routes, refused \in BOOLEAN : RetryDispatch(r, route, refused)
    BY DEF Retries
  <1>3. TakingRetry(r)
    BY <1>2 DEF RetryRateLimited, RetryTrimmed, RetryFetchFails, RetryError, RetryDispatch,
                RetryAllowed
  <1>4. due' = due \ {r} /\ r \in DueState /\ phase = "retry" /\ job.stage = "idle"
    BY <1>0, <1>3 DEF TakingRetry, LoopOK
  <1>5. CASE RetryRateLimited(r) \/ RetryFetchFails(r)
    BY <1>1, <1>4, <1>5 DEF RetryRateLimited, RetryFetchFails, NoFault
  <1>6. CASE RetryTrimmed(r)
    BY <1>1, <1>4, <1>6 DEF RetryTrimmed, RetryJob, Idle, Hand, NoFault
  <1>7. CASE RetryError(r)
    BY <1>1, <1>4, <1>7 DEF RetryError, RetryJob, Idle, Hand, NoFault
  <1>8. ASSUME NEW route \in Routes, NEW refused \in BOOLEAN, RetryDispatch(r, route, refused)
        PROVE  /\ NoFault
               /\ \E todo \in SUBSET Channels, skip \in {{}, {All}} :
                    /\ job' = Hand("send", "retry", r.entry, todo, {}, skip, "none")
                    /\ todo \subseteq r.chans \/ r.chans = {}
    <2> DEFINE todo == IF refused THEN {} ELSE IF r.chans = {} THEN route ELSE route \cap r.chans
               skip == IF refused THEN {All} ELSE {}
    <2>1. job' = Hand("send", "retry", r.entry, todo, {}, skip, "none")
      BY <1>8 DEF RetryDispatch, RetryJob, Idle, Hand
    <2>2. todo \in SUBSET Channels /\ skip \in {{}, {All}} /\ (todo \subseteq r.chans \/ r.chans = {})
      OBVIOUS
    <2> HIDE DEF todo, skip
    <2> QED BY <1>8, <2>1, <2>2 DEF RetryDispatch, NoFault
  <1> QED BY <1>1, <1>2, <1>4, <1>5, <1>6, <1>7, <1>8

(* The loop, the lists it works through and the job in hand go together:   *)
(* a job is on the path of its phase, and retries are due in the last one. *)
PhaseInv ==
  /\ job.stage # "idle" => phase = job.path
  /\ batch # {} => phase \in {"main", "claim"}
  /\ due # {} => phase = "retry"

(* The jobs there are: what a cause says of the path, the channels and the *)
(* stage.                                                                  *)
JobShape ==
  /\ job.stage = "mark" => job.path = "retry"
  /\ job.stage \in {"archive", "ack"} => job.path # "retry"
  /\ job.stage = "archive" => job.how \in {"archived", "mixed", "claimed", "spam"}
  /\ job.stage = "send" => job.how \notin {"error", "mixed"} /\ job.todo \cap job.fail = {}
  /\ job.stage \notin {"idle", "send"} => job.todo = {}
  /\ job.path = "retry" => job.how \in {"none", "trimmed", "error"}
  /\ job.stage # "idle" /\ job.path = "main" =>
       job.how \in {"archived", "mixed", "spam", "dup", "control", "error"}
  /\ job.stage # "idle" /\ job.path = "claim" => job.how \in {"claimed", "spam", "dup", "error"}
  /\ job.stage \in {"archive", "ack", "settle"} /\ job.path = "main" =>
       (job.how = "mixed" <=> job.skip # {} /\ job.fail # {})
  /\ job.how \in {"spam", "dup", "control", "trimmed"} =>
       job.stage # "send" /\ job.fail = {} /\ job.ok = {} /\ job.skip = {}
  /\ job.stage = "settle" => After(job) # "none"

(* A key and a due retry point to an entry of their own message.           *)
KeyInv ==
  /\ \A id \in Ids : retry[id].attempts > 0 => IdOf[retry[id].entry] = id
  /\ \A r \in due : IdOf[r.entry] = r.id

JobInv == PhaseInv /\ JobShape /\ KeyInv

LEMMA JobInit == Init => JobInv
  BY DEF Init, JobInv, PhaseInv, JobShape, KeyInv, Idle, NoRetry

LEMMA IdleShape == job' = Idle => JobShape' /\ (PhaseInv => (UNCHANGED loopVars => PhaseInv'))
  BY DEF JobShape, PhaseInv, Idle, loopVars

LEMMA JobKept ==
  ASSUME JobInv
  PROVE  /\ UNCHANGED job => JobShape'
         /\ UNCHANGED <<retry, due>> => KeyInv'
         /\ UNCHANGED <<job, loopVars>> => PhaseInv'
  BY DEF JobInv, PhaseInv, JobShape, KeyInv, loopVars, After, Sent

(* RecordFailure drops the key, or writes one for the same message.        *)
LEMMA RecordKey ==
  ASSUME TypeInv, NEW id \in Ids, NEW e \in Entries, NEW chans \in SUBSET Channels,
         RecordFailure(id, e, chans)
  PROVE  /\ \A i \in Ids : i # id => retry'[i] = retry[i]
         /\ \/ retry'[id] = NoRetry /\ gaveUp' = gaveUp \cup {id}
            \/ /\ retry'[id].attempts > 0 /\ retry'[id].chans = chans /\ gaveUp' = gaveUp \ {id}
               /\ retry'[id].entry = IF retry[id].attempts = 0 THEN e ELSE retry[id].entry
  <1>0. retry \in [Ids -> RetryState] /\ retry[id].attempts \in Nat
    BY DEF TypeInv, TypeOK, RetryOK, RetryState
  <1>1. CASE retry[id].attempts + 1 >= MaxAttempts
    BY <1>0, <1>1 DEF RecordFailure
  <1>2. CASE ~(retry[id].attempts + 1 >= MaxAttempts)
    <2>1. PICK n, pe : /\ n = retry[id].attempts + 1
                       /\ pe = IF retry[id].attempts = 0 THEN e ELSE retry[id].entry
      OBVIOUS
    <2>2. retry' = [retry EXCEPT ![id] = [attempts |-> n, entry |-> pe, chans |-> chans]]
          /\ gaveUp' = gaveUp \ {id}
      BY <1>2, <2>1 DEF RecordFailure
    <2>3. n > 0  BY <1>0, <2>1
    <2> QED BY <1>0, <2>1, <2>2, <2>3
  <1> QED BY <1>1, <1>2

LEMMA ClearKey ==
  ASSUME TypeInv, NEW id \in Ids, ClearRetry(id)
  PROVE  retry'[id] = NoRetry /\ \A i \in Ids : i # id => retry'[i] = retry[i]
  BY DEF TypeInv, TypeOK, RetryOK, ClearRetry

(* What Settle does to the keys.                                           *)
LEMMA SettleKeys ==
  ASSUME TypeInv, Settle
  PROVE  /\ \A i \in Ids : i # IdOf[job.e] => retry'[i] = retry[i]
         /\ \/ /\ After(job) = "record"
               /\ \/ retry'[IdOf[job.e]] = NoRetry /\ gaveUp' = gaveUp \cup {IdOf[job.e]}
                  \/ /\ retry'[IdOf[job.e]].attempts > 0 /\ retry'[IdOf[job.e]].chans = job.fail
                     /\ gaveUp' = gaveUp \ {IdOf[job.e]}
                     /\ retry'[IdOf[job.e]].entry =
                          IF retry[IdOf[job.e]].attempts = 0 THEN job.e ELSE retry[IdOf[job.e]].entry
            \/ After(job) = "drop" /\ retry'[IdOf[job.e]] = NoRetry
               /\ gaveUp' = gaveUp \cup {IdOf[job.e]}
            \/ After(job) \notin {"record", "drop"} /\ retry'[IdOf[job.e]] = NoRetry
               /\ gaveUp' = gaveUp
  <1>0. job.e \in Entries /\ IdOf[job.e] \in Ids /\ job.fail \in SUBSET Channels
    BY InHand DEF Settle, Job
  <1>1. CASE After(job) = "record"  BY <1>0, <1>1, RecordKey DEF Settle
  <1>2. CASE After(job) = "drop"    BY <1>0, <1>2, ClearKey DEF Settle
  <1>3. CASE After(job) \notin {"record", "drop"}  BY <1>0, <1>3, ClearKey DEF Settle
  <1> QED BY <1>1, <1>2, <1>3

LEMMA JobEnvironment == TypeInv /\ JobInv /\ Environment => JobInv'
  <1> SUFFICES ASSUME TypeInv, JobInv, Environment PROVE JobInv'
    OBVIOUS
  <1>1. CASE UNCHANGED <<job, loopVars, retry>>
    BY <1>1, JobKept DEF JobInv, loopVars
  <1>2. ASSUME NEW id \in Ids, RetryKeyExpires(id) PROVE JobInv'
    <2>1. KeyInv'
      BY <1>2, ClearKey DEF RetryKeyExpires, ClearRetry, JobInv, KeyInv, NoRetry, loopVars
    <2> QED BY <1>2, <2>1, JobKept DEF RetryKeyExpires, JobInv
  <1>3. CASE Crash
    <2>1. KeyInv' /\ PhaseInv'  BY <1>3 DEF Crash, JobInv, KeyInv, PhaseInv, Idle, storeVars
    <2> QED BY <1>3, <2>1, IdleShape DEF Crash, JobInv
  <1> QED BY <1>1, <1>2, <1>3
          DEF Environment, SaveSettings, Append, Trim, BackoffEnds, WindowSlides, storeVars

LEMMA JobLoop == TypeInv /\ JobInv /\ Loop => JobInv'
  <1> SUFFICES ASSUME TypeInv, JobInv, Loop PROVE JobInv'
    OBVIOUS
  <1>0. job \in Job  BY DEF TypeInv, TypeOK, JobOK
  <1>1. UNCHANGED <<job, retry>>
    BY DEF Loop, Restart, Read, Claim, Sweep, EndLoop, storeVars
  <1>2. PhaseInv'
    <2>1. phase \in {"down", "read"} => job.stage = "idle" /\ batch = {} /\ due = {}
      BY <1>0 DEF JobInv, PhaseInv, Job
    <2> QED BY <1>1, <2>1
            DEF Loop, Restart, Read, Claim, Sweep, EndLoop, Free, PhaseInv, JobInv
  <1>3. KeyInv'
    <2>1. CASE UNCHANGED due  BY <1>1, <2>1, JobKept
    <2>2. ASSUME NEW S \in SUBSET Ids, NEW twice \in SUBSET S, Sweep(S, twice) PROVE KeyInv'
      <3>1. ASSUME NEW r \in due' PROVE IdOf[r.entry] = r.id
        <4>1. PICK id \in S : r.id = id /\ r.entry = retry[id].entry  BY <2>2 DEF Sweep
        <4> QED BY <2>2, <4>1 DEF Sweep, JobInv, KeyInv
      <3> QED BY <1>1, <3>1 DEF JobInv, KeyInv
    <2> QED BY <2>1, <2>2 DEF Loop, Restart, Read, Claim, EndLoop
  <1> QED BY <1>1, <1>2, <1>3, JobKept DEF JobInv

LEMMA JobGuards == TypeInv /\ JobInv /\ Guards => JobInv'
  <1> SUFFICES ASSUME TypeInv, JobInv, Guards PROVE JobInv'
    OBVIOUS
  <1>1. KeyInv' /\ UNCHANGED <<due, phase>> /\ due = {} /\ phase \in {"main", "claim"}
    BY GuardSteps, JobKept DEF JobInv, PhaseInv
  <1>2. JobShape' /\ (job' # job => job'.path = phase)
    <2>1. CASE job' = job  BY <2>1, JobKept
    <2>2. CASE \E e \in Entries : job' = Hand("ack", phase, e, {}, {}, {}, "dup")
      BY <1>1, <2>2 DEF Hand, JobShape
    <2>3. CASE \E e \in Entries : job' = Hand("archive", phase, e, {}, {}, {}, "spam")
      BY <1>1, <2>3 DEF Hand, JobShape
    <2>4. CASE \E e \in Entries : phase = "main" /\ job' = Hand("ack", "main", e, {}, {}, {}, "control")
      BY <1>1, <2>4 DEF Hand, JobShape
    <2>5. CASE \E e \in Entries : job' = Hand("ack", phase, e, {}, {}, {}, "error")
      BY <1>1, <2>5 DEF Hand, JobShape
    <2>6. CASE \E e \in Entries, todo \in SUBSET Channels, skip \in {{}, {All}} :
                 job' = Hand("send", phase, e, todo, {}, skip,
                             IF phase = "main" THEN "archived" ELSE "claimed")
      BY <1>1, <2>6 DEF Hand, JobShape
    <2> QED BY <2>1, <2>2, <2>3, <2>4, <2>5, <2>6, GuardSteps
  <1>3. PhaseInv'
    BY <1>1, <1>2, GuardSteps DEF PhaseInv, JobInv
  <1> QED BY <1>1, <1>2, <1>3 DEF JobInv

LEMMA JobRetries == TypeInv /\ JobInv /\ Retries => JobInv'
  <1> SUFFICES ASSUME TypeInv, JobInv, Retries PROVE JobInv'
    OBVIOUS
  <1>1. UNCHANGED <<batch, phase, retry>> /\ due' \subseteq due /\ phase = "retry"
    BY RetrySteps
  <1>2. JobShape' /\ (job' # job => job'.path = phase)
    <2>1. CASE job' = job  BY <2>1, JobKept
    <2>2. CASE \E e : job' = Hand("settle", "retry", e, {}, {}, {}, "trimmed")
      BY <1>1, <2>2 DEF Hand, JobShape, After
    <2>3. CASE \E e, fail : job' = Hand("settle", "retry", e, {}, fail, {}, "error")
      BY <1>1, <2>3 DEF Hand, JobShape, After
    <2>4. CASE \E e, todo, skip : job' = Hand("send", "retry", e, todo, {}, skip, "none")
      BY <1>1, <2>4 DEF Hand, JobShape
    <2> QED BY <2>1, <2>2, <2>3, <2>4, RetrySteps
  <1>3. PhaseInv' /\ KeyInv'
    BY <1>1, <1>2 DEF PhaseInv, KeyInv, JobInv
  <1> QED BY <1>2, <1>3 DEF JobInv

(* In every step of a job the lists stay, and so does the entry.           *)
LEMMA StepFrame ==
  ASSUME TypeInv, Steps
  PROVE  /\ UNCHANGED loopVars /\ job.stage # "idle" /\ job \in Job
         /\ job.e \in Entries /\ IdOf[job.e] \in Ids
         /\ job' = Idle \/ (job'.e = job.e /\ job'.path = job.path /\ job' \in Job)
  <1>0. /\ UNCHANGED loopVars /\ job.stage # "idle"
    BY DEF Steps, Send, SendSkipped, SendFails, SendAnswerLost, SendsDone, Archive,
           ArchiveFails, Ack, Settle, SettleFails, MarkSent
  <1>1. job \in Job /\ job.e \in Entries /\ IdOf[job.e] \in Ids  BY <1>0, InHand
  <1>2. job' = Idle \/ (job'.e = job.e /\ job'.path = job.path)
    BY <1>1, ZenonT(40)
            DEF Job, Steps, Send, SendSkipped, SendFails, SendAnswerLost, SendsDone, Archive,
                ArchiveFails, Ack, Settle, SettleFails, MarkSent, SettleNext
  <1>3. job' \in Job  BY TypeNext DEF TypeInv, TypeOK, JobOK, Next, Daemon
  <1> QED BY <1>0, <1>1, <1>2, <1>3

LEMMA JobSteps == TypeInv /\ JobInv /\ Steps => JobInv'
  <1> SUFFICES ASSUME TypeInv, JobInv, Steps PROVE JobInv'
    OBVIOUS
  <1>0. /\ UNCHANGED loopVars /\ job.stage # "idle" /\ job \in Job /\ job.e \in Entries
        /\ IdOf[job.e] \in Ids /\ JobShape
    BY StepFrame DEF JobInv
  <1>1. PhaseInv'
    <2>1. CASE job' = Idle  BY <1>0, <2>1, IdleShape DEF JobInv
    <2>2. CASE job'.path = job.path  BY <1>0, <2>2 DEF JobInv, PhaseInv, loopVars
    <2> QED BY <2>1, <2>2, StepFrame
  <1>2. KeyInv'
    <2>1. CASE UNCHANGED retry  BY <1>0, <2>1, JobKept DEF loopVars
    <2>2. CASE Settle
      <3>1. ASSUME NEW i \in Ids, retry'[i].attempts > 0 PROVE IdOf[retry'[i].entry] = i
        <4>1. retry[i].attempts \in Nat  BY DEF TypeInv, TypeOK, RetryOK, RetryState
        <4>2. retry[i].attempts > 0 => IdOf[retry[i].entry] = i  BY DEF JobInv, KeyInv
        <4>3. CASE i # IdOf[job.e]  BY <2>2, <3>1, <4>2, <4>3, SettleKeys
        <4>4. CASE i = IdOf[job.e]
          <5>1. retry'[i].entry = IF retry[i].attempts = 0 THEN job.e ELSE retry[i].entry
            BY <2>2, <3>1, <4>4, SettleKeys DEF NoRetry
          <5> QED BY <4>1, <4>2, <4>4, <5>1
        <4> QED BY <4>3, <4>4
      <3>2. UNCHANGED due  BY <1>0 DEF loopVars
      <3> QED BY <3>1, <3>2 DEF JobInv, KeyInv
    <2> QED BY <2>1, <2>2 DEF Steps, Send, SendSkipped, SendFails, SendAnswerLost, SendsDone,
                              Archive, ArchiveFails, Ack, SettleFails, MarkSent, storeVars
  <1>3. JobShape'
    <2>1. CASE job' = Idle  BY <2>1, IdleShape
    <2>2. ASSUME NEW c \in Channels, Send(c) PROVE JobShape'
      BY <1>0, <2>2 DEF Send, JobShape, Job
    <2>3. ASSUME NEW c \in Channels, SendSkipped(c) PROVE JobShape'
      BY <1>0, <2>3 DEF SendSkipped, JobShape, Job
    <2>4. ASSUME NEW c \in Channels, SendFails(c) \/ SendAnswerLost(c) PROVE JobShape'
      BY <1>0, <2>4 DEF SendFails, SendAnswerLost, JobShape, Job
    <2>5. CASE SendsDone
      <3>1. PICK stage, cause :
              /\ job' = [job EXCEPT !.stage = stage, !.how = cause]
              /\ stage = IF job.path = "retry" THEN "settle" ELSE "archive"
              /\ cause = IF job.path = "main" /\ job.skip # {} /\ job.fail # {} THEN "mixed"
                         ELSE job.how
        BY <2>5 DEF SendsDone
      <3>2. /\ job'.stage = stage /\ job'.how = cause /\ job'.path = job.path /\ job'.todo = {}
            /\ job'.ok = job.ok /\ job'.fail = job.fail /\ job'.skip = job.skip
            /\ job.stage = "send" /\ job.path \in {"main", "claim", "retry"}
        BY <1>0, <2>5, <3>1 DEF SendsDone, Job
      <3>3. CASE job.path = "retry"
        BY <1>0, <3>1, <3>2, <3>3 DEF JobShape, After
      <3>4. CASE job.path # "retry"
        BY <1>0, <3>1, <3>2, <3>4 DEF JobShape
      <3> QED BY <3>3, <3>4
    <2>6. CASE job' = [job EXCEPT !.stage = "ack"] /\ job.stage = "archive"
      BY <1>0, <2>6 DEF JobShape, Job
    <2>7. CASE Ack
      <3>1. CASE job' = [job EXCEPT !.stage = "settle"] /\ After(job) # "none"
        BY <1>0, <2>7, <3>1 DEF Ack, JobShape, Job, After, Sent
      <3> QED BY <2>1, <2>7, <3>1 DEF Ack
    <2>8. CASE job' = [job EXCEPT !.stage = "mark"] /\ job.path = "retry" /\ job.stage = "settle"
      BY <1>0, <2>8 DEF JobShape, Job
    <2> QED BY <2>1, <2>2, <2>3, <2>4, <2>5, <2>6, <2>7, <2>8
            DEF Steps, Archive, ArchiveFails, Settle, SettleFails, SettleNext, MarkSent
  <1> QED BY <1>1, <1>2, <1>3 DEF JobInv

LEMMA JobNext == TypeInv /\ JobInv /\ [Next]_vars => JobInv'
  <1> SUFFICES ASSUME TypeInv, JobInv, [Next]_vars PROVE JobInv'
    OBVIOUS
  <1>1. CASE UNCHANGED vars  BY <1>1, JobKept DEF JobInv, vars, loopVars, storeVars
  <1> QED BY <1>1, JobEnvironment, JobLoop, JobGuards, JobRetries, JobSteps DEF Next, Daemon

-----------------------------------------------------------------------------
(* What failed is not forgotten. As long as the daemon does not crash and  *)
(* no store fails, a row that says failed has its key, or its retry was    *)
(* given up, or an entry was settled without one; but for the message in   *)
(* hand, whose key is written last. That a key is not cleared too much,    *)
(* rests on what was archived before.                                      *)
Calm == seen \cap {"crash", "valkey", "sqlite", "late"} = {}

Excused(id) == \E e \in EntriesOf(id) : how[e] \in {"mixed", "claimed"}

Remembered(id) ==
  row[id] = "failed" /\ ~Excused(id) => retry[id].attempts > 0 \/ id \in gaveUp

Answering ==
  \/ job.stage = "ack" /\ (After(job) = "record" \/ job.how \in {"mixed", "claimed"})
  \/ job.stage = "settle" /\ After(job) = "record"
  \/ job.stage = "mark"

ClearedRightly ==
  job.stage \in {"ack", "settle"} /\ job.path # "retry" /\ After(job) = "clear" =>
    \/ row[IdOf[job.e]] # "failed" \/ Excused(IdOf[job.e])
    \/ job.stage = "ack" /\ job.how \in {"mixed", "claimed"}

ScheduleInv ==
  Calm => /\ phase # "down" /\ ClearedRightly
          /\ \A id \in Ids : Remembered(id) \/ (Answering /\ IdOf[job.e] = id)

LEMMA ScheduleInit == Init => ScheduleInv
  BY DEF Init, ScheduleInv, ClearedRightly, Remembered, Idle

(* What has failed is not unseen.                                          *)
LEMMA SeenGrows ==
  ASSUME [Next]_vars
  PROVE  seen \subseteq seen'
  <1>1. Environment => seen \subseteq seen'
    BY DEF Environment, SaveSettings, Append, Trim, BackoffEnds, WindowSlides, RetryKeyExpires,
           Crash, Fault, NoFault, faultVars
  <1>2. Loop => seen \subseteq seen'
    BY DEF Loop, Restart, Read, Lost, Claim, Sweep, EndLoop, Fault, NoFault, faultVars
  <1>3. Guards => seen \subseteq seen'
    BY DEF Guards, HoldInBackoff, SkipDuplicate, ArchiveOnly, HandleControl, HoldRateLimited,
           DispatchError, Dispatch, Dispatchable, Undelivered, Fault, NoFault, faultVars
  <1>4. Steps => seen \subseteq seen'
    BY DEF Steps, Send, SendSkipped, SendFails, SendAnswerLost, SendsDone, Archive, ArchiveFails,
           Ack, Settle, SettleFails, MarkSent, Fault, NoFault, faultVars
  <1>5. Retries => seen \subseteq seen'
    BY DEF Retries, RetryRateLimited, RetryTrimmed, RetryFetchFails, RetryError, RetryDispatch,
           Fault, faultVars
  <1> QED BY <1>1, <1>2, <1>3, <1>4, <1>5 DEF Next, Daemon, vars, faultVars

(* An entry settled without a key stays so: it is no longer pending.       *)
LEMMA ExcusedStays ==
  ASSUME TypeInv, JobInv, PendingInv, [Next]_vars, NEW id \in Ids, Excused(id)
  PROVE  Excused(id)'
  <1>0. how \in [Entries -> Settled \cup {"none"}]  BY DEF TypeInv, TypeOK, HowOK
  <1>1. PICK e \in EntriesOf(id) : how[e] \in {"mixed", "claimed"} /\ e \in Entries
    BY DEF Excused, EntriesOf
  <1>2. e \notin pel  BY <1>1 DEF PendingInv, PelOK
  <1>3. how'[e] = how[e]
    <2>1. CASE UNCHANGED how  BY <2>1
    <2>2. ASSUME NEW S \in SUBSET pel, Claim(S) PROVE how'[e] = how[e]
      BY <1>1, <1>2, <2>2 DEF Claim
    <2>3. CASE Ack
      <3>1. job.e \in pel  BY <2>3 DEF Ack, JobInv, JobShape, PendingInv, HoldsPending
      <3> QED BY <1>0, <1>1, <1>2, <2>3, <3>1 DEF Ack
    <2>4. Environment => UNCHANGED how
      BY DEF Environment, SaveSettings, Append, Trim, BackoffEnds, WindowSlides, RetryKeyExpires,
             Crash, historyVars
    <2>5. Loop => UNCHANGED how \/ \E S \in SUBSET pel : Claim(S)
      BY DEF Loop, Restart, Read, Sweep, EndLoop, historyVars
    <2>6. Steps => UNCHANGED how \/ Ack
      BY DEF Steps, Send, SendSkipped, SendFails, SendAnswerLost, SendsDone, Archive, ArchiveFails,
             Settle, SettleFails, MarkSent, historyVars
    <2> QED BY <2>1, <2>2, <2>3, <2>4, <2>5, <2>6, GuardSteps, RetrySteps
            DEF Next, Daemon, vars, historyVars
  <1> QED BY <1>1, <1>3 DEF Excused, EntriesOf

(* What is settled with nothing in hand, or before the answer is known.    *)
LEMMA ScheduleKept ==
  ASSUME TypeInv, JobInv, PendingInv, ScheduleInv, [Next]_vars, Calm', UNCHANGED <<retry, row, gaveUp>>
  PROVE  /\ \A id \in Ids : Remembered(id) => Remembered(id)'
         /\ UNCHANGED job => (phase' # "down" => ScheduleInv')
         /\ ~Answering /\ (job' = Idle \/ ~(job'.stage \in {"ack", "settle"}
                              /\ job'.path # "retry" /\ After(job') = "clear"))
              => (phase' # "down" => ScheduleInv')
  <1>0. Calm /\ ClearedRightly /\ \A id \in Ids : Remembered(id) \/ (Answering /\ IdOf[job.e] = id)
    BY SeenGrows DEF Calm, ScheduleInv
  <1>1. \A id \in Ids : Remembered(id) => Remembered(id)'
    BY ExcusedStays DEF Remembered
  <1>2. UNCHANGED job => (phase' # "down" => ScheduleInv')
    <2> SUFFICES ASSUME UNCHANGED job PROVE ClearedRightly' /\ Answering' = Answering
      BY <1>0, <1>1 DEF ScheduleInv
    <2>1. Answering' = Answering  BY DEF Answering, After, Sent
    <2>2. After(job)' = After(job)  OBVIOUS
    <2>3. job.stage # "idle" => IdOf[job.e] \in Ids  BY InHand
    <2>4. ClearedRightly'  BY <1>0, <2>2, <2>3, ExcusedStays DEF ClearedRightly
    <2> QED BY <2>1, <2>4
  <1>3. ASSUME ~Answering, phase' # "down",
               job' = Idle \/ ~(job'.stage \in {"ack", "settle"}
                                 /\ job'.path # "retry" /\ After(job') = "clear")
        PROVE  ScheduleInv'
    <2>1. ClearedRightly'  BY <1>3 DEF ClearedRightly, Idle
    <2> QED BY <1>0, <1>1, <1>3, <2>1 DEF ScheduleInv
  <1> QED BY <1>1, <1>2, <1>3

LEMMA ScheduleSteps ==
  TypeInv /\ JobInv /\ PendingInv /\ ScheduleInv /\ Steps => ScheduleInv'
  <1> SUFFICES ASSUME TypeInv, JobInv, PendingInv, ScheduleInv, Steps, Calm' PROVE ScheduleInv'
    BY DEF ScheduleInv
  <1>n. [Next]_vars  BY DEF Next, Daemon
  <1>0. /\ Calm /\ ClearedRightly /\ phase' # "down"
        /\ \A id \in Ids : Remembered(id) \/ (Answering /\ IdOf[job.e] = id)
        /\ ~Fault("sqlite") /\ ~Fault("valkey")
    BY <1>n, SeenGrows, StepFrame DEF Calm, ScheduleInv, loopVars, Fault
  <1>1. /\ job.stage # "idle" /\ job \in Job /\ job.e \in Entries /\ IdOf[job.e] \in Ids
        /\ JobShape /\ job.path \in {"main", "claim", "retry"}
        /\ row \in [Ids -> Statuses] /\ retry \in [Ids -> RetryState]
        /\ how \in [Entries -> Settled \cup {"none"}]
    BY StepFrame DEF JobInv, Job, TypeInv, TypeOK, RowOK, RetryOK, HowOK
  <1>2. ASSUME NEW c \in Channels, Send(c) \/ SendSkipped(c) \/ SendFails(c) \/ SendAnswerLost(c)
        PROVE  ScheduleInv'
    <2>1. UNCHANGED <<retry, row, gaveUp>> /\ job.stage = "send" /\ job'.stage = "send"
      BY <1>1, <1>2 DEF Send, SendSkipped, SendFails, SendAnswerLost, storeVars, historyVars, Job
    <2> QED BY <1>n, <1>0, <2>1, ScheduleKept DEF Answering
  <1>3. CASE SendsDone
    <2>1. UNCHANGED <<retry, row, gaveUp>> /\ job.stage = "send"
          /\ (job'.stage = "archive" \/ job'.path = "retry")
      BY <1>1, <1>3 DEF SendsDone, storeVars, historyVars, Job
    <2> QED BY <1>n, <1>0, <2>1, ScheduleKept DEF Answering
  <1>4. CASE Archive
    <2> DEFINE id == IdOf[job.e]
    <2>1. /\ row'[id] = Status(job) /\ \A i \in Ids : i # id => row'[i] = row[i]
          /\ UNCHANGED <<retry, gaveUp, how>> /\ job.stage = "archive" /\ job.path # "retry"
      BY <1>1, <1>4 DEF Archive, historyVars, JobShape
    <2>2. /\ job'.stage = "ack" /\ job'.e = job.e /\ job'.how = job.how /\ job'.path = job.path
          /\ After(job') = After(job)
      BY <1>1, <1>4 DEF Archive, Job, After, Sent
    <2>3. /\ Status(job) = "failed" => After(job) = "record" \/ job.how \in {"mixed", "claimed"}
          /\ After(job) = "clear" => Status(job) # "failed" \/ job.how \in {"mixed", "claimed"}
      <3>1. job.how \in {"archived", "mixed", "claimed", "spam"}  BY <1>1, <2>1 DEF JobShape
      <3>2. CASE job.path = "main"
        <4>1. job.how \in {"archived", "mixed", "spam"} /\ (job.how = "mixed" <=> job.skip # {} /\ job.fail # {})
          BY <1>1, <2>1, <3>1, <3>2 DEF JobShape
        <4> QED BY <3>2, <4>1 DEF Status, MainStatus, After, Sent
      <3>3. CASE job.path = "claim"
        <4>1. job.how \in {"claimed", "spam"}  BY <1>1, <2>1, <3>1, <3>3 DEF JobShape
        <4> QED BY <3>3, <4>1 DEF Status, ClaimStatus, After, Sent
      <3> QED BY <1>1, <2>1, <3>2, <3>3
    <2>4. ASSUME NEW i \in Ids PROVE Remembered(i)' \/ (Answering' /\ IdOf[job'.e] = i)
      <3>1. CASE i = id
        <4>1. CASE row'[i] = "failed"  BY <2>1, <2>2, <2>3, <3>1, <4>1 DEF Answering
        <4> QED BY <4>1 DEF Remembered
      <3>2. CASE i # id
        <4>1. Remembered(i)  BY <1>0, <3>2
        <4> QED BY <2>1, <3>2, <4>1 DEF Remembered, Excused
      <3> QED BY <3>1, <3>2
    <2>5. ClearedRightly'  BY <2>1, <2>2, <2>3 DEF ClearedRightly
    <2> QED BY <1>0, <2>4, <2>5 DEF ScheduleInv
  <1>5. CASE Ack
    <2>1. /\ UNCHANGED <<retry, row, gaveUp>> /\ job.stage = "ack"
          /\ how'[job.e] = SettledAs(job)
          /\ IF After(job) = "none" THEN job' = Idle ELSE job' = [job EXCEPT !.stage = "settle"]
      BY <1>0, <1>1, <1>5 DEF Ack, storeVars
    <2>0. PICK id \in Ids : id = IdOf[job.e]  BY <1>1
    <2>2. job.how \in {"mixed", "claimed"} => Excused(id)'
      <3>1. SettledAs(job) = IF job.path = "claim" /\ job.how = "spam" THEN "claimed" ELSE job.how
        BY DEF SettledAs
      <3> QED BY <1>1, <2>0, <2>1, <3>1 DEF Excused, EntriesOf
    <2>3. \A i \in Ids : Remembered(i) => Remembered(i)'
      BY <1>n, <2>1, ScheduleKept
    <2>4. CASE After(job) = "none"
      <3>1. Answering => job.how \in {"mixed", "claimed"}  BY <2>1, <2>4 DEF Answering
      <3>2. \A i \in Ids : Remembered(i)'
        BY <1>0, <2>0, <2>2, <2>3, <3>1 DEF Remembered
      <3> QED BY <1>0, <2>1, <2>4, <3>2 DEF ScheduleInv, ClearedRightly, Idle
    <2>5. CASE After(job) # "none"
      <3>1. /\ job'.stage = "settle" /\ job'.e = job.e /\ job'.how = job.how
            /\ job'.path = job.path /\ After(job') = After(job)
        BY <1>1, <2>1, <2>5 DEF Job, After, Sent
      <3>2. ASSUME NEW i \in Ids PROVE Remembered(i)' \/ (Answering' /\ IdOf[job'.e] = i)
        BY <1>0, <2>1, <2>0, <2>2, <2>3, <3>1 DEF Answering, Remembered
      <3>3. ClearedRightly'
        BY <1>0, <1>1, <1>n, <2>0, <2>1, <2>2, <3>1, ExcusedStays DEF ClearedRightly
      <3> QED BY <1>0, <3>2, <3>3 DEF ScheduleInv
    <2> QED BY <2>4, <2>5
  <1>6. CASE Settle
    <2>0. PICK id \in Ids : id = IdOf[job.e]  BY <1>1
    <2>1. /\ UNCHANGED <<row, how>> /\ job.stage = "settle" /\ After(job) # "none"
          /\ job' = SettleNext /\ \A i \in Ids : i # id => retry'[i] = retry[i]
      BY <1>1, <1>6, <2>0, SettleKeys DEF Settle, JobShape
    <2>2. job' = Idle \/ (job'.stage = "mark" /\ job'.e = job.e /\ job'.path = "retry")
      BY <1>1, <2>1 DEF SettleNext, Job
    <2>3. ASSUME NEW i \in Ids, i # id PROVE Remembered(i)'
      <3>1. Remembered(i)  BY <1>0, <2>0, <2>3
      <3>2. i \in gaveUp' <=> i \in gaveUp  BY <1>6, <2>0, <2>3, SettleKeys
      <3> QED BY <2>1, <2>3, <3>1, <3>2 DEF Remembered, Excused
    <2>4. Remembered(id)' \/ job'.stage = "mark"
      <3>1. CASE After(job) = "record"  BY <1>6, <2>0, <3>1, SettleKeys DEF Remembered
      <3>2. CASE After(job) = "drop"    BY <1>6, <2>0, <3>2, SettleKeys DEF Remembered
      <3>3. CASE After(job) \notin {"record", "drop"}
        <4>1. After(job) = "clear"  BY <2>1, <3>3 DEF After
        <4>2. CASE job.path = "retry"  BY <1>1, <2>1, <4>1, <4>2 DEF SettleNext, Job
        <4>3. CASE job.path # "retry"
          <5>1. row[id] # "failed" \/ Excused(id)  BY <1>0, <2>0, <2>1, <4>1, <4>3 DEF ClearedRightly
          <5> QED BY <2>1, <5>1 DEF Remembered, Excused
        <4> QED BY <4>2, <4>3
      <3> QED BY <3>1, <3>2, <3>3
    <2>5. ASSUME NEW i \in Ids PROVE Remembered(i)' \/ (Answering' /\ IdOf[job'.e] = i)
      BY <2>0, <2>2, <2>3, <2>4 DEF Answering, Idle
    <2>6. ClearedRightly'  BY <2>2 DEF ClearedRightly, Idle
    <2> QED BY <1>0, <2>5, <2>6 DEF ScheduleInv
  <1>7. CASE MarkSent
    <2> DEFINE id == IdOf[job.e]
    <2>1. /\ UNCHANGED <<retry, gaveUp, how>> /\ job.stage = "mark" /\ job' = Idle
          /\ row'[id] \in {"none", "sent"} /\ \A i \in Ids : i # id => row'[i] = row[i]
      BY <1>0, <1>1, <1>7 DEF MarkSent, historyVars
    <2>2. ASSUME NEW i \in Ids PROVE Remembered(i)'
      BY <1>0, <2>1 DEF Remembered, Excused
    <2> QED BY <1>0, <2>1, <2>2 DEF ScheduleInv, ClearedRightly, Idle
  <1> QED BY <1>0, <1>2, <1>3, <1>4, <1>5, <1>6, <1>7 DEF Steps, ArchiveFails, SettleFails

LEMMA ScheduleNext ==
  TypeInv /\ JobInv /\ PendingInv /\ ScheduleInv /\ [Next]_vars => ScheduleInv'
  <1> SUFFICES ASSUME TypeInv, JobInv, PendingInv, ScheduleInv, [Next]_vars, Calm'
               PROVE ScheduleInv'
    BY DEF ScheduleInv
  <1>0. Calm /\ phase # "down"  BY SeenGrows DEF Calm, ScheduleInv
  <1>1. CASE Environment \/ UNCHANGED vars
    <2>1. ~Crash /\ \A id \in Ids : ~RetryKeyExpires(id)
      BY <1>0 DEF Crash, RetryKeyExpires, Fault, Calm
    <2>2. UNCHANGED <<retry, row, gaveUp, job, phase>>
      BY <1>1, <2>1 DEF Environment, SaveSettings, Append, Trim, BackoffEnds, WindowSlides, vars,
                         storeVars, loopVars, historyVars
    <2> QED BY <1>0, <2>2, ScheduleKept
  <1>2. CASE Loop
    <2>1. UNCHANGED <<retry, row, gaveUp, job>> /\ phase' # "down"
      BY <1>2 DEF Loop, Restart, Read, Claim, Sweep, EndLoop, storeVars, historyVars
    <2> QED BY <2>1, ScheduleKept
  <1>3. CASE Guards
    <2>1. /\ UNCHANGED <<retry, row, gaveUp, phase>> /\ job.stage = "idle"
      BY <1>3, GuardSteps
    <2>2. job' = job \/ ~(job'.stage \in {"ack", "settle"} /\ job'.path # "retry" /\ After(job') = "clear")
      BY <1>3, GuardSteps DEF Hand, After
    <2> QED BY <1>0, <2>1, <2>2, ScheduleKept DEF Answering
  <1>4. CASE Steps  BY <1>4, ScheduleSteps
  <1>5. CASE Retries
    <2>1. /\ UNCHANGED <<retry, row, gaveUp, phase>> /\ job.stage = "idle"
          /\ job' = job \/ job'.path = "retry"
      BY <1>5, RetrySteps DEF Hand
    <2> QED BY <1>0, <2>1, ScheduleKept DEF Answering
  <1> QED BY <1>1, <1>2, <1>3, <1>4, <1>5 DEF Next, Daemon

(* A message the main loop archived as failed has its retry scheduled, or  *)
(* the retry was given up, however many entries carry its id: with nothing *)
(* in hand, and unless a crash, a failed store or a sweep held up too long *)
(* took the key.                                                           *)
THEOREM FailuresRemembered == Spec => []RetryScheduled
  <1> DEFINE IInv == TypeInv /\ FenceInv /\ JobInv /\ PendingInv /\ ScheduleInv
  <1>1. IInv => RetryScheduled
    BY DEF ScheduleInv, RetryScheduled, Remembered, Answering, Calm, Excused
  <1>2. Init => IInv  BY TypeInit, FenceInit, JobInit, PendingInit, ScheduleInit
  <1>3. IInv /\ [Next]_vars => IInv'
    BY TypeNext, FenceNext, JobNext, PendingNext, ScheduleNext
  <1> QED BY <1>1, <1>2, <1>3, PTL DEF Spec

-----------------------------------------------------------------------------
(* What is sent stays sent, and is not waiting to be sent again. A message *)
(* on its way through the main or the claim path does not say sent yet,    *)
(* unless the archive could not be read.                                   *)
FreshJob ==
  "blind" \notin seen /\ job.path # "retry" /\ job.stage \in {"send", "archive"} =>
    row[IdOf[job.e]] # "sent"

LEMMA FreshNext == TypeInv /\ JobInv /\ FreshJob /\ [Next]_vars => FreshJob'
  <1> SUFFICES ASSUME TypeInv, JobInv, FreshJob, [Next]_vars, "blind" \notin seen' PROVE FreshJob'
    BY DEF FreshJob
  <1>0. "blind" \notin seen  BY SeenGrows
  <1>1. CASE UNCHANGED <<job, row>>  BY <1>0, <1>1 DEF FreshJob
  <1>2. CASE job' = Idle  BY <1>2 DEF FreshJob, Idle
  <1>3. CASE Guards
    <2>1. PICK e \in Entries : job' = job \/ job'.stage = "ack" \/ (job'.e = e /\ Undelivered(e))
      BY <1>3, GuardSteps DEF Hand
    <2>2. UNCHANGED row  BY <1>3, GuardSteps
    <2>3. CASE job'.e = e /\ Undelivered(e)
      <3>1. row[IdOf[e]] # "sent"  BY <2>3 DEF Undelivered, Fault
      <3> QED BY <2>2, <2>3, <3>1 DEF FreshJob
    <2>4. CASE job'.stage = "ack"  BY <2>4 DEF FreshJob
    <2> QED BY <1>1, <2>1, <2>2, <2>3, <2>4
  <1>4. CASE Retries
    <2>1. UNCHANGED row /\ (job' = job \/ job'.path = "retry")  BY <1>4, RetrySteps DEF Hand
    <2> QED BY <1>1, <2>1 DEF FreshJob
  <1>5. CASE Steps
    <2>0. job \in Job /\ JobShape  BY <1>5, StepFrame DEF JobInv
    <2>1. CASE UNCHANGED row /\ job' # Idle
      <3>1. job'.e = job.e /\ job'.path = job.path  BY <1>5, <2>1, StepFrame
      <3>2. job'.stage \in {"send", "archive"} => job.stage = "send"
        BY <1>5, <2>0, <2>1
           DEF Steps, Send, SendSkipped, SendFails, SendAnswerLost, SendsDone, Archive, ArchiveFails,
               Ack, Settle, SettleFails, MarkSent, SettleNext, Job
      <3> QED BY <1>0, <2>1, <3>1, <3>2 DEF FreshJob
    <2>2. CASE Archive \/ MarkSent \/ \E written \in 0 .. 2 : ArchiveFails(written)
      <3>1. job' = Idle \/ job'.stage = "ack"
        BY <2>0, <2>2 DEF Archive, MarkSent, ArchiveFails, Job
      <3> QED BY <1>2, <3>1 DEF FreshJob
    <2> QED BY <1>2, <2>1, <2>2, RowFrame
  <1>6. CASE Environment \/ Loop \/ UNCHANGED vars
    <2>1. job' = Idle \/ UNCHANGED <<job, row>>
      BY <1>6 DEF Environment, SaveSettings, Append, Trim, BackoffEnds, WindowSlides,
             RetryKeyExpires, Crash, Loop, Restart, Read, Claim, Sweep, EndLoop, storeVars, vars
    <2> QED BY <1>1, <1>2, <2>1
  <1> QED BY <1>3, <1>4, <1>5, <1>6 DEF Next, Daemon

(* While the archive can be read, a row that says sent says so for ever.   *)
THEOREM SentStays == Spec => SentIsFinal
  <1> DEFINE IInv == TypeInv /\ JobInv /\ FreshJob
  <1>1. Init => IInv
    BY TypeInit, JobInit DEF Init, FreshJob, Idle
  <1>2. IInv /\ [Next]_vars => IInv'
    BY TypeNext, JobNext, FreshNext
  <1>3. IInv /\ [Next]_vars =>
          [\A id \in Ids : row[id] = "sent" /\ "blind" \notin seen => row'[id] = "sent"]_vars
    <2> SUFFICES ASSUME IInv, [Next]_vars, NEW id \in Ids, row[id] = "sent", "blind" \notin seen
                 PROVE  row'[id] = "sent"
      OBVIOUS
    <2>0. row \in [Ids -> Statuses]  BY DEF TypeInv, TypeOK, RowOK
    <2>1. CASE Archive \/ \E written \in 0 .. 2 : ArchiveFails(written)
      <3>1. job.stage = "archive" /\ job.path # "retry" /\ IdOf[job.e] \in Ids
        BY <2>1, InHand DEF Archive, ArchiveFails, JobInv, JobShape
      <3>2. id # IdOf[job.e]  BY <3>1 DEF FreshJob
      <3>3. CASE Archive  BY <2>0, <3>1, <3>2, <3>3 DEF Archive
      <3>4. ASSUME NEW written \in 0 .. 2, ArchiveFails(written) PROVE row'[id] = "sent"
        <4>1. written \in {0, 1, 2}  OBVIOUS
        <4>2. \/ row' = row
              \/ row' = [row EXCEPT ![IdOf[job.e]] = IF @ = "none" THEN "pending" ELSE @]
              \/ row' = [row EXCEPT ![IdOf[job.e]] = Status(job)]
          BY <3>4, <4>1 DEF ArchiveFails
        <4> QED BY <2>0, <3>1, <3>2, <4>2
      <3> QED BY <2>1, <3>3, <3>4
    <2>2. CASE MarkSent
      <3>1. IdOf[job.e] \in Ids  BY <2>2, InHand DEF MarkSent
      <3> QED BY <2>0, <2>2, <3>1 DEF MarkSent
    <2> QED BY <2>1, <2>2, RowFrame
  <1> QED BY <1>1, <1>2, <1>3, PTL DEF Spec, SentIsFinal

(* With nothing but lost answers, a sent message has no key, or is about   *)
(* to lose it; and what is in hand or due for a retry does not say sent.   *)
Smooth == seen \subseteq {"provider"} /\ {} \notin Routes

Unretried ==
  \A id \in Ids : row[id] = "sent" =>
    \/ retry[id].attempts = 0
    \/ job.stage \in {"ack", "settle"} /\ IdOf[job.e] = id /\ After(job) = "clear"

Unsent ==
  /\ job.stage \in {"send", "archive"} => row[IdOf[job.e]] # "sent"
  /\ job.stage \in {"ack", "settle"} /\ After(job) = "record" => row[IdOf[job.e]] # "sent"
  /\ job.stage = "settle" /\ job.path = "retry" => row[IdOf[job.e]] # "sent"
  /\ job.stage = "mark" => retry[IdOf[job.e]].attempts = 0

DueOnce ==
  /\ \A r \in due : row[r.id] # "sent" /\ (job.stage # "idle" => IdOf[job.e] # r.id)
  /\ \A r, q \in due : r.id = q.id => r = q

Tried ==
  job.stage \in {"send", "archive"} /\ job.how \in {"archived", "mixed"} =>
    job.todo \cup job.ok \cup job.fail \cup job.skip # {}

WaitInv == Smooth => Unretried /\ Unsent /\ DueOnce /\ Tried

LEMMA WaitInit == Init => WaitInv
  BY DEF Init, WaitInv, Unretried, Unsent, DueOnce, Tried, Idle

LEMMA WaitSteps == TypeInv /\ JobInv /\ WaitInv /\ Steps => WaitInv'
  <1> SUFFICES ASSUME TypeInv, JobInv, WaitInv, Steps, Smooth' PROVE WaitInv'
    BY DEF WaitInv
  <1>n. [Next]_vars  BY DEF Next, Daemon
  <1>0. Smooth /\ Unretried /\ Unsent /\ DueOnce /\ Tried /\ UNCHANGED due
    BY <1>n, SeenGrows, StepFrame DEF Smooth, WaitInv, loopVars
  <1>1. /\ job.stage # "idle" /\ job \in Job /\ job.e \in Entries /\ JobShape
        /\ row \in [Ids -> Statuses] /\ retry \in [Ids -> RetryState]
        /\ \A r \in due : r.id \in Ids
    BY StepFrame DEF JobInv, TypeInv, TypeOK, RowOK, RetryOK, LoopOK, DueState
  <1>i. PICK id \in Ids : id = IdOf[job.e]  BY StepFrame
  <1>f. ~Fault("sqlite") /\ ~Fault("valkey")  BY DEF Smooth, Fault
  <1>2. ASSUME NEW c \in Channels, Send(c) \/ SendSkipped(c) \/ SendFails(c) \/ SendAnswerLost(c)
        PROVE  WaitInv'
    <2>1. /\ UNCHANGED <<retry, row>> /\ job.stage = "send" /\ job'.stage = "send"
          /\ job'.e = job.e /\ job'.how = job.how
          /\ job'.todo \cup job'.ok \cup job'.fail \cup job'.skip # {}
      <3>1. CASE Send(c)  BY <1>1, <3>1 DEF Send, storeVars, Job
      <3>2. CASE SendSkipped(c)  BY <1>1, <3>2 DEF SendSkipped, storeVars, Job
      <3>3. CASE SendFails(c) \/ SendAnswerLost(c)
        <4>1. job' = [job EXCEPT !.todo = @ \ {c}, !.fail = @ \cup {c}] /\ job.stage = "send"
              /\ UNCHANGED <<retry, row>>
          BY <3>3 DEF SendFails, SendAnswerLost, storeVars
        <4>2. c \in job'.fail  BY <1>1, <4>1 DEF Job
        <4> QED BY <1>1, <4>1, <4>2 DEF Job
      <3> QED BY <1>2, <3>1, <3>2, <3>3
    <2> QED BY <1>0, <2>1 DEF WaitInv, Unretried, Unsent, DueOnce, Tried
  <1>3. CASE SendsDone
    <2>1. /\ UNCHANGED <<retry, row>> /\ job.stage = "send"
          /\ job'.stage = IF job.path = "retry" THEN "settle" ELSE "archive"
          /\ job'.e = job.e /\ job'.path = job.path /\ job'.todo = job.todo /\ job'.ok = job.ok
          /\ job'.fail = job.fail /\ job'.skip = job.skip
          /\ job'.how = job.how \/ (job'.how = "mixed" /\ job.path = "main")
      <3>1. PICK stage, cause :
              /\ job' = [job EXCEPT !.stage = stage, !.how = cause]
              /\ stage = IF job.path = "retry" THEN "settle" ELSE "archive"
              /\ cause = IF job.path = "main" /\ job.skip # {} /\ job.fail # {} THEN "mixed"
                         ELSE job.how
        BY <1>3 DEF SendsDone
      <3>2. UNCHANGED <<retry, row>> /\ job.stage = "send"  BY <1>3 DEF SendsDone, storeVars
      <3>3. /\ job'.stage = stage /\ job'.how = cause
            /\ job'.e = job.e /\ job'.path = job.path /\ job'.todo = job.todo /\ job'.ok = job.ok
            /\ job'.fail = job.fail /\ job'.skip = job.skip
        BY <1>1, <3>1 DEF Job
      <3>4. cause = job.how \/ (cause = "mixed" /\ job.path = "main")  BY <3>1
      <3>5. job'.stage = IF job.path = "retry" THEN "settle" ELSE "archive"  BY <3>1, <3>3
      <3> QED BY <3>2, <3>3, <3>4, <3>5
    <2>2. job.path = "main" => job.how = "archived"
      BY <1>1, <2>1 DEF JobShape
    <2>3. job'.path # "retry" => Tried'
      BY <1>0, <2>1, <2>2 DEF Tried
    <2>4. job.path = "retry" => job'.stage = "settle"  BY <2>1
    <2> QED BY <1>0, <2>1, <2>3, <2>4 DEF WaitInv, Unretried, Unsent, DueOnce, Tried
  <1>4. CASE Archive
    <2>1. /\ row'[id] = Status(job) /\ \A i \in Ids : i # id => row'[i] = row[i]
          /\ UNCHANGED retry /\ job.stage = "archive" /\ job.path \in {"main", "claim"}
      BY <1>1, <1>i, <1>4 DEF Archive, JobShape, Job
    <2>2. /\ job'.stage = "ack" /\ job'.e = job.e /\ job'.path = job.path
          /\ After(job') = After(job)
      BY <1>1, <1>4 DEF Archive, Job, After, Sent
    <2>3. /\ Status(job) = "sent" => After(job) = "clear"
          /\ After(job) = "record" => Status(job) # "sent"
      <3>1. CASE job.path = "main"
        <4>1. job.how \in {"archived", "mixed", "spam"} /\ (job.how = "mixed" => job.skip # {} /\ job.fail # {})
          BY <1>1, <2>1, <3>1 DEF JobShape
        <4>2. job.how # "spam" => job.ok \cup job.fail \cup job.skip # {}
          BY <1>0, <1>1, <2>1, <4>1 DEF Tried, JobShape
        <4> QED BY <3>1, <4>1, <4>2 DEF Status, MainStatus, After, Sent
      <3>2. CASE job.path = "claim"
        <4>1. job.how \in {"claimed", "spam"}  BY <1>1, <2>1, <3>2 DEF JobShape
        <4> QED BY <3>2, <4>1 DEF Status, ClaimStatus, After, Sent
      <3> QED BY <2>1, <3>1, <3>2
    <2>4. Unretried'  BY <1>0, <1>i, <2>1, <2>2, <2>3 DEF Unretried
    <2>5. Unsent'     BY <1>i, <2>1, <2>2, <2>3 DEF Unsent
    <2>6. DueOnce'    BY <1>0, <1>1, <1>i, <2>1, <2>2 DEF DueOnce
    <2> QED BY <2>2, <2>4, <2>5, <2>6 DEF WaitInv, Tried
  <1>5. CASE Ack
    <2>1. /\ UNCHANGED <<retry, row>> /\ job.stage = "ack" /\ job.path # "retry"
          /\ IF After(job) = "none" THEN job' = Idle ELSE job' = [job EXCEPT !.stage = "settle"]
      BY <1>1, <1>5 DEF Ack, storeVars, JobShape
    <2>2. CASE job' = Idle /\ After(job) = "none"
      BY <1>0, <2>1, <2>2 DEF WaitInv, Unretried, Unsent, DueOnce, Tried, Idle
    <2>3. CASE job' = [job EXCEPT !.stage = "settle"]
      <3>1. /\ job'.stage = "settle" /\ job'.e = job.e /\ job'.path = job.path
            /\ After(job') = After(job)
        BY <1>1, <2>3 DEF Job, After, Sent
      <3> QED BY <1>0, <2>1, <3>1 DEF WaitInv, Unretried, Unsent, DueOnce, Tried
    <2> QED BY <2>1, <2>2, <2>3
  <1>6. CASE Settle
    <2>1. /\ UNCHANGED row /\ job.stage = "settle" /\ job' = SettleNext
          /\ \A i \in Ids : i # id => retry'[i] = retry[i]
      BY <1>i, <1>6, SettleKeys DEF Settle
    <2>2. After(job) # "record" => retry'[id].attempts = 0
      BY <1>i, <1>6, SettleKeys DEF NoRetry
    <2>3. After(job) = "record" => row[id] # "sent"  BY <1>0, <1>i, <2>1 DEF Unsent
    <2>4. job' = Idle \/ (job'.stage = "mark" /\ job'.e = job.e /\ After(job) = "clear")
      BY <1>1, <2>1 DEF SettleNext, Job
    <2>5. \A i \in Ids : row'[i] = "sent" => retry'[i].attempts = 0
      BY <1>0, <1>i, <2>1, <2>2, <2>3 DEF Unretried
    <2>6. Unsent'  BY <1>i, <2>2, <2>4 DEF Unsent, Idle
    <2>7. DueOnce'  BY <1>0, <1>1, <2>1, <2>4 DEF DueOnce, Idle
    <2> QED BY <2>4, <2>5, <2>6, <2>7 DEF WaitInv, Unretried, Tried, Idle
  <1>7. CASE MarkSent
    <2>1. /\ UNCHANGED retry /\ job.stage = "mark" /\ job' = Idle
          /\ \A i \in Ids : i # id => row'[i] = row[i]
      BY <1>f, <1>1, <1>i, <1>7 DEF MarkSent
    <2>2. retry'[id].attempts = 0  BY <1>0, <1>i, <2>1 DEF Unsent
    <2>3. \A i \in Ids : row'[i] = "sent" => retry'[i].attempts = 0
      BY <1>0, <1>i, <2>1, <2>2 DEF Unretried
    <2>4. DueOnce'  BY <1>0, <1>1, <1>i, <2>1 DEF DueOnce, Idle
    <2> QED BY <2>1, <2>3, <2>4 DEF WaitInv, Unretried, Unsent, Tried, Idle
  <1> QED BY <1>f, <1>2, <1>3, <1>4, <1>5, <1>6, <1>7 DEF Steps, ArchiveFails, SettleFails

LEMMA WaitNext == TypeInv /\ JobInv /\ WaitInv /\ [Next]_vars => WaitInv'
  <1> SUFFICES ASSUME TypeInv, JobInv, WaitInv, [Next]_vars, Smooth' PROVE WaitInv'
    BY DEF WaitInv
  <1>0. Smooth /\ Unretried /\ Unsent /\ DueOnce /\ Tried
    BY SeenGrows DEF Smooth, WaitInv
  <1>1. CASE UNCHANGED <<retry, row, job, due>>
    <2>1. After(job)' = After(job)  BY <1>1
    <2> QED BY <1>0, <1>1, <2>1 DEF WaitInv, Unretried, Unsent, DueOnce, Tried
  <1>2. CASE Environment
    <2>1. ~Crash /\ \A id \in Ids : RetryKeyExpires(id) => phase = "down"
      BY DEF Crash, RetryKeyExpires, Fault, Smooth
    <2>2. ASSUME NEW id \in Ids, RetryKeyExpires(id) PROVE WaitInv'
      <3>1. /\ UNCHANGED <<row, job, due>> /\ retry'[id].attempts = 0
            /\ \A i \in Ids : i # id => retry'[i] = retry[i]
        <4>1. ClearRetry(id) /\ UNCHANGED <<row, job, due>>
          BY <2>2 DEF RetryKeyExpires, ClearRetry, loopVars
        <4> QED BY <4>1, ClearKey DEF NoRetry
      <3>2. job.stage # "idle" => IdOf[job.e] \in Ids  BY InHand
      <3>3. After(job)' = After(job)  BY <3>1
      <3>4. Unretried' /\ Unsent'  BY <1>0, <3>1, <3>2, <3>3 DEF Unretried, Unsent
      <3> QED BY <1>0, <3>1, <3>4 DEF WaitInv, DueOnce, Tried
    <2> QED BY <1>1, <1>2, <2>1, <2>2
            DEF Environment, SaveSettings, Append, Trim, BackoffEnds, WindowSlides, storeVars, loopVars
  <1>3. CASE Loop
    <2>1. UNCHANGED <<retry, row, job>>
      BY <1>3 DEF Loop, Restart, Read, Claim, Sweep, EndLoop, storeVars
    <2>2. ASSUME NEW S \in SUBSET Ids, NEW twice \in SUBSET S, Sweep(S, twice) PROVE WaitInv'
      <3>0. \A id \in Ids : retry[id].attempts \in Nat
        BY DEF TypeInv, TypeOK, RetryOK, RetryState
      <3>1. twice = {} /\ job.stage = "idle"  BY <2>2 DEF Sweep, Fault, Smooth, Free
      <3>2. ASSUME NEW r \in due'
            PROVE  /\ retry[r.id].attempts > 0 /\ r.id \in Ids
                   /\ r = [id |-> r.id, entry |-> retry[r.id].entry, chans |-> retry[r.id].chans, copy |-> 1]
        BY <2>2, <3>1 DEF Sweep
      <3>3. DueOnce'
        <4>1. \A r \in due' : row[r.id] # "sent"
          BY <1>0, <3>0, <3>1, <3>2 DEF Unretried
        <4>2. \A r, q \in due' : r.id = q.id => r = q  BY <3>2
        <4> QED BY <2>1, <3>1, <4>1, <4>2 DEF DueOnce
      <3> QED BY <1>0, <2>1, <3>1, <3>3 DEF WaitInv, Unretried, Unsent, Tried
    <2> QED BY <1>1, <1>3, <2>1, <2>2 DEF Loop, Restart, Read, Claim, EndLoop
  <1>4. CASE Guards
    <2>1. UNCHANGED <<retry, row, due>> /\ job.stage = "idle" /\ due = {}
      BY <1>4, GuardSteps DEF JobInv, PhaseInv
    <2>2. \A id \in Ids : row[id] = "sent" => retry[id].attempts = 0
      BY <1>0, <2>1 DEF Unretried
    <2>3. PICK e \in Entries :
            \/ job' = job
            \/ job' = Hand("ack", phase, e, {}, {}, {}, "dup")
            \/ /\ Undelivered(e)
               /\ \/ job' = Hand("archive", phase, e, {}, {}, {}, "spam")
                  \/ job' = Hand("ack", "main", e, {}, {}, {}, "control")
                  \/ job' = Hand("ack", phase, e, {}, {}, {}, "error")
                  \/ \E todo \in SUBSET Channels, skip \in {{}, {All}} :
                       /\ job' = Hand("send", phase, e, todo, {}, skip,
                                      IF phase = "main" THEN "archived" ELSE "claimed")
                       /\ skip = {} => todo \in Routes
      BY <1>4, GuardSteps
    <2>4. Undelivered(e) => row[IdOf[e]] # "sent"
      BY DEF Undelivered, Fault, Smooth
    <2>5. phase # "retry"  BY <1>4, GuardSteps
    <2>6. CASE job' = Hand("ack", phase, e, {}, {}, {}, "dup")
               \/ job' = Hand("ack", "main", e, {}, {}, {}, "control")
      BY <2>1, <2>2, <2>5, <2>6 DEF Hand, WaitInv, Unretried, Unsent, DueOnce, Tried, After
    <2>7. CASE Undelivered(e) /\ (job' = Hand("archive", phase, e, {}, {}, {}, "spam")
                                  \/ job' = Hand("ack", phase, e, {}, {}, {}, "error"))
      BY <2>1, <2>2, <2>4, <2>5, <2>7 DEF Hand, WaitInv, Unretried, Unsent, DueOnce, Tried
    <2>8. ASSUME Undelivered(e), NEW todo \in SUBSET Channels, NEW skip \in {{}, {All}},
                 job' = Hand("send", phase, e, todo, {}, skip,
                             IF phase = "main" THEN "archived" ELSE "claimed"),
                 skip = {} => todo \in Routes
          PROVE  WaitInv'
      <3>1. todo \cup skip # {}  BY <1>0, <2>8 DEF Smooth
      <3> QED BY <2>1, <2>2, <2>4, <2>5, <2>8, <3>1
              DEF Hand, WaitInv, Unretried, Unsent, DueOnce, Tried
    <2> QED BY <1>1, <2>1, <2>3, <2>6, <2>7, <2>8
  <1>5. CASE Steps  BY <1>5, WaitSteps
  <1>6. CASE Retries
    <2>1. PICK r \in due :
            /\ due' = due \ {r} /\ r \in DueState
            /\ \/ job' = job
               \/ /\ job'.path = "retry" /\ job'.e = r.entry /\ job'.stage \in {"settle", "send"}
                  /\ job'.how \in {"trimmed", "error", "none"}
      BY <1>6, RetrySteps DEF Hand
    <2>2. UNCHANGED <<retry, row>> /\ job.stage = "idle" /\ IdOf[r.entry] = r.id
      BY <1>6, RetrySteps DEF JobInv, KeyInv
    <2>3. \A id \in Ids : row[id] = "sent" => retry[id].attempts = 0
      BY <1>0, <2>2 DEF Unretried
    <2>4. row[r.id] # "sent" /\ \A q \in due' : q.id # r.id /\ row[q.id] # "sent"
      BY <1>0, <2>1 DEF DueOnce
    <2>5. \A q, s \in due' : q.id = s.id => q = s  BY <1>0, <2>1 DEF DueOnce
    <2>6. CASE job' = job
      BY <1>0, <2>1, <2>2, <2>3, <2>4, <2>5, <2>6 DEF WaitInv, Unretried, Unsent, DueOnce, Tried
    <2>7. CASE job'.path = "retry" /\ job'.e = r.entry /\ job'.stage \in {"settle", "send"}
               /\ job'.how \in {"trimmed", "error", "none"}
      BY <2>1, <2>2, <2>3, <2>4, <2>5, <2>7 DEF WaitInv, Unretried, Unsent, DueOnce, Tried
    <2> QED BY <2>1, <2>6, <2>7
  <1>7. CASE UNCHANGED vars  BY <1>1, <1>7 DEF vars, storeVars, loopVars
  <1> QED BY <1>2, <1>3, <1>4, <1>5, <1>6, <1>7 DEF Next, Daemon

(* A message archived as sent has no retry waiting, however many entries   *)
(* carry its id and whatever their dispatches came to: as long as no store *)
(* fails, nothing crashes and every dispatch has a channel to try.         *)
THEOREM SentNotWaiting == Spec => []SentNotRetried
  <1> DEFINE IInv == TypeInv /\ JobInv /\ WaitInv
  <1>1. IInv => SentNotRetried
    BY DEF WaitInv, Smooth, Unretried, SentNotRetried
  <1>2. Init => IInv  BY TypeInit, JobInit, WaitInit
  <1>3. IInv /\ [Next]_vars => IInv'  BY TypeNext, JobNext, WaitNext
  <1> QED BY <1>1, <1>2, <1>3, PTL DEF Spec

-----------------------------------------------------------------------------
(* Duplicates. Whoever may still send message id on channel c holds one    *)
(* right to do so: an entry not settled, a retry key, a due state or the   *)
(* job in hand. No step adds a right, or a delivery, that it does not take *)
(* from another holder or that a failure does not pay for.                 *)
HasKey(id, c) == retry[id].attempts > 0 /\ (c \in retry[id].chans \/ retry[id].chans = {})
IsDue(r, c)   == c \in r.chans \/ r.chans = {}

(* The entry whose right the job in hand has taken over.                   *)
Held == IF job.stage \in {"send", "archive", "ack"} /\ job.path # "retry" THEN {job.e} ELSE {}
Open(id) == {e \in EntriesOf(id) : how[e] = "none" /\ e \notin Held}

(* The channels the job in hand may still send on, or have retried.        *)
Owing(c) == c \in job.todo \cup job.fail \/ (job.how = "error" /\ job.fail = {})

(* A key gives no right of its own while a due state or a job acts for it. *)
Retrying(id) == job.path = "retry" /\ job.stage \in {"send", "settle"} /\ IdOf[job.e] = id
Covered(id)  == Retrying(id) \/ \E r \in due : r.id = id

Bit(b) == IF b THEN 1 ELSE 0
OwedByKey(id, c)    == Bit(HasKey(id, c) /\ ~Covered(id))
OwedByDue(id, c, n) == Bit(\E r \in due : r.id = id /\ r.copy = n /\ IsDue(r, c))
OwedByJob(id, c) ==
  Bit(job.stage \in {"send", "archive", "ack", "settle"} /\ IdOf[job.e] = id /\ Owing(c))

Weight(id, c) ==
  sends[id][c] + Cardinality(Open(id)) + OwedByKey(id, c)
    + OwedByDue(id, c, 1) + OwedByDue(id, c, 2) + OwedByJob(id, c)

Pays(id, c) == Weight(id, c)' + budget' <= Weight(id, c) + budget

Charged ==
  \A id \in Ids, c \in Channels :
    Weight(id, c) <= Cardinality(EntriesOf(id)) + (MaxFaults - budget)

(* The due states are copies of their keys, and what a key or the retry in *)
(* hand still owes, the due states of the message owe as well.             *)
DueInv ==
  /\ \A r, q \in due : r.id = q.id => r.chans = q.chans /\ (r.copy = q.copy => r = q)
  /\ \A r \in due, c \in Channels :
       HasKey(r.id, c) \/ (Retrying(r.id) /\ Owing(c)) => IsDue(r, c)

LEMMA EntriesFinite ==
  ASSUME NEW id
  PROVE  IsFiniteSet(EntriesOf(id)) /\ Cardinality(EntriesOf(id)) \in Nat
  <1>1. IsFiniteSet(Entries)  BY FS_Interval DEF Entries
  <1>2. EntriesOf(id) \in SUBSET Entries  BY DEF EntriesOf
  <1>3. IsFiniteSet(EntriesOf(id))  BY <1>1, <1>2, FS_Subset
  <1> QED BY <1>3, FS_CardinalityType

LEMMA CountOpen ==
  ASSUME NEW id, NEW e
  PROVE  /\ Cardinality(Open(id)) \in Nat /\ Cardinality(Open(id)') \in Nat
         /\ Cardinality(Open(id)) <= Cardinality(EntriesOf(id))
         /\ Open(id)' \subseteq Open(id) => Cardinality(Open(id)') <= Cardinality(Open(id))
         /\ Open(id)' \subseteq Open(id) \cup {e} =>
              Cardinality(Open(id)') <= Cardinality(Open(id)) + 1
         /\ e \in Open(id) /\ Open(id)' \subseteq Open(id) \ {e} =>
              Cardinality(Open(id)') + 1 <= Cardinality(Open(id))
  <1> DEFINE S == Open(id)
             T == Open(id)'
  <1>1. S \in SUBSET EntriesOf(id) /\ T \in SUBSET EntriesOf(id)
    BY DEF Open, EntriesOf
  <1>2. IsFiniteSet(S) /\ Cardinality(S) <= Cardinality(EntriesOf(id))
    BY <1>1, EntriesFinite, FS_Subset
  <1>3. IsFiniteSet(T)  BY <1>1, EntriesFinite, FS_Subset
  <1> HIDE DEF S, T
  <1>4. Cardinality(S) \in Nat /\ Cardinality(T) \in Nat
    BY <1>2, <1>3, FS_CardinalityType
  <1>5. T \subseteq S => Cardinality(T) <= Cardinality(S)
    BY <1>2, FS_Subset
  <1>6. ASSUME T \subseteq S \cup {e} PROVE Cardinality(T) <= Cardinality(S) + 1
    <2>1. /\ IsFiniteSet(S \cup {e})
          /\ Cardinality(S \cup {e}) = IF e \in S THEN Cardinality(S) ELSE Cardinality(S) + 1
      BY <1>2, FS_AddElement
    <2>2. Cardinality(T) <= Cardinality(S \cup {e})  BY <1>6, <2>1, FS_Subset
    <2> QED BY <1>4, <2>1, <2>2
  <1>7. ASSUME e \in S, T \subseteq S \ {e} PROVE Cardinality(T) + 1 <= Cardinality(S)
    <2>1. /\ IsFiniteSet(S \ {e})
          /\ Cardinality(S \ {e}) = IF e \in S THEN Cardinality(S) - 1 ELSE Cardinality(S)
      BY <1>2, FS_RemoveElement
    <2>2. Cardinality(T) <= Cardinality(S \ {e})  BY <1>7, <2>1, FS_Subset
    <2> QED BY <1>4, <1>7, <2>1, <2>2
  <1> QED BY <1>2, <1>4, <1>5, <1>6, <1>7 DEF S, T

(* What the parts of a weight are.                                         *)
LEMMA WeightType ==
  ASSUME TypeInv, TypeInv', NEW id \in Ids, NEW c \in Channels
  PROVE  /\ sends[id][c] \in Nat /\ sends'[id][c] \in Nat
         /\ Cardinality(Open(id)) \in Nat /\ Cardinality(Open(id)') \in Nat
         /\ OwedByKey(id, c) \in {0, 1} /\ OwedByKey(id, c)' \in {0, 1}
         /\ OwedByJob(id, c) \in {0, 1} /\ OwedByJob(id, c)' \in {0, 1}
         /\ OwedByDue(id, c, 1) \in {0, 1} /\ OwedByDue(id, c, 1)' \in {0, 1}
         /\ OwedByDue(id, c, 2) \in {0, 1} /\ OwedByDue(id, c, 2)' \in {0, 1}
         /\ budget \in Nat /\ budget' \in Nat
  <1>1. sends[id][c] \in Nat /\ sends'[id][c] \in Nat
    BY DEF TypeInv, TypeOK, SendsOK
  <1>2. budget \in Nat /\ budget' \in Nat
    BY DEF TypeInv, TypeOK, FaultOK
  <1>3. \A b : Bit(b) \in {0, 1}  BY DEF Bit
  <1>4. /\ OwedByKey(id, c) \in {0, 1} /\ OwedByKey(id, c)' \in {0, 1}
        /\ OwedByJob(id, c) \in {0, 1} /\ OwedByJob(id, c)' \in {0, 1}
    BY <1>3 DEF OwedByKey, OwedByJob, Bit
  <1>5. /\ OwedByDue(id, c, 1) \in {0, 1} /\ OwedByDue(id, c, 1)' \in {0, 1}
        /\ OwedByDue(id, c, 2) \in {0, 1} /\ OwedByDue(id, c, 2)' \in {0, 1}
    BY <1>3 DEF OwedByDue, Bit
  <1> QED BY <1>1, <1>2, <1>4, <1>5, CountOpen

(* Parts that a step leaves alone.                                         *)
LEMMA PartsKept ==
  ASSUME NEW id \in Ids, NEW c \in Channels
  PROVE  /\ UNCHANGED due => OwedByDue(id, c, 1)' = OwedByDue(id, c, 1)
                             /\ OwedByDue(id, c, 2)' = OwedByDue(id, c, 2)
         /\ UNCHANGED <<retry, due>> /\ (Retrying(id)' <=> Retrying(id)) =>
              OwedByKey(id, c)' = OwedByKey(id, c)
         /\ UNCHANGED <<how, job>> => Open(id)' = Open(id)
         /\ UNCHANGED <<how, Held>> => Open(id)' = Open(id)
         /\ UNCHANGED job => OwedByJob(id, c)' = OwedByJob(id, c) /\ (Retrying(id)' <=> Retrying(id))
  <1>1. UNCHANGED due => OwedByDue(id, c, 1)' = OwedByDue(id, c, 1)
                         /\ OwedByDue(id, c, 2)' = OwedByDue(id, c, 2)
    BY DEF OwedByDue, IsDue
  <1>2. UNCHANGED <<retry, due>> /\ (Retrying(id)' <=> Retrying(id)) =>
          OwedByKey(id, c)' = OwedByKey(id, c)
    BY DEF OwedByKey, HasKey, Covered, Bit
  <1>3. UNCHANGED <<how, Held>> => Open(id)' = Open(id)  BY DEF Open, EntriesOf
  <1>4. UNCHANGED job => UNCHANGED Held  BY DEF Held
  <1>5. UNCHANGED job => OwedByJob(id, c)' = OwedByJob(id, c) /\ (Retrying(id)' <=> Retrying(id))
    BY DEF OwedByJob, Owing, Retrying
  <1> QED BY <1>1, <1>2, <1>3, <1>4, <1>5

(* A settled job writes its key for the channels it owes, or clears it.    *)
LEMMA SettleOwes ==
  ASSUME TypeInv, JobInv, Settle, NEW id \in Ids, id = IdOf[job.e],
         NEW c \in Channels, HasKey(id, c)'
  PROVE  Owing(c)
  <1>1. /\ After(job) = "record" /\ retry'[id].chans = job.fail
    BY SettleKeys DEF HasKey, NoRetry
  <1>2. job.stage = "settle" /\ job.todo = {}  BY DEF Settle, JobInv, JobShape
  <1>3. job.fail # {} \/ job.how = "error"
    BY <1>1 DEF After
  <1> QED BY <1>1, <1>2, <1>3 DEF HasKey, Owing

(* The channels a job owes only get fewer.                                 *)
LEMMA OwingShrinks ==
  ASSUME TypeInv, JobInv, Steps, job' # Idle, NEW c \in Channels, Owing(c)'
  PROVE  Owing(c)
  <1>0. job \in Job /\ JobShape  BY StepFrame DEF JobInv
  <1>1. ASSUME NEW d \in Channels, Send(d) \/ SendSkipped(d) \/ SendFails(d) \/ SendAnswerLost(d)
        PROVE  Owing(c)
    <2>1. /\ job'.todo = job.todo \ {d} /\ job'.fail \in {job.fail, job.fail \cup {d}}
          /\ job'.how = job.how /\ d \in job.todo /\ job.how # "error"
      BY <1>0, <1>1 DEF Send, SendSkipped, SendFails, SendAnswerLost, Job, JobShape
    <2> QED BY <2>1 DEF Owing
  <1>2. CASE SendsDone
    <2>1. job'.todo = job.todo /\ job'.fail = job.fail /\ (job'.how = job.how \/ job'.how = "mixed")
      <3>1. PICK stage, cause :
              /\ job' = [job EXCEPT !.stage = stage, !.how = cause]
              /\ cause = IF job.path = "main" /\ job.skip # {} /\ job.fail # {} THEN "mixed"
                         ELSE job.how
        BY <1>2 DEF SendsDone
      <3> QED BY <1>0, <3>1 DEF Job
    <2> QED BY <2>1 DEF Owing
  <1>3. CASE \E stage : job' = [job EXCEPT !.stage = stage]
    BY <1>0, <1>3 DEF Owing, Job
  <1> QED BY <1>1, <1>2, <1>3
          DEF Steps, Archive, ArchiveFails, Ack, Settle, SettleFails, SettleNext, MarkSent

LEMMA DueInit == Init => DueInv
  BY DEF Init, DueInv

LEMMA DueNext == TypeInv /\ JobInv /\ DueInv /\ [Next]_vars => DueInv'
  <1> SUFFICES ASSUME TypeInv, JobInv, DueInv, [Next]_vars PROVE DueInv'
    OBVIOUS
  <1>1. CASE due' = {}  BY <1>1 DEF DueInv
  <1>2. CASE UNCHANGED <<retry, due, job>>
    <2>1. ASSUME NEW id, NEW c PROVE (HasKey(id, c)' <=> HasKey(id, c)) /\ (Owing(c)' <=> Owing(c))
                                     /\ (Retrying(id)' <=> Retrying(id))
      BY <1>2 DEF HasKey, Owing, Retrying
    <2> QED BY <1>2, <2>1 DEF DueInv, IsDue
  <1>3. ASSUME NEW id \in Ids, RetryKeyExpires(id) PROVE DueInv'
    <2>1. ClearRetry(id) /\ UNCHANGED <<job, due>>
      BY <1>3 DEF RetryKeyExpires, ClearRetry, loopVars
    <2>2. ASSUME NEW i \in Ids, NEW c, HasKey(i, c)' PROVE HasKey(i, c)
      BY <2>1, <2>2, ClearKey DEF HasKey, NoRetry
    <2>3. ASSUME NEW i, NEW c PROVE (Owing(c)' <=> Owing(c)) /\ (Retrying(i)' <=> Retrying(i))
      BY <2>1 DEF Owing, Retrying
    <2>4. \A r \in due : r.id \in Ids  BY DEF TypeInv, TypeOK, LoopOK, DueState
    <2> QED BY <2>1, <2>2, <2>3, <2>4 DEF DueInv, IsDue
  <1>4. CASE Loop
    <2>1. UNCHANGED <<retry, job>>
      BY <1>4 DEF Loop, Restart, Read, Claim, Sweep, EndLoop, storeVars
    <2>2. ASSUME NEW S \in SUBSET Ids, NEW twice \in SUBSET S, Sweep(S, twice) PROVE DueInv'
      <3>1. job'.stage = "idle"  BY <2>1, <2>2 DEF Sweep, Free
      <3>2. ASSUME NEW r \in due'
            PROVE  r = [id |-> r.id, entry |-> retry[r.id].entry, chans |-> retry[r.id].chans,
                        copy |-> r.copy]
        BY <2>2 DEF Sweep
      <3>3. \A r, q \in due' : r.id = q.id => r.chans = q.chans /\ (r.copy = q.copy => r = q)
        BY <3>2
      <3>4. ASSUME NEW r \in due', NEW c \in Channels, HasKey(r.id, c)' \/ (Retrying(r.id)' /\ Owing(c)')
            PROVE  IsDue(r, c)
        <4>1. r.chans = retry[r.id].chans  BY <3>2
        <4>2. HasKey(r.id, c)
          BY <2>1, <3>1, <3>4 DEF HasKey, Retrying
        <4> QED BY <4>1, <4>2 DEF HasKey, IsDue
      <3> QED BY <3>3, <3>4 DEF DueInv, IsDue
    <2> QED BY <1>2, <1>4, <2>1, <2>2 DEF Loop, Restart, Read, Claim, EndLoop
  <1>5. CASE Guards  BY <1>1, <1>5, GuardSteps DEF JobInv, PhaseInv
  <1>6. CASE Retries
    <2>1. PICK r \in due :
            /\ due' = due \ {r} /\ r \in DueState
            /\ \/ job' = job
               \/ job' = Hand("settle", "retry", r.entry, {}, {}, {}, "trimmed")
               \/ job' = Hand("settle", "retry", r.entry, {}, r.chans, {}, "error")
               \/ \E todo \in SUBSET Channels, skip \in {{}, {All}} :
                    /\ job' = Hand("send", "retry", r.entry, todo, {}, skip, "none")
                    /\ todo \subseteq r.chans \/ r.chans = {}
      BY <1>6, RetrySteps
    <2>2. UNCHANGED retry /\ job.stage = "idle" /\ IdOf[r.entry] = r.id
      BY <1>6, RetrySteps DEF JobInv, KeyInv
    <2>3. ASSUME NEW q \in due', NEW c \in Channels, HasKey(q.id, c)' \/ (Retrying(q.id)' /\ Owing(c)')
          PROVE  IsDue(q, c)
      <3>1. q \in due  BY <2>1
      <3>2. CASE HasKey(q.id, c)'
        <4>1. HasKey(q.id, c)  BY <2>2, <3>2 DEF HasKey
        <4> QED BY <3>1, <4>1 DEF DueInv
      <3>3. CASE Retrying(q.id)' /\ Owing(c)'
        <4>1. job' # job  BY <2>2, <3>3 DEF Retrying
        <4>2. q.id = r.id
          BY <2>1, <2>2, <3>3, <4>1 DEF Retrying, Hand
        <4>3. IsDue(r, c)  BY <2>1, <3>3, <4>1 DEF Owing, IsDue, Hand
        <4> QED BY <3>1, <4>2, <4>3 DEF DueInv, IsDue
      <3> QED BY <2>3, <3>2, <3>3
    <2> QED BY <2>1, <2>3 DEF DueInv, IsDue
  <1>7. CASE Steps
    <2>0. UNCHANGED due /\ job.stage # "idle"  BY <1>7, StepFrame DEF loopVars
    <2>1. ASSUME NEW r \in due, NEW c \in Channels, Retrying(r.id)', Owing(c)'
          PROVE  IsDue(r, c)
      <3>1. job' # Idle  BY <2>1 DEF Retrying, Idle
      <3>2. Owing(c)  BY <1>7, <2>1, <3>1, OwingShrinks
      <3>3. job'.e = job.e /\ job'.path = job.path /\ job \in Job  BY <1>7, <3>1, StepFrame
      <3>4. job.stage \in {"send", "settle"}
        <4>1. job.path = "retry" /\ job'.stage \in {"send", "settle"}
          BY <2>1, <3>3 DEF Retrying
        <4>2. job.stage \notin {"archive", "ack"}  BY <4>1 DEF JobInv, JobShape
        <4>3. job.stage # "mark"  BY <1>7, <3>1, <4>2
              DEF Steps, Send, SendSkipped, SendFails, SendAnswerLost, SendsDone, Archive,
                  ArchiveFails, Ack, Settle, SettleFails, MarkSent
        <4> QED BY <2>0, <3>3, <4>2, <4>3 DEF Job, Stages
      <3>5. Retrying(r.id)  BY <2>1, <3>3, <3>4 DEF Retrying
      <3> QED BY <3>2, <3>5 DEF DueInv
    <2>2. ASSUME NEW r \in due, NEW c \in Channels, HasKey(r.id, c)'
          PROVE  IsDue(r, c)
      <3>1. CASE HasKey(r.id, c)  BY <3>1 DEF DueInv
      <3>2. CASE Settle /\ r.id = IdOf[job.e]
        <4>1. Owing(c)
          <5>1. r.id \in Ids  BY DEF TypeInv, TypeOK, LoopOK, DueState
          <5> QED BY <2>2, <3>2, <5>1, SettleOwes
        <4>2. Retrying(r.id)  BY <2>0, <3>2 DEF Retrying, Settle, JobInv, PhaseInv
        <4> QED BY <4>1, <4>2 DEF DueInv
      <3>3. CASE Settle /\ r.id # IdOf[job.e]
        <4>1. retry'[r.id] = retry[r.id]
          <5>1. r.id \in Ids  BY DEF TypeInv, TypeOK, LoopOK, DueState
          <5> QED BY <3>3, <5>1, SettleKeys
        <4> QED BY <2>2, <3>1, <4>1 DEF HasKey
      <3>4. CASE UNCHANGED retry
        BY <2>2, <3>1, <3>4 DEF HasKey
      <3> QED BY <1>7, <3>2, <3>3, <3>4
              DEF Steps, Send, SendSkipped, SendFails, SendAnswerLost, SendsDone, Archive,
                  ArchiveFails, Ack, SettleFails, MarkSent, storeVars
    <2> QED BY <2>0, <2>1, <2>2 DEF DueInv, IsDue
  <1> QED BY <1>1, <1>2, <1>3, <1>4, <1>5, <1>6, <1>7
          DEF Next, Daemon, Environment, SaveSettings, Append, Trim, BackoffEnds, WindowSlides, Crash,
              storeVars, loopVars, vars

(* A failure pays for one right; what does not fail costs nothing.         *)
LEMMA Paid ==
  ASSUME TypeInv
  PROVE  /\ NoFault => budget' = budget
         /\ \A kind : Fault(kind) => budget' + 1 = budget
         /\ \A e : Undelivered(e) => budget' <= budget
  <1>1. budget \in Nat  BY DEF TypeInv, TypeOK, FaultOK
  <1> QED BY <1>1 DEF NoFault, Fault, Undelivered, faultVars

LEMMA PaysKept ==
  ASSUME TypeInv, TypeInv', UNCHANGED <<retry, due, job, how, sends>>, budget' <= budget,
         NEW id \in Ids, NEW c \in Channels
  PROVE  Pays(id, c)
  <1>1. /\ OwedByKey(id, c)' = OwedByKey(id, c) /\ OwedByJob(id, c)' = OwedByJob(id, c)
        /\ OwedByDue(id, c, 1)' = OwedByDue(id, c, 1)
        /\ OwedByDue(id, c, 2)' = OwedByDue(id, c, 2) /\ Open(id)' = Open(id)
    BY PartsKept
  <1>2. Cardinality(Open(id))' = Cardinality(Open(id)) /\ sends'[id][c] = sends[id][c]
    BY <1>1
  <1> QED BY <1>1, <1>2, WeightType DEF Pays, Weight

LEMMA PaysEnvironment ==
  ASSUME TypeInv, TypeInv', JobInv, DueInv, Environment, NEW id \in Ids, NEW c \in Channels
  PROVE  Pays(id, c)
  <1>1. CASE UNCHANGED <<retry, due, job, how, sends, budget>>
    BY <1>1, PaysKept, WeightType
  <1>2. ASSUME NEW i \in Ids, RetryKeyExpires(i) PROVE Pays(id, c)
    <2>1. ClearRetry(i) /\ UNCHANGED <<due, job, how, sends>> /\ budget' <= budget
      BY <1>2, Paid, WeightType DEF RetryKeyExpires, ClearRetry, loopVars, historyVars
    <2>2. HasKey(id, c)' => HasKey(id, c)
      BY <2>1, ClearKey DEF HasKey, NoRetry
    <2>3. Covered(id)' <=> Covered(id)  BY <2>1 DEF Covered, Retrying
    <2>4. OwedByKey(id, c)' <= OwedByKey(id, c)
      BY <2>2, <2>3 DEF OwedByKey, Bit
    <2>5. /\ OwedByJob(id, c)' = OwedByJob(id, c) /\ OwedByDue(id, c, 1)' = OwedByDue(id, c, 1)
          /\ OwedByDue(id, c, 2)' = OwedByDue(id, c, 2) /\ Open(id)' = Open(id)
      BY <2>1, PartsKept
    <2>6. Cardinality(Open(id))' = Cardinality(Open(id)) /\ sends'[id][c] = sends[id][c]
      BY <2>1, <2>5
    <2> QED BY <2>1, <2>4, <2>5, <2>6, WeightType DEF Pays, Weight
  <1>3. CASE Crash
    <2>1. /\ UNCHANGED <<retry, how, sends>> /\ due' = {} /\ job' = Idle /\ budget' + 1 = budget
      BY <1>3, Paid DEF Crash, storeVars, historyVars
    <2>2. /\ OwedByDue(id, c, 1)' = 0 /\ OwedByDue(id, c, 2)' = 0 /\ OwedByJob(id, c)' = 0
      BY <2>1 DEF OwedByDue, OwedByJob, Bit, Idle
    <2>3. Held' = {} /\ sends'[id][c] = sends[id][c]  BY <2>1 DEF Held, Idle
    <2>4. Open(id)' \subseteq Open(id) \cup {job.e}
      BY <2>1, <2>3 DEF Open, EntriesOf, Held
    <2>5. CASE Covered(id)
      <3>1. Held = {}
        BY <2>5 DEF Covered, Retrying, Held, JobInv, PhaseInv
      <3>2. Cardinality(Open(id))' = Cardinality(Open(id))
        <4>1. Open(id)' = Open(id)  BY <2>1, <2>3, <3>1, PartsKept
        <4> QED BY <4>1
      <3> QED BY <2>1, <2>2, <2>3, <3>2, WeightType DEF Pays, Weight
    <2>6. CASE ~Covered(id)
      <3>1. OwedByKey(id, c)' <= OwedByKey(id, c)
        BY <2>1, <2>6 DEF OwedByKey, HasKey, Bit
      <3>2. Cardinality(Open(id))' <= Cardinality(Open(id)) + 1
        BY <2>4, CountOpen
      <3> QED BY <2>1, <2>2, <2>3, <3>1, <3>2, WeightType DEF Pays, Weight
    <2> QED BY <2>5, <2>6
  <1> QED BY <1>1, <1>2, <1>3
          DEF Environment, SaveSettings, Append, Trim, BackoffEnds, WindowSlides, storeVars, loopVars,
              faultVars, historyVars

LEMMA PaysLoop ==
  ASSUME TypeInv, TypeInv', JobInv, DueInv, Loop, NEW id \in Ids, NEW c \in Channels
  PROVE  Pays(id, c)
  <1>1. CASE Restart \/ Read \/ EndLoop
    <2>1. UNCHANGED <<retry, due, job, how, sends>> /\ budget' <= budget
      BY <1>1, Paid, WeightType DEF Restart, Read, EndLoop, Lost, storeVars, historyVars, NoFault, faultVars
    <2> QED BY <2>1, PaysKept
  <1>2. ASSUME NEW S \in SUBSET pel, Claim(S) PROVE Pays(id, c)
    <2>1. UNCHANGED <<retry, due, job, sends, budget>>
      BY <1>2 DEF Claim, storeVars, faultVars
    <2>2. Open(id)' \subseteq Open(id)
      BY <1>2, <2>1 DEF Claim, Open, EntriesOf, Held
    <2>3. Cardinality(Open(id))' <= Cardinality(Open(id))  BY <2>2, CountOpen
    <2>4. /\ OwedByKey(id, c)' = OwedByKey(id, c) /\ OwedByJob(id, c)' = OwedByJob(id, c)
          /\ OwedByDue(id, c, 1)' = OwedByDue(id, c, 1)
          /\ OwedByDue(id, c, 2)' = OwedByDue(id, c, 2) /\ sends'[id][c] = sends[id][c]
      BY <2>1, PartsKept
    <2> QED BY <2>1, <2>3, <2>4, WeightType DEF Pays, Weight
  <1>3. ASSUME NEW S \in SUBSET Ids, NEW twice \in SUBSET S, Sweep(S, twice) PROVE Pays(id, c)
    <2>1. /\ UNCHANGED <<retry, job, how, sends>> /\ job.stage = "idle" /\ due = {}
          /\ due' = {[id |-> i, entry |-> retry[i].entry, chans |-> retry[i].chans, copy |-> 1] : i \in S}
              \cup  {[id |-> i, entry |-> retry[i].entry, chans |-> retry[i].chans, copy |-> 2] : i \in twice}
          /\ S \subseteq {i \in Ids : retry[i].attempts > 0}
      BY <1>3 DEF Sweep, Free, storeVars, historyVars
    <2>2. Cardinality(Open(id))' = Cardinality(Open(id)) /\ OwedByJob(id, c)' = OwedByJob(id, c)
          /\ sends'[id][c] = sends[id][c]
      BY <2>1, PartsKept
    <2>3. OwedByKey(id, c)' + OwedByDue(id, c, 1)' <= OwedByKey(id, c)
      <3>1. ~Covered(id) /\ (Covered(id)' <=> id \in S)
        <4>1. ~Retrying(id) /\ ~Retrying(id)'  BY <2>1 DEF Retrying
        <4>2. \A r \in due' : r.id \in S  BY <2>1
        <4>3. id \in S => \E r \in due' : r.id = id
          <5> DEFINE r == [id |-> id, entry |-> retry[id].entry, chans |-> retry[id].chans, copy |-> 1]
          <5>1. id \in S => r \in due'  BY <2>1
          <5>2. r.id = id  OBVIOUS
          <5> QED BY <5>1, <5>2
        <4> QED BY <2>1, <4>1, <4>2, <4>3 DEF Covered
      <3>2. HasKey(id, c)' <=> HasKey(id, c)  BY <2>1 DEF HasKey
      <3>3. (\E r \in due' : r.id = id /\ r.copy = 1 /\ IsDue(r, c)) => id \in S /\ HasKey(id, c)
        <4> SUFFICES ASSUME NEW r \in due', r.id = id, r.copy = 1, IsDue(r, c)
                     PROVE  id \in S /\ HasKey(id, c)
          OBVIOUS
        <4>1. r.chans = retry[id].chans /\ id \in S  BY <2>1
        <4> QED BY <2>1, <4>1 DEF IsDue, HasKey
      <3>4. CASE id \in S
        <4>1. OwedByKey(id, c)' = 0  BY <3>1, <3>4 DEF OwedByKey, Bit
        <4>2. OwedByDue(id, c, 1)' <= OwedByKey(id, c)
          BY <3>1, <3>3 DEF OwedByKey, OwedByDue, Bit, IsDue
        <4> QED BY <4>1, <4>2, WeightType
      <3>5. CASE id \notin S
        <4>1. OwedByDue(id, c, 1)' = 0
          BY <3>3, <3>5 DEF OwedByDue, Bit, IsDue
        <4>2. OwedByKey(id, c)' = OwedByKey(id, c)
          BY <3>1, <3>2, <3>5 DEF OwedByKey, Bit
        <4> QED BY <4>1, <4>2, WeightType
      <3> QED BY <3>4, <3>5
    <2>4. OwedByDue(id, c, 2)' + budget' <= budget
      <3>1. CASE twice = {}
        <4>1. budget' = budget  BY <1>3, <3>1, Paid DEF Sweep
        <4>2. \A r \in due' : r.copy # 2  BY <2>1, <3>1
        <4>3. OwedByDue(id, c, 2)' = 0  BY <4>2 DEF OwedByDue, Bit
        <4> QED BY <4>1, <4>3, WeightType
      <3>2. CASE twice # {}
        <4>1. budget' + 1 = budget  BY <1>3, <3>2, Paid DEF Sweep
        <4> QED BY <4>1, WeightType
      <3> QED BY <3>1, <3>2
    <2> QED BY <2>2, <2>3, <2>4, WeightType DEF Pays, Weight
  <1> QED BY <1>1, <1>2, <1>3 DEF Loop

LEMMA PaysGuards ==
  ASSUME TypeInv, TypeInv', JobInv, PendingInv, Guards, NEW id \in Ids, NEW c \in Channels
  PROVE  Pays(id, c)
  <1>1. PICK e \in batch :
          /\ NoFault \/ Undelivered(e)
          /\ e \in Entries
          /\ \/ job' = job
             \/ /\ job'.e = e /\ job'.path = phase
                /\ job'.stage \in {"send", "archive", "ack"}
    BY GuardSteps DEF Hand
  <1>2. /\ UNCHANGED <<retry, due, how, sends>> /\ due = {} /\ job.stage = "idle"
        /\ phase \in {"main", "claim"}
    BY GuardSteps DEF JobInv, PhaseInv
  <1>3. budget' <= budget  BY <1>1, Paid, WeightType
  <1>4. CASE job' = job  BY <1>2, <1>3, <1>4, PaysKept
  <1>5. CASE job'.e = e /\ job'.path = phase /\ job'.stage \in {"send", "archive", "ack"}
    <2>1. ~Retrying(id) /\ ~Retrying(id)'  BY <1>2, <1>5 DEF Retrying
    <2>2. /\ OwedByKey(id, c)' = OwedByKey(id, c) /\ OwedByDue(id, c, 1)' = OwedByDue(id, c, 1)
          /\ OwedByDue(id, c, 2)' = OwedByDue(id, c, 2) /\ sends'[id][c] = sends[id][c]
      BY <1>2, <2>1, PartsKept
    <2>3. Held = {} /\ Held' = {e}  BY <1>2, <1>5 DEF Held
    <2>4. OwedByJob(id, c) = 0  BY <1>2 DEF OwedByJob, Bit
    <2>5. how[e] = "none"  BY DEF PendingInv, PelOK, HoldsPending
    <2>6. Open(id)' \subseteq Open(id) \ {e}
      BY <1>2, <2>3 DEF Open, EntriesOf
    <2>7. CASE IdOf[e] = id
      <3>1. e \in Open(id)  BY <1>1, <2>3, <2>5, <2>7 DEF Open, EntriesOf
      <3>2. Cardinality(Open(id))' + 1 <= Cardinality(Open(id))  BY <2>6, <3>1, CountOpen
      <3> QED BY <1>3, <2>2, <2>4, <3>2, WeightType DEF Pays, Weight
    <2>8. CASE IdOf[e] # id
      <3>1. OwedByJob(id, c)' = 0  BY <1>5, <2>8 DEF OwedByJob, Bit
      <3>2. Cardinality(Open(id))' <= Cardinality(Open(id))
        <4>1. Open(id)' \subseteq Open(id)  BY <2>6
        <4> QED BY <4>1, CountOpen
      <3> QED BY <1>3, <2>2, <2>4, <3>1, <3>2, WeightType DEF Pays, Weight
    <2> QED BY <2>7, <2>8
  <1> QED BY <1>1, <1>4, <1>5

LEMMA PaysRetries ==
  ASSUME TypeInv, TypeInv', JobInv, DueInv, Retries, NEW id \in Ids, NEW c \in Channels
  PROVE  Pays(id, c)
  <1>1. PICK r \in due :
          /\ due' = due \ {r} /\ r \in DueState
          /\ \/ job' = job /\ (NoFault \/ Fault("valkey"))
             \/ /\ NoFault
                /\ \/ job' = Hand("settle", "retry", r.entry, {}, {}, {}, "trimmed")
                   \/ job' = Hand("settle", "retry", r.entry, {}, r.chans, {}, "error")
                   \/ \E todo \in SUBSET Channels, skip \in {{}, {All}} :
                        /\ job' = Hand("send", "retry", r.entry, todo, {}, skip, "none")
                        /\ todo \subseteq r.chans \/ r.chans = {}
    BY RetrySteps
  <1>2. UNCHANGED <<retry, how, sends>> /\ job.stage = "idle" /\ IdOf[r.entry] = r.id
    BY RetrySteps DEF JobInv, KeyInv
  <1>3. budget' <= budget  BY <1>1, Paid, WeightType
  <1>4. r.copy \in {1, 2} /\ r.id \in Ids  BY <1>1 DEF DueState
  <1>5. job' = job \/ (job'.path = "retry" /\ job'.e = r.entry /\ job'.stage \in {"settle", "send"})
    BY <1>1 DEF Hand
  <1>6. Cardinality(Open(id))' = Cardinality(Open(id)) /\ sends'[id][c] = sends[id][c]
    <2>1. Held = {} /\ Held' = {}  BY <1>2, <1>5 DEF Held
    <2>2. Open(id)' = Open(id)  BY <1>2, <2>1, PartsKept
    <2> QED BY <1>2, <2>2
  <1>7. /\ OwedByJob(id, c) = 0
        /\ job' = job => OwedByJob(id, c)' = 0
        /\ id # r.id => OwedByJob(id, c)' = 0
    BY <1>2, <1>5 DEF OwedByJob, Bit
  <1>8. ~Retrying(id) /\ (job' # job => (Retrying(id)' <=> id = r.id))
    BY <1>2, <1>5 DEF Retrying
  <1>9. HasKey(id, c)' <=> HasKey(id, c)  BY <1>2 DEF HasKey
  <1>10. OwedByDue(id, c, 1)' <= OwedByDue(id, c, 1) /\ OwedByDue(id, c, 2)' <= OwedByDue(id, c, 2)
    BY <1>1 DEF OwedByDue, Bit, IsDue
  <1>11. CASE id # r.id
    <2>1. Covered(id)' <=> Covered(id)
      <3>1. ~Retrying(id)'
        BY <1>2, <1>8, <1>11 DEF Retrying
      <3> QED BY <1>1, <1>8, <1>11, <3>1 DEF Covered
    <2>2. OwedByKey(id, c)' = OwedByKey(id, c)  BY <1>9, <2>1 DEF OwedByKey
    <2> QED BY <1>3, <1>6, <1>7, <1>10, <1>11, <2>2, WeightType DEF Pays, Weight
  <1>12. CASE id = r.id
    <2>1. OwedByKey(id, c) = 0  BY <1>12 DEF OwedByKey, Covered, Bit
    <2>2. IsDue(r, c) =>
            OwedByDue(id, c, 1)' + OwedByDue(id, c, 2)' + 1 <= OwedByDue(id, c, 1) + OwedByDue(id, c, 2)
      <3> SUFFICES ASSUME IsDue(r, c)
                   PROVE  OwedByDue(id, c, 1)' + OwedByDue(id, c, 2)' + 1
                            <= OwedByDue(id, c, 1) + OwedByDue(id, c, 2)
        OBVIOUS
      <3>1. \A q \in due' : q.id = id => q.copy # r.copy
        BY <1>1, <1>12 DEF DueInv
      <3>2. CASE r.copy = 1
        <4>1. OwedByDue(id, c, 1) = 1 /\ OwedByDue(id, c, 1)' = 0
          BY <1>12, <3>1, <3>2 DEF OwedByDue, Bit
        <4> QED BY <1>10, <4>1, WeightType
      <3>3. CASE r.copy = 2
        <4>1. OwedByDue(id, c, 2) = 1 /\ OwedByDue(id, c, 2)' = 0
          BY <1>12, <3>1, <3>3 DEF OwedByDue, Bit
        <4> QED BY <1>10, <4>1, WeightType
      <3> QED BY <1>4, <3>2, <3>3
    <2>3. OwedByKey(id, c)' + OwedByJob(id, c)' <= IF IsDue(r, c) THEN 1 ELSE 0
      <3>1. CASE job' = job
        <4>1. HasKey(id, c) => IsDue(r, c)  BY <1>12 DEF DueInv
        <4>2. OwedByKey(id, c)' <= IF IsDue(r, c) THEN 1 ELSE 0
          BY <1>9, <4>1 DEF OwedByKey, Bit
        <4> QED BY <1>7, <3>1, <4>2, WeightType
      <3>2. CASE job' # job
        <4>1. OwedByKey(id, c)' = 0  BY <1>8, <1>12, <3>2 DEF OwedByKey, Covered, Bit
        <4>2. Owing(c)' => IsDue(r, c)
          BY <1>1, <3>2 DEF Owing, IsDue, Hand
        <4>3. OwedByJob(id, c)' <= IF IsDue(r, c) THEN 1 ELSE 0
          BY <4>2 DEF OwedByJob, Bit
        <4> QED BY <4>1, <4>3, WeightType
      <3> QED BY <3>1, <3>2
    <2>4. CASE IsDue(r, c)
      BY <1>3, <1>6, <1>7, <2>1, <2>2, <2>3, <2>4, WeightType DEF Pays, Weight
    <2>5. CASE ~IsDue(r, c)
      BY <1>3, <1>6, <1>7, <1>10, <2>1, <2>3, <2>5, WeightType DEF Pays, Weight
    <2> QED BY <2>4, <2>5
  <1> QED BY <1>11, <1>12

(* What a step of the job in hand does, whichever it is.                   *)
LEMMA StepParts ==
  ASSUME TypeInv, TypeInv', Steps, NEW id \in Ids, NEW c \in Channels
  PROVE  /\ OwedByDue(id, c, 1)' = OwedByDue(id, c, 1) /\ OwedByDue(id, c, 2)' = OwedByDue(id, c, 2)
         /\ \A e \in Entries : e # job.e => how'[e] = how[e]
         /\ Held \subseteq {job.e} /\ Held' \subseteq {job.e}
         /\ Settle \/ UNCHANGED retry
         /\ budget' <= budget
  <1>0. UNCHANGED due /\ (job' = Idle \/ job'.e = job.e)  BY StepFrame DEF loopVars
  <1>1. OwedByDue(id, c, 1)' = OwedByDue(id, c, 1) /\ OwedByDue(id, c, 2)' = OwedByDue(id, c, 2)
    BY StepFrame, PartsKept DEF loopVars
  <1>2. how \in [Entries -> Settled \cup {"none"}]  BY DEF TypeInv, TypeOK, HowOK
  <1>3. UNCHANGED how \/ how' = [how EXCEPT ![job.e] = SettledAs(job)]
    BY DEF Steps, Send, SendSkipped, SendFails, SendAnswerLost, SendsDone, Archive, ArchiveFails,
           Ack, Settle, SettleFails, MarkSent, historyVars
  <1>4. Settle \/ UNCHANGED retry
    BY DEF Steps, Send, SendSkipped, SendFails, SendAnswerLost, SendsDone, Archive, ArchiveFails,
           Ack, SettleFails, MarkSent, storeVars
  <1>5. NoFault \/ \E kind : Fault(kind)
    BY DEF Steps, Send, SendSkipped, SendFails, SendAnswerLost, SendsDone, Archive, ArchiveFails,
           Ack, Settle, SettleFails, MarkSent, NoFault
  <1>6. budget' <= budget  BY <1>5, Paid, WeightType
  <1>7. Held \subseteq {job.e} /\ Held' \subseteq {job.e}
    BY StepFrame DEF Held, Idle
  <1> QED BY <1>1, <1>2, <1>3, <1>4, <1>6, <1>7

(* The other messages are left alone.                                      *)
LEMMA PaysOthers ==
  ASSUME TypeInv, TypeInv', Steps, NEW id \in Ids, NEW c \in Channels, id # IdOf[job.e]
  PROVE  Pays(id, c)
  <1>0. UNCHANGED due /\ (job' = Idle \/ job'.e = job.e) /\ IdOf[job.e] \in Ids
    BY StepFrame DEF loopVars
  <1>1. ~Retrying(id) /\ ~Retrying(id)' /\ OwedByJob(id, c) = 0 /\ OwedByJob(id, c)' = 0
    BY <1>0 DEF Retrying, OwedByJob, Bit, Idle
  <1>2. retry'[id] = retry[id]  BY StepParts, SettleKeys
  <1>3. OwedByKey(id, c)' = OwedByKey(id, c)
    BY <1>0, <1>1, <1>2 DEF OwedByKey, HasKey, Covered, Bit
  <1>4. Cardinality(Open(id))' = Cardinality(Open(id))
    <2>1. \A e \in EntriesOf(id) : e # job.e /\ e \in Entries  BY DEF EntriesOf
    <2>2. EntriesOf(id)' = EntriesOf(id)  BY DEF EntriesOf
    <2>3. Open(id)' = Open(id)  BY <2>1, <2>2, StepParts DEF Open
    <2> QED BY <2>3
  <1>5. sends'[id][c] = sends[id][c]
    <2>1. \/ UNCHANGED sends
          \/ \E d \in Channels : Deliver(d)
      BY DEF Steps, Send, SendSkipped, SendFails, SendAnswerLost, SendsDone, Archive, ArchiveFails,
             Ack, Settle, SettleFails, MarkSent, historyVars
    <2>2. sends \in [Ids -> [Channels -> Nat]]  BY DEF TypeInv, TypeOK, SendsOK
    <2> QED BY <1>0, <2>1, <2>2 DEF Deliver
  <1> QED BY <1>1, <1>3, <1>4, <1>5, StepParts, WeightType DEF Pays, Weight

(* A channel that is tried loses its right, or is owed on with a failure   *)
(* that pays.                                                              *)
LEMMA PaysTry ==
  ASSUME TypeInv, TypeInv', JobInv, Steps, NEW id \in Ids, NEW c \in Channels, id = IdOf[job.e],
         NEW d \in Channels, Send(d) \/ SendSkipped(d) \/ SendFails(d) \/ SendAnswerLost(d)
  PROVE  Pays(id, c)
  <1>0. UNCHANGED <<due, retry, how>> /\ job \in Job /\ JobShape /\ job.stage = "send" /\ d \in job.todo
    BY StepFrame DEF loopVars, JobInv, Send, SendSkipped, SendFails, SendAnswerLost, storeVars, historyVars
  <1>1. /\ job'.stage = "send" /\ job'.e = job.e /\ job'.path = job.path /\ job'.how = job.how
        /\ job'.todo = job.todo \ {d} /\ job' # Idle
        /\ Send(d) => job'.fail = job.fail
    <2>1. CASE Send(d)         BY <1>0, <2>1 DEF Send, Job, Idle
    <2>2. CASE SendSkipped(d)  BY <1>0, <2>2 DEF SendSkipped, Send, Job, Idle
    <2>3. CASE SendFails(d)    BY <1>0, <2>3 DEF SendFails, Send, Job, Idle
    <2>4. CASE SendAnswerLost(d)
      <3>1. job' = [job EXCEPT !.todo = @ \ {d}, !.fail = @ \cup {d}] /\ ~Send(d)
        <4>1. budget \in Nat  BY DEF TypeInv, TypeOK, FaultOK
        <4> QED BY <2>4, <4>1 DEF SendAnswerLost, Send, NoFault, Fault, faultVars
      <3> QED BY <1>0, <3>1 DEF Job, Idle
    <2> QED BY <2>1, <2>2, <2>3, <2>4
  <1>2. UNCHANGED Held /\ (Retrying(id)' <=> Retrying(id))  BY <1>0, <1>1 DEF Held, Retrying
  <1>3. OwedByKey(id, c)' = OwedByKey(id, c) /\ Open(id)' = Open(id)
    BY <1>0, <1>2, PartsKept
  <1>4. Cardinality(Open(id))' = Cardinality(Open(id))  BY <1>3
  <1>5. OwedByJob(id, c)' <= OwedByJob(id, c)
    <2>1. Owing(c)' => Owing(c)  BY <1>1, OwingShrinks
    <2> QED BY <1>0, <1>1, <2>1 DEF OwedByJob, Bit
  <1>6. CASE UNCHANGED sends
    BY <1>3, <1>4, <1>5, <1>6, StepParts, WeightType DEF Pays, Weight
  <1>7. CASE Deliver(d)
    <2>1. sends'[id][c] = IF c = d THEN sends[id][c] + 1 ELSE sends[id][c]
      BY <1>7 DEF Deliver, TypeInv, TypeOK, SendsOK
    <2>2. CASE c # d
      BY <1>3, <1>4, <1>5, <2>1, <2>2, StepParts, WeightType DEF Pays, Weight
    <2>3. CASE SendAnswerLost(d)
      <3>1. budget' + 1 = budget  BY <2>3, Paid DEF SendAnswerLost
      <3>2. sends'[id][c] <= sends[id][c] + 1  BY <2>1, WeightType
      <3> QED BY <1>3, <1>4, <1>5, <3>1, <3>2, StepParts, WeightType DEF Pays, Weight
    <2>4. CASE Send(d) /\ c = d
      <3>1. OwedByJob(id, c) = 1  BY <1>0, <2>4 DEF OwedByJob, Owing, Bit
      <3>2. ~Owing(c)'  BY <1>0, <1>1, <2>4 DEF Owing, JobShape
      <3>3. OwedByJob(id, c)' = 0  BY <3>2 DEF OwedByJob, Bit
      <3> QED BY <1>3, <1>4, <2>1, <3>1, <3>3, StepParts, WeightType DEF Pays, Weight
    <2>5. ~(SendSkipped(d) \/ SendFails(d))
      <3>1. UNCHANGED sends => sends'[id][d] = sends[id][d]  OBVIOUS
      <3>2. sends'[id][d] = sends[id][d] + 1 /\ sends[id][d] \in Nat
        BY <1>7 DEF Deliver, TypeInv, TypeOK, SendsOK
      <3> QED BY <3>1, <3>2 DEF SendSkipped, SendFails, historyVars
    <2> QED BY <2>2, <2>3, <2>4, <2>5
  <1> QED BY <1>6, <1>7 DEF Send, SendSkipped, SendFails, SendAnswerLost, historyVars

(* An entry acknowledged needs its right no more; one left pending, or let *)
(* go of, is paid for.                                                     *)
LEMMA PaysArchiveAck ==
  ASSUME TypeInv, TypeInv', JobInv, Steps, NEW id \in Ids, NEW c \in Channels, id = IdOf[job.e],
         SendsDone \/ Archive \/ (\E written \in 0 .. 2 : ArchiveFails(written)) \/ Ack
  PROVE  Pays(id, c)
  <1>0. /\ UNCHANGED <<due, retry>> /\ sends'[id][c] = sends[id][c] /\ job \in Job /\ JobShape
        /\ job.stage \in {"send", "archive", "ack"}
        /\ job' # Idle => job'.e = job.e /\ job'.path = job.path
    BY StepFrame DEF loopVars, JobInv, SendsDone, Archive, ArchiveFails, Ack, storeVars, historyVars
  <1>1. OwedByJob(id, c)' <= OwedByJob(id, c)
    <2>1. CASE job' = Idle
      <3>1. OwedByJob(id, c)' = 0  BY <2>1 DEF OwedByJob, Bit, Idle
      <3> QED BY <3>1, WeightType
    <2>2. CASE job' # Idle
      <3>1. Owing(c)' => Owing(c)  BY <2>2, OwingShrinks
      <3> QED BY <1>0, <2>2, <3>1 DEF OwedByJob, Bit
    <2> QED BY <2>1, <2>2
  <1>2. CASE SendsDone \/ (job' = [job EXCEPT !.stage = "ack"] /\ job.stage = "archive" /\ UNCHANGED how)
    <2>1. /\ job'.e = job.e /\ job'.path = job.path /\ UNCHANGED how
          /\ job'.stage = IF job.stage = "archive" THEN "ack"
                          ELSE IF job.path = "retry" THEN "settle" ELSE "archive"
      <3>1. CASE SendsDone
        <4>1. PICK stage, cause :
                /\ job' = [job EXCEPT !.stage = stage, !.how = cause]
                /\ stage = IF job.path = "retry" THEN "settle" ELSE "archive"
          BY <3>1 DEF SendsDone
        <4>2. job.stage = "send" /\ UNCHANGED how  BY <3>1 DEF SendsDone, historyVars
        <4> QED BY <1>0, <4>1, <4>2 DEF Job
      <3> QED BY <1>0, <1>2, <3>1 DEF Job
    <2>2. UNCHANGED Held /\ (Retrying(id)' <=> Retrying(id))
      BY <1>0, <1>2, <2>1 DEF Held, Retrying, JobShape, SendsDone
    <2>3. OwedByKey(id, c)' = OwedByKey(id, c) /\ Open(id)' = Open(id)
      BY <1>0, <2>1, <2>2, PartsKept
    <2>4. Cardinality(Open(id))' = Cardinality(Open(id))  BY <2>3
    <2> QED BY <1>0, <1>1, <2>3, <2>4, StepParts, WeightType DEF Pays, Weight
  <1>3. ASSUME job.stage \in {"archive", "ack"}, UNCHANGED how \/ Ack
        PROVE  /\ OwedByKey(id, c)' = OwedByKey(id, c)
               /\ Open(id)' \subseteq Open(id) \cup {job.e}
    <2>1. ~Retrying(id) /\ ~Retrying(id)'
      BY <1>0, <1>3 DEF Retrying, JobShape, Idle
    <2>2. OwedByKey(id, c)' = OwedByKey(id, c)  BY <1>0, <2>1, PartsKept
    <2>3. \A e \in Entries : e # job.e => how'[e] = how[e]  BY StepParts
    <2>4. Open(id)' \subseteq Open(id) \cup {job.e}
      BY <2>3, StepParts DEF Open, EntriesOf
    <2> QED BY <2>2, <2>4
  <1>4. ASSUME budget' + 1 = budget, job.stage \in {"archive", "ack"}, UNCHANGED how \/ Ack
        PROVE  Pays(id, c)
    <2>1. Cardinality(Open(id))' <= Cardinality(Open(id)) + 1  BY <1>3, <1>4, CountOpen
    <2> QED BY <1>0, <1>1, <1>3, <1>4, <2>1, StepParts, WeightType DEF Pays, Weight
  <1>5. CASE Archive
    BY <1>2, <1>5 DEF Archive, historyVars
  <1>6. ASSUME NEW written \in 0 .. 2, ArchiveFails(written) PROVE Pays(id, c)
    <2>1. budget' + 1 = budget /\ job.stage = "archive" /\ UNCHANGED how
      BY <1>6, Paid DEF ArchiveFails, historyVars
    <2> QED BY <1>4, <2>1
  <1>7. CASE Ack /\ how' = [how EXCEPT ![job.e] = SettledAs(job)]
    <2>1. job.stage = "ack" /\ SettledAs(job) # "none"
      BY <1>0, <1>7 DEF Ack, SettledAs, JobShape, Job
    <2>2. job.e \in Entries /\ how'[job.e] # "none"
      BY <1>7, <2>1, StepFrame DEF TypeInv, TypeOK, HowOK
    <2>3. Open(id)' \subseteq Open(id)
      BY <1>3, <1>7, <2>1, <2>2 DEF Open
    <2>4. Cardinality(Open(id))' <= Cardinality(Open(id))  BY <2>3, CountOpen
    <2> QED BY <1>0, <1>1, <1>3, <1>7, <2>1, <2>4, StepParts, WeightType DEF Pays, Weight
  <1>8. CASE Ack /\ Fault("valkey")
    <2>1. budget' + 1 = budget /\ job.stage = "ack"  BY <1>8, Paid DEF Ack
    <2> QED BY <1>4, <1>8, <2>1
  <1> QED BY <1>2, <1>5, <1>6, <1>7, <1>8 DEF Ack

(* The right of a job whose key is written, goes over to the key.          *)
LEMMA PaysSettle ==
  ASSUME TypeInv, TypeInv', JobInv, Steps, NEW id \in Ids, NEW c \in Channels, id = IdOf[job.e],
         Settle \/ SettleFails \/ MarkSent
  PROVE  Pays(id, c)
  <1>0. /\ UNCHANGED <<due, how>> /\ sends'[id][c] = sends[id][c] /\ job \in Job /\ JobShape
        /\ job.stage \in {"settle", "mark"} /\ job'.stage \in {"idle", "mark"}
    BY StepFrame DEF loopVars, JobInv, Settle, SettleFails, SettleNext, MarkSent, historyVars, Idle, Job
  <1>1. Cardinality(Open(id))' = Cardinality(Open(id))
    <2>1. UNCHANGED Held  BY <1>0 DEF Held
    <2>2. Open(id)' = Open(id)  BY <1>0, <2>1, PartsKept
    <2> QED BY <2>2
  <1>2. OwedByJob(id, c)' = 0 /\ ~Retrying(id)'
    BY <1>0 DEF OwedByJob, Retrying, Bit
  <1>3. CASE Settle
    <2>1. HasKey(id, c)' => Owing(c)  BY <1>3, SettleOwes
    <2>2. OwedByKey(id, c)' <= OwedByJob(id, c)
      BY <1>3, <2>1 DEF OwedByKey, OwedByJob, Settle, Bit
    <2> QED BY <1>0, <1>1, <1>2, <2>2, StepParts, WeightType DEF Pays, Weight
  <1>4. CASE SettleFails
    <2>1. budget' + 1 = budget  BY <1>4, Paid DEF SettleFails
    <2> QED BY <1>0, <1>1, <1>2, <2>1, StepParts, WeightType DEF Pays, Weight
  <1>5. CASE MarkSent
    <2>1. ~Retrying(id) /\ UNCHANGED retry  BY <1>5 DEF Retrying, MarkSent
    <2>2. OwedByKey(id, c)' = OwedByKey(id, c)  BY <1>0, <1>2, <2>1, PartsKept
    <2> QED BY <1>0, <1>1, <1>2, <2>2, StepParts, WeightType DEF Pays, Weight
  <1> QED BY <1>3, <1>4, <1>5

LEMMA PaysNext ==
  ASSUME TypeInv, JobInv, PendingInv, DueInv, [Next]_vars, NEW id \in Ids, NEW c \in Channels
  PROVE  Pays(id, c)
  <1>0. TypeInv'  BY TypeNext
  <1>1. CASE UNCHANGED vars
    BY <1>0, <1>1, PaysKept, WeightType DEF vars, storeVars, loopVars, historyVars, faultVars
  <1>2. CASE Environment  BY <1>0, <1>2, PaysEnvironment
  <1>3. CASE Loop         BY <1>0, <1>3, PaysLoop
  <1>4. CASE Guards       BY <1>0, <1>4, PaysGuards
  <1>5. CASE Retries      BY <1>0, <1>5, PaysRetries
  <1>6. CASE Steps /\ id # IdOf[job.e]  BY <1>0, <1>6, PaysOthers
  <1>7. CASE Steps /\ id = IdOf[job.e]
    BY <1>0, <1>7, PaysTry, PaysArchiveAck, PaysSettle DEF Steps
  <1> QED BY <1>1, <1>2, <1>3, <1>4, <1>5, <1>6, <1>7 DEF Next, Daemon

LEMMA ChargedInit == Init => Charged
  <1> SUFFICES ASSUME Init, NEW id \in Ids, NEW c \in Channels
               PROVE  Weight(id, c) <= Cardinality(EntriesOf(id)) + (MaxFaults - budget)
    BY DEF Charged
  <1>1. sends[id][c] = 0 /\ budget = MaxFaults  BY DEF Init
  <1>2. OwedByKey(id, c) = 0  BY DEF Init, OwedByKey, HasKey, Bit, NoRetry
  <1>3. OwedByDue(id, c, 1) = 0 /\ OwedByDue(id, c, 2) = 0  BY DEF Init, OwedByDue, Bit
  <1>4. OwedByJob(id, c) = 0  BY DEF Init, OwedByJob, Bit, Idle
  <1>5. /\ Cardinality(Open(id)) <= Cardinality(EntriesOf(id))
        /\ Cardinality(Open(id)) \in Nat /\ Cardinality(EntriesOf(id)) \in Nat
    BY CountOpen, EntriesFinite
  <1> QED BY <1>1, <1>2, <1>3, <1>4, <1>5 DEF Weight

LEMMA ChargedNext ==
  TypeInv /\ JobInv /\ PendingInv /\ DueInv /\ Charged /\ [Next]_vars => Charged'
  <1> SUFFICES ASSUME TypeInv, JobInv, PendingInv, DueInv, Charged, [Next]_vars,
                      NEW id \in Ids, NEW c \in Channels
               PROVE  Weight(id, c)' <= Cardinality(EntriesOf(id)) + (MaxFaults - budget')
    <2>1. \A id : EntriesOf(id)' = EntriesOf(id)  BY DEF EntriesOf
    <2> QED BY <2>1 DEF Charged
  <1>0. TypeInv'  BY TypeNext
  <1>1. Weight(id, c)' + budget' <= Weight(id, c) + budget  BY PaysNext DEF Pays
  <1>2. Weight(id, c) <= Cardinality(EntriesOf(id)) + (MaxFaults - budget)  BY DEF Charged
  <1>3. Weight(id, c) \in Nat /\ Weight(id, c)' \in Nat  BY <1>0, WeightType DEF Weight
  <1>4. Cardinality(EntriesOf(id)) \in Nat /\ budget \in Nat /\ budget' \in Nat
    BY <1>0, EntriesFinite, WeightType
  <1> QED BY <1>1, <1>2, <1>3, <1>4

(* However the reads, claims, sweeps and retries of the daemon interleave  *)
(* with redelivery, a channel gets a message once for every entry that     *)
(* carries it and once more for every failure or crash, and no oftener.    *)
THEOREM DuplicatesPaidFor == Spec => []DuplicatesExplained
  <1> DEFINE IInv == TypeInv /\ JobInv /\ FenceInv /\ PendingInv /\ DueInv /\ Charged
  <1>1. IInv => DuplicatesExplained
    <2> SUFFICES ASSUME IInv, NEW id \in Ids, NEW c \in Channels
                 PROVE  sends[id][c] <= Cardinality(EntriesOf(id)) + (MaxFaults - budget)
      BY DEF DuplicatesExplained
    <2>1. Weight(id, c) <= Cardinality(EntriesOf(id)) + (MaxFaults - budget)  BY DEF Charged
    <2>2. sends[id][c] \in Nat /\ Cardinality(Open(id)) \in Nat /\ Cardinality(EntriesOf(id)) \in Nat
      BY CountOpen, EntriesFinite DEF TypeInv, TypeOK, SendsOK
    <2>3. OwedByKey(id, c) \in {0, 1} /\ OwedByJob(id, c) \in {0, 1}
      BY DEF OwedByKey, OwedByJob, Bit
    <2>5. OwedByDue(id, c, 1) \in {0, 1} /\ OwedByDue(id, c, 2) \in {0, 1}
      BY DEF OwedByDue, Bit
    <2>4. budget \in Nat  BY DEF TypeInv, TypeOK, FaultOK
    <2>6. Weight(id, c) \in Nat /\ sends[id][c] <= Weight(id, c)
      BY <2>2, <2>3, <2>5 DEF Weight
    <2> QED BY <2>1, <2>2, <2>4, <2>6
  <1>2. Init => IInv  BY TypeInit, JobInit, FenceInit, PendingInit, DueInit, ChargedInit
  <1>3. IInv /\ [Next]_vars => IInv'
    BY TypeNext, JobNext, FenceNext, PendingNext, DueNext, ChargedNext
  <1> QED BY <1>1, <1>2, <1>3, PTL DEF Spec
=============================================================================
