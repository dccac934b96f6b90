---------------------------- MODULE IntakeProofs ----------------------------
(***************************************************************************)
(* What stands between a site's stream and the dispatch of its message:    *)
(* the consumer group, the spam filter, the sliding window. For all sites, *)
(* counts, lists and bounds, what was acknowledged never comes back,       *)
(* configured lists only add to the built-in ones, no allowance is given   *)
(* twice and a refusal has a cause.                                        *)
(***************************************************************************)
EXTENDS RateLimiter, SiteStreams, SpamFilter, FiniteSetTheorems, TLAPS

(* The sliding window of RateLimiter.                                      *)

(* Admissions keep their order in time, and the map holds every one that   *)
(* still counts: whatever was pruned or evicted was out of the window.     *)
Ordered ==
  \A s \in Callers :
    /\ \A n \in DOMAIN admitted[s] : admitted[s][n] <= clock
    /\ \A m, n \in DOMAIN admitted[s] : m <= n => admitted[s][m] <= admitted[s][n]

Complete ==
  \A s \in Callers : Recent(s) # {} => s \in DOMAIN windows /\ Recent(s) \subseteq windows[s]

LimiterInv == LimiterTypeOK /\ Ordered /\ Complete /\ AllowanceKept

(* What a prune of an entry leaves is what counts.                         *)
LEMMA FreshIsRecent ==
  ASSUME LimiterInv, NEW s \in Callers
  PROVE  /\ s \in DOMAIN windows => Fresh(s) = Recent(s)
         /\ s \in LiveEntries <=> Recent(s) # {}
  BY DEF LimiterInv, LimiterTypeOK, Complete, Recent, Fresh, LiveEntries

LEMMA EntryIsRecent ==
  ASSUME LimiterInv, NEW s \in Callers
  PROVE  Entry(s) = Recent(s)
  BY FreshIsRecent DEF Entry, LiveEntries

LEMMA RecentFinite ==
  ASSUME LimiterInv, NEW s \in Callers
  PROVE  IsFiniteSet(Recent(s)) /\ Cardinality(Recent(s)) \in Nat
  <1>1. Len(admitted[s]) \in Nat /\ DOMAIN admitted[s] = 1 .. Len(admitted[s])
    BY DEF LimiterInv, LimiterTypeOK
  <1>2. IsFiniteSet(1 .. Len(admitted[s]))  BY <1>1, FS_Interval
  <1>3. Recent(s) \in SUBSET (1 .. Len(admitted[s]))  BY <1>1 DEF Recent
  <1> QED BY <1>2, <1>3, FS_Subset, FS_CardinalityType

-----------------------------------------------------------------------------
(* A call that is admitted leaves the allowance kept: had the site used it *)
(* up, its last MaxPerWindow admissions would all still count, and the     *)
(* entry would not have been short of the allowance.                       *)
LEMMA AdmittedInTime ==
  ASSUME LimiterInv, LimiterAssumption, NEW s \in Callers,
         Cardinality(Entry(s)) < MaxPerWindow,
         Len(admitted[s]) + 1 > MaxPerWindow
  PROVE  admitted[s][Len(admitted[s]) + 1 - MaxPerWindow] + WindowTicks <= clock
  <1> DEFINE len  == Len(admitted[s])
             last == (len + 1 - MaxPerWindow) .. len
  <1>1. admitted[s] \in Seq(Nat) /\ len \in Nat /\ DOMAIN admitted[s] = 1 .. len
    BY DEF LimiterInv, LimiterTypeOK
  <1>2. clock \in Nat /\ MaxPerWindow \in Nat /\ WindowTicks \in Nat
    BY DEF LimiterInv, LimiterTypeOK, LimiterAssumption
  <1>3. Cardinality(Recent(s)) < MaxPerWindow  BY EntryIsRecent
  <1>4. MaxPerWindow > 0  BY <1>2, <1>3, RecentFinite
  <1>5. len + 1 - MaxPerWindow \in DOMAIN admitted[s]  BY <1>1, <1>2, <1>4
  <1> SUFFICES ASSUME ~ (admitted[s][len + 1 - MaxPerWindow] + WindowTicks <= clock) PROVE FALSE
    OBVIOUS
  <1>6. ASSUME NEW n \in last PROVE n \in Recent(s)
    <2>1. n \in DOMAIN admitted[s] /\ len + 1 - MaxPerWindow <= n  BY <1>1, <1>2, <1>4, <1>5
    <2>2. admitted[s][len + 1 - MaxPerWindow] <= admitted[s][n]
      BY <1>5, <2>1 DEF LimiterInv, Ordered
    <2>3. \A i \in DOMAIN admitted[s] : admitted[s][i] \in Nat  BY SMTT(20) DEF LimiterInv, LimiterTypeOK
    <2> QED BY <1>2, <1>5, <2>1, <2>2, <2>3 DEF Recent, Within
  <1>7. Cardinality(last) = MaxPerWindow  BY <1>1, <1>2, <1>4, FS_Interval
  <1>8. Cardinality(last) <= Cardinality(Recent(s))
    <2>1. last \in SUBSET Recent(s)  BY <1>6
    <2> HIDE DEF last
    <2> QED BY <2>1, RecentFinite, FS_Subset
  <1> QED BY <1>2, <1>3, <1>7, <1>8, RecentFinite

LEMMA LimiterBegins == LimiterInit => LimiterInv
  BY DEF LimiterInit, LimiterInv, LimiterTypeOK, Ordered, Complete, Recent, AllowanceKept

LEMMA LimiterTick == LimiterAssumption /\ LimiterInv /\ Tick => LimiterInv'
  <1> SUFFICES ASSUME LimiterAssumption, LimiterInv, Tick PROVE LimiterInv'
    OBVIOUS
  <1> USE DEF LimiterInv, Tick
  <1>1. LimiterTypeOK'  BY DEF LimiterTypeOK
  <1>2. Ordered'  BY DEF LimiterTypeOK, Ordered
  <1>3. \A s \in Callers : Recent(s)' \subseteq Recent(s)
    BY DEF LimiterTypeOK, LimiterAssumption, Recent, Within
  <1>4. Complete'  BY <1>3 DEF Complete
  <1>5. AllowanceKept'  BY DEF AllowanceKept
  <1> QED BY <1>1, <1>2, <1>4, <1>5

LEMMA LimiterAcquire ==
  ASSUME LimiterAssumption, LimiterInv, NEW site \in Callers, TryAcquire(site)
  PROVE  LimiterInv'
  <1> DEFINE admit == site \in Tracked(site) /\ Cardinality(Entry(site)) < MaxPerWindow
             len   == Len(admitted[site])
  <1>1. /\ clock' = clock
        /\ admitted' = [admitted EXCEPT ![site] = IF admit THEN Append(@, clock) ELSE @]
        /\ windows' = [s \in Tracked(site) |->
                         IF s # site THEN windows[s]
                         ELSE IF admit THEN Entry(site) \cup {len + 1} ELSE Entry(site)]
        /\ limited' \in [Callers -> Nat] /\ calls' \in Nat
    BY DEF TryAcquire, LimiterInv, LimiterTypeOK
  <1> HIDE DEF admit
  <1>2. /\ admitted \in [Callers -> Seq(Nat)] /\ clock \in Nat
        /\ \A s \in Callers : Len(admitted[s]) \in Nat /\ DOMAIN admitted[s] = 1 .. Len(admitted[s])
    BY DEF LimiterInv, LimiterTypeOK
  <1>3. admitted' \in [Callers -> Seq(Nat)]  BY <1>1, <1>2
  <1>4. \A s \in Callers : ~ (s = site /\ admit) => admitted'[s] = admitted[s]
    BY <1>1, <1>2
  <1>5. ASSUME admit
        PROVE  /\ DOMAIN admitted'[site] = 1 .. (len + 1) /\ admitted'[site][len + 1] = clock
               /\ \A n \in 1 .. len : admitted'[site][n] = admitted[site][n]
    BY <1>1, <1>2, <1>5
  <1>6. Tracked(site) \subseteq Callers /\ Entry(site) \subseteq DOMAIN admitted[site]
    BY DEF Tracked, LiveEntries, Entry, Fresh, LimiterInv, LimiterTypeOK
  <1>7. LimiterTypeOK'
    <2>1. \A s \in Tracked(site) : windows'[s] \subseteq DOMAIN admitted'[s]
      <3> TAKE s \in Tracked(site)
      <3>1. CASE s # site
        <4>1. s \in DOMAIN windows  BY <3>1 DEF Tracked, LiveEntries
        <4> QED BY <1>1, <1>4, <1>6, <3>1, <4>1 DEF LimiterInv, LimiterTypeOK
      <3>2. CASE s = site /\ admit  BY <1>1, <1>2, <1>5, <1>6, <3>2
      <3>3. CASE s = site /\ ~admit  BY <1>1, <1>4, <1>6, <3>3
      <3> QED BY <3>1, <3>2, <3>3
    <2>2. DOMAIN windows' = Tracked(site)  BY <1>1
    <2> QED BY <1>1, <1>2, <1>3, <1>6, <2>1, <2>2 DEF LimiterTypeOK
  <1>8. Ordered'
    <2> SUFFICES ASSUME NEW s \in Callers
                 PROVE  /\ \A n \in DOMAIN admitted'[s] : admitted'[s][n] <= clock
                        /\ \A m, n \in DOMAIN admitted'[s] :
                             m <= n => admitted'[s][m] <= admitted'[s][n]
      BY <1>1 DEF Ordered
    <2>1. CASE ~ (s = site /\ admit)  BY <1>4, <2>1 DEF LimiterInv, Ordered
    <2>2. CASE s = site /\ admit
      <3>1. \A n \in 1 .. len : admitted'[site][n] <= clock
        BY <1>2, <1>5, <2>2 DEF LimiterInv, Ordered
      <3>2. \A m, n \in 1 .. len : m <= n => admitted'[site][m] <= admitted'[site][n]
        BY <1>2, <1>5, <2>2 DEF LimiterInv, Ordered
      <3>3. \A n \in 1 .. (len + 1) : n \in 1 .. len \/ n = len + 1  BY <1>2
      <3>4. ASSUME NEW m \in 1 .. (len + 1), NEW n \in 1 .. (len + 1), m <= n
            PROVE  admitted'[site][m] <= admitted'[site][n]
        <4>1. CASE n \in 1 .. len
          <5>1. m \in 1 .. len  BY <1>2, <3>3, <3>4, <4>1
          <5> QED BY <3>2, <3>4, <4>1, <5>1
        <4>2. CASE n = len + 1 /\ m \in 1 .. len  BY <1>5, <2>2, <3>1, <4>2
        <4>3. CASE n = len + 1 /\ m = len + 1  BY <1>2, <1>5, <2>2, <4>3
        <4> QED BY <3>3, <4>1, <4>2, <4>3
      <3>5. \A n \in 1 .. (len + 1) : admitted'[site][n] <= clock
        BY <1>2, <1>5, <2>2, <3>1, <3>3
      <3> QED BY <1>5, <2>2, <3>4, <3>5
    <2> QED BY <2>1, <2>2
  <1>9. Complete'
    <2> SUFFICES ASSUME NEW s \in Callers, Recent(s)' # {}
                 PROVE  s \in Tracked(site) /\ Recent(s)' \subseteq windows'[s]
      BY <1>1 DEF Complete
    <2>1. CASE ~ (s = site /\ admit)
      <3>1. Recent(s)' = Recent(s)  BY <1>1, <1>4, <2>1 DEF Recent, Within
      <3>2. s \in LiveEntries  BY <3>1, FreshIsRecent
      <3>3. s \in Tracked(site) /\ s \in DOMAIN windows  BY <3>2 DEF Tracked, LiveEntries
      <3>4. CASE s # site  BY <1>1, <3>1, <3>3, <3>4 DEF LimiterInv, Complete
      <3>5. CASE s = site  BY <1>1, <2>1, <3>1, <3>3, <3>5, EntryIsRecent
      <3> QED BY <3>4, <3>5
    <2>2. CASE s = site /\ admit
      <3>1. s \in Tracked(site) /\ windows'[s] = Entry(site) \cup {len + 1}
        BY <1>1, <2>2 DEF admit
      <3>2. Recent(s)' \subseteq Recent(s) \cup {len + 1}
        BY <1>1, <1>2, <1>5, <2>2 DEF Recent, Within
      <3> QED BY <2>2, <3>1, <3>2, EntryIsRecent
    <2> QED BY <2>1, <2>2
  <1>10. AllowanceKept'
    <2> SUFFICES ASSUME NEW s \in Callers, NEW n \in DOMAIN admitted'[s], n > MaxPerWindow
                 PROVE  admitted'[s][n - MaxPerWindow] + WindowTicks <= admitted'[s][n]
      BY DEF AllowanceKept
    <2>1. CASE ~ (s = site /\ admit)  BY <1>4, <2>1 DEF LimiterInv, AllowanceKept
    <2>2. CASE s = site /\ admit /\ n # len + 1
      <3>1. n \in 1 .. len /\ n - MaxPerWindow \in 1 .. len
        BY <1>2, <1>5, <2>2 DEF LimiterAssumption
      <3> QED BY <1>2, <1>5, <2>2, <3>1 DEF LimiterInv, AllowanceKept
    <2>3. CASE s = site /\ admit /\ n = len + 1
      <3>1. Cardinality(Entry(site)) < MaxPerWindow  BY <2>3 DEF admit
      <3>2. admitted[site][len + 1 - MaxPerWindow] + WindowTicks <= clock
        BY <2>3, <3>1, AdmittedInTime
      <3>3. MaxPerWindow > 0  BY <3>1, EntryIsRecent, RecentFinite DEF LimiterAssumption
      <3>4. len + 1 - MaxPerWindow \in 1 .. len  BY <1>2, <2>3, <3>3 DEF LimiterAssumption
      <3> QED BY <1>5, <2>3, <3>2, <3>4, SMTT(20)
    <2> QED BY <2>1, <2>2, <2>3
  <1> QED BY <1>7, <1>8, <1>9, <1>10 DEF LimiterInv

LEMMA LimiterSteps == LimiterAssumption /\ LimiterInv /\ [LimiterNext]_limiterVars => LimiterInv'
  <1> SUFFICES ASSUME LimiterAssumption, LimiterInv, [LimiterNext]_limiterVars PROVE LimiterInv'
    OBVIOUS
  <1>1. CASE Tick  BY <1>1, LimiterTick
  <1>2. ASSUME NEW s \in Callers, TryAcquire(s) PROVE LimiterInv'  BY <1>2, LimiterAcquire
  <1>3. CASE UNCHANGED limiterVars
    BY <1>3 DEF limiterVars, LimiterInv, LimiterTypeOK, Ordered, Complete, Recent, Within,
                AllowanceKept
  <1> QED BY <1>1, <1>2, <1>3 DEF LimiterNext

LEMMA LimiterInvariant == LimiterSpec => []LimiterInv
  BY LimiterAssumption, LimiterBegins, LimiterSteps, PTL DEF LimiterSpec

-----------------------------------------------------------------------------
(* No site is ever let through more than its allowance in any window, for  *)
(* all sites, allowances, windows and bounds of try_acquire.               *)
THEOREM WindowNeverOverdrawn == LimiterSpec => []AllowanceKept
  BY LimiterInvariant, PTL DEF LimiterInv

LEMMA RefusalHasCause ==
  ASSUME LimiterAssumption, LimiterInv, [LimiterNext]_limiterVars, NEW s \in Callers,
         limited'[s] # limited[s]
  PROVE  \/ Cardinality(Recent(s)) >= MaxPerWindow
         \/ Recent(s) = {} /\ Cardinality({t \in Callers : Recent(t) # {}}) >= MaxTracked
  <1>1. PICK site \in Callers : TryAcquire(site)
    BY DEF LimiterNext, Tick, limiterVars
  <1>2. s = site /\ ~ (site \in Tracked(site) /\ Cardinality(Entry(site)) < MaxPerWindow)
    BY <1>1 DEF TryAcquire, LimiterInv, LimiterTypeOK
  <1>3. CASE site \notin Tracked(site)
    <2>1. Cardinality(LiveEntries) >= MaxTracked /\ site \notin LiveEntries
      BY <1>3 DEF Tracked
    <2>2. LiveEntries = {t \in Callers : Recent(t) # {}}
      <3>1. LiveEntries \subseteq Callers  BY DEF LiveEntries, LimiterInv, LimiterTypeOK
      <3> QED BY <3>1, FreshIsRecent
    <2> QED BY <1>2, <2>1, <2>2, FreshIsRecent
  <1>4. CASE ~ (Cardinality(Entry(site)) < MaxPerWindow)
    BY <1>2, <1>4, EntryIsRecent, RecentFinite DEF LimiterAssumption
  <1> QED BY <1>2, <1>3, <1>4

(* A refused site has used its allowance up, or found the map full of      *)
(* sites admitted within the window: what is stale keeps nobody out.       *)
THEOREM RefusalsCaused == LimiterSpec => RefusedForCause
  <1>1. LimiterInv /\ [LimiterNext]_limiterVars =>
          [\A s \in Callers :
             limited'[s] # limited[s] =>
               \/ Cardinality(Recent(s)) >= MaxPerWindow
               \/ Recent(s) = {} /\ Cardinality({t \in Callers : Recent(t) # {}}) >= MaxTracked
          ]_limiterVars
    BY LimiterAssumption, RefusalHasCause
  <1> QED BY <1>1, LimiterInvariant, PTL DEF LimiterSpec, RefusedForCause

(* The limiter implements RateAllowance: an admission adds itself to what  *)
(* counts, time only takes away, and pruning and eviction do neither.      *)
LEMMA CountsKept ==
  ASSUME UNCHANGED <<admitted, clock>>  PROVE  InWindow' = InWindow
  BY DEF InWindow, Recent, Within

LEMMA TickFalls == LimiterAssumption /\ LimiterInv /\ Tick => Windows!Fall
  <1> SUFFICES ASSUME LimiterAssumption, LimiterInv, Tick PROVE Windows!Fall
    OBVIOUS
  <1>1. ASSUME NEW s \in Callers
        PROVE  /\ Cardinality(Recent(s))' \in Nat
               /\ Cardinality(Recent(s))' <= Cardinality(Recent(s))
    <2>1. Recent(s)' \in SUBSET Recent(s)
      BY DEF Tick, LimiterInv, LimiterTypeOK, LimiterAssumption, Recent, Within
    <2> QED BY <2>1, RecentFinite, FS_Subset, FS_CardinalityType
  <1>2. InWindow' = [s \in Callers |-> Cardinality(Recent(s))']  BY DEF InWindow
  <1> QED BY <1>1, <1>2 DEF Windows!Fall, InWindow

LEMMA AcquireAdmits ==
  ASSUME LimiterAssumption, LimiterInv, NEW site \in Callers, TryAcquire(site)
  PROVE  Windows!Admit(site) \/ InWindow' = InWindow
  <1> DEFINE admit == site \in Tracked(site) /\ Cardinality(Entry(site)) < MaxPerWindow
             len   == Len(admitted[site])
  <1>1. /\ clock' = clock
        /\ admitted' = [admitted EXCEPT ![site] = IF admit THEN Append(@, clock) ELSE @]
    BY DEF TryAcquire
  <1>2. /\ admitted \in [Callers -> Seq(Nat)] /\ clock \in Nat /\ WindowTicks \in Nat
        /\ len \in Nat /\ DOMAIN admitted[site] = 1 .. len
    BY DEF LimiterInv, LimiterTypeOK, LimiterAssumption
  <1>3. admit => Cardinality(Recent(site)) < MaxPerWindow  BY EntryIsRecent
  <1> HIDE DEF admit
  <1>4. CASE ~admit
    BY <1>1, <1>2, <1>4, CountsKept
  <1>5. CASE admit
    <2>1. /\ DOMAIN admitted'[site] = 1 .. (len + 1) /\ admitted'[site][len + 1] = clock
          /\ \A n \in 1 .. len : admitted'[site][n] = admitted[site][n]
      BY <1>1, <1>2, <1>5
    <2>2. \A s \in Callers : s # site => Recent(s)' = Recent(s)
      BY <1>1, <1>2 DEF Recent, Within
    <2>3. CASE WindowTicks = 0
      <3>1. Recent(site)' = {} /\ Recent(site) = {}
        <4>1. \A n \in 1 .. len : admitted[site][n] \in Nat /\ admitted[site][n] <= clock
          BY <1>2 DEF LimiterInv, Ordered
        <4>2. \A n \in 1 .. (len + 1) : n \in 1 .. len \/ n = len + 1  BY <1>2
        <4>3. \A n \in 1 .. (len + 1) : ~ (admitted'[site][n] + WindowTicks > clock)
          BY <1>2, <2>1, <2>3, <4>1, <4>2
        <4>4. \A n \in 1 .. len : ~ (admitted[site][n] + WindowTicks > clock)
          BY <1>2, <2>3, <4>1
        <4> QED BY <1>1, <1>2, <2>1, <4>3, <4>4 DEF Recent, Within
      <3> QED BY <2>2, <3>1 DEF InWindow
    <2>4. CASE WindowTicks > 0
      <3>1. Recent(site)' = Recent(site) \cup {len + 1} /\ len + 1 \notin Recent(site)
        <4>1. \A n \in 1 .. (len + 1) : n \in 1 .. len \/ n = len + 1  BY <1>2
        <4>2. clock + WindowTicks > clock  BY <1>2, <2>4
        <4>3. \A n : n \in Recent(site)' <=> n \in Recent(site) \/ n = len + 1
          BY <1>1, <1>2, <2>1, <4>1, <4>2 DEF Recent, Within
        <4>4. len + 1 \notin Recent(site)  BY <1>2 DEF Recent
        <4> QED BY <4>3, <4>4
      <3>2. Cardinality(Recent(site))' = Cardinality(Recent(site)) + 1
        BY <3>1, RecentFinite, FS_AddElement
      <3>3. InWindow' = [InWindow EXCEPT ![site] = @ + 1]
        BY <2>2, <3>2 DEF InWindow
      <3>4. InWindow[site] < MaxPerWindow  BY <1>3, <1>5 DEF InWindow
      <3> QED BY <3>3, <3>4 DEF Windows!Admit
    <2> QED BY <1>2, <2>3, <2>4
  <1> QED BY <1>4, <1>5

LEMMA CounterBegins == LimiterInit => Windows!Init
  <1> SUFFICES ASSUME LimiterInit PROVE \A s \in Callers : Cardinality(Recent(s)) = 0
    BY DEF Windows!Init, InWindow
  <1>1. \A s \in Callers : Recent(s) = {}  BY DEF LimiterInit, Recent
  <1> QED BY <1>1, FS_EmptySet

LEMMA CounterSteps ==
  LimiterAssumption /\ LimiterInv /\ [LimiterNext]_limiterVars => [Windows!Next]_InWindow
  <1> SUFFICES ASSUME LimiterAssumption, LimiterInv, [LimiterNext]_limiterVars
               PROVE  Windows!Next \/ InWindow' = InWindow
    OBVIOUS
  <1>1. CASE Tick  BY <1>1, TickFalls DEF Windows!Next
  <1>2. ASSUME NEW s \in Callers, TryAcquire(s) PROVE Windows!Next \/ InWindow' = InWindow
    BY <1>2, AcquireAdmits DEF Windows!Next
  <1>3. CASE UNCHANGED limiterVars  BY <1>3, CountsKept DEF limiterVars
  <1> QED BY <1>1, <1>2, <1>3 DEF LimiterNext

(* The sliding window with its bounded map, its pruning and its evictions  *)
(* implements a plain counter per site: a site is let through only below   *)
(* its allowance, and what it used comes back only as time passes.         *)
THEOREM LimiterActsAsCounter == LimiterSpec => ActsAsCounter
  BY LimiterAssumption, LimiterInvariant, CounterBegins, CounterSteps, PTL
     DEF LimiterSpec, ActsAsCounter, Windows!Spec

-----------------------------------------------------------------------------
(* The groups and streams of SiteStreams.                                  *)

(* The order of a group's numbers: what is pending was given, what was     *)
(* given is in the stream, what was settled was given and is not pending   *)
(* any more. A stream without the group has nothing of it.                 *)
FeedsOK ==
  /\ DOMAIN feeds \subseteq SiteNames /\ groups \subseteq DOMAIN feeds
  /\ \A s \in DOMAIN feeds : feeds[s] \in Seq(Contents)
  /\ metas \subseteq SiteNames /\ known \subseteq SiteNames /\ toGroup \subseteq known

GivenOK ==
  /\ lastGiven \in [SiteNames -> Nat] /\ DOMAIN pel = SiteNames
  /\ \A s \in SiteNames : DOMAIN pel[s] \subseteq 1 .. lastGiven[s]
  /\ \A s \in groups : lastGiven[s] <= Len(feeds[s])
  /\ \A s \in SiteNames : s \notin groups => lastGiven[s] = 0

HandedOK == \A e \in messages : e[1] \in SiteNames /\ e[2] \in DOMAIN pel[e[1]]
                                 /\ e[2] \in Nat /\ e = <<e[1], e[2]>>

SettledOK ==
  \A e \in settled : /\ e[1] \in SiteNames
                     /\ e[2] \in 1 .. lastGiven[e[1]] /\ e[2] \notin DOMAIN pel[e[1]]

StreamsInv == FeedsOK /\ GivenOK /\ HandedOK /\ SettledOK

(* What a read delivers of a stream that has the group: the next entries,  *)
(* so many that the group's counter ends on the last of them.              *)
LEMMA NewEntries ==
  ASSUME SiteStreamsAssumption, FeedsOK, GivenOK, NEW s \in groups
  PROVE  /\ Cardinality(NewIn(s)) \in Nat
         /\ NewIn(s) = (lastGiven[s] + 1) .. (lastGiven[s] + Cardinality(NewIn(s)))
         /\ lastGiven[s] + Cardinality(NewIn(s)) <= Len(feeds[s])
  <1> DEFINE given == lastGiven[s]
             len   == Len(feeds[s])
             to    == IF len <= given + ReadCount THEN len ELSE given + ReadCount
  <1>1. given \in Nat /\ len \in Nat /\ given <= len /\ ReadCount \in Nat
    BY DEF FeedsOK, GivenOK, SiteStreamsAssumption
  <1>2. to \in Nat /\ to >= given /\ to <= len  BY <1>1
  <1>3. NewIn(s) = (given + 1) .. to  BY <1>1 DEF NewIn
  <1>4. Cardinality(NewIn(s)) = to - given
    <2>1. given + 1 \in Int /\ to \in Int  BY <1>1, <1>2
    <2>2. Cardinality((given + 1) .. to) = IF given + 1 > to THEN 0 ELSE to - (given + 1) + 1
      BY <2>1, FS_Interval
    <2> HIDE DEF given, to
    <2> QED BY <1>1, <1>2, <1>3, <2>2
  <1> HIDE DEF given, len, to
  <1>5. Cardinality(NewIn(s)) \in Nat /\ given + Cardinality(NewIn(s)) = to  BY <1>1, <1>2, <1>4
  <1> QED BY <1>2, <1>3, <1>5 DEF given, len

LEMMA StreamsBegin == StreamsInit => StreamsInv
  BY DEF StreamsInit, StreamsInv, FeedsOK, GivenOK, HandedOK, SettledOK

(* A step that leaves the groups' numbers and what was handed out alone.   *)
LEMMA NumbersKept ==
  ASSUME StreamsInv, FeedsOK', UNCHANGED <<lastGiven, pel, settled>>,
         messages' \subseteq messages,
         groups \subseteq groups',
         \A s \in groups' : lastGiven[s] <= Len(feeds'[s])
  PROVE  StreamsInv'
  BY DEF StreamsInv, GivenOK, HandedOK, SettledOK

LEMMA ReadKeeps == SiteStreamsAssumption /\ StreamsInv /\ ReadMessages => StreamsInv'
  <1> SUFFICES ASSUME SiteStreamsAssumption, StreamsInv, ReadMessages PROVE StreamsInv'
    OBVIOUS
  <1> USE DEF StreamsInv
  <1>1. FeedsOK'  BY DEF ReadMessages, FeedsOK
  <1>2. CASE ~ AllGrouped
    <2>1. UNCHANGED <<lastGiven, pel, messages, settled, groups, feeds>>  BY <1>2 DEF ReadMessages
    <2> QED BY <1>1, <2>1 DEF GivenOK, HandedOK, SettledOK
  <1>3. CASE AllGrouped
    <2> DEFINE new == {e \in known \X (1 .. MaxEntries) : e[2] \in NewIn(e[1])}
    <2>1. /\ known \subseteq groups /\ known \subseteq SiteNames
          /\ UNCHANGED <<feeds, groups, settled>>
          /\ lastGiven' = [s \in SiteNames |->
               IF s \in known THEN lastGiven[s] + Cardinality(NewIn(s)) ELSE lastGiven[s]]
          /\ pel' = [s \in SiteNames |->
               IF s \in known THEN Delivered(s, NewIn(s), pel[s]) ELSE pel[s]]
          /\ messages' = {} \/ messages' = new
      BY <1>3 DEF ReadMessages, AllGrouped, FeedsOK
    <2>2. \A s \in known : DOMAIN pel'[s] = DOMAIN pel[s] \cup NewIn(s)
      BY <2>1 DEF Delivered
    <2>3. \A s \in SiteNames \ known : pel'[s] = pel[s] /\ lastGiven'[s] = lastGiven[s]
      BY <2>1
    <2>4. ASSUME NEW s \in known
          PROVE  /\ lastGiven'[s] \in Nat /\ lastGiven'[s] >= lastGiven[s]
                 /\ lastGiven'[s] <= Len(feeds[s])
                 /\ NewIn(s) = (lastGiven[s] + 1) .. lastGiven'[s]
      <3>1. lastGiven'[s] = lastGiven[s] + Cardinality(NewIn(s)) /\ lastGiven[s] \in Nat
        BY <2>1 DEF GivenOK
      <3>2. s \in groups  BY <2>1
      <3> QED BY <3>1, <3>2, NewEntries
    <2>5. GivenOK'
      <3>1. lastGiven' \in [SiteNames -> Nat]  BY <2>1, <2>3, <2>4 DEF GivenOK
      <3>2. DOMAIN pel' = SiteNames  BY <2>1
      <3>3. ASSUME NEW s \in SiteNames PROVE DOMAIN pel'[s] \subseteq 1 .. lastGiven'[s]
        <4>1. DOMAIN pel[s] \subseteq 1 .. lastGiven[s] /\ lastGiven[s] \in Nat  BY DEF GivenOK
        <4>2. CASE s \in known  BY <2>2, <2>4, <4>1, <4>2
        <4>3. CASE s \notin known  BY <2>3, <4>1, <4>3
        <4> QED BY <4>2, <4>3
      <3>4. \A s \in groups : lastGiven'[s] <= Len(feeds[s])
        BY <2>1, <2>3, <2>4 DEF GivenOK, FeedsOK
      <3>5. \A s \in SiteNames : s \notin groups => lastGiven'[s] = 0
        BY <2>1, <2>3 DEF GivenOK
      <3> QED BY <2>1, <3>1, <3>2, <3>3, <3>4, <3>5 DEF GivenOK
    <2>6. HandedOK'
      <3> SUFFICES ASSUME NEW e \in messages'
                   PROVE e[1] \in SiteNames /\ e[2] \in DOMAIN pel'[e[1]]
                         /\ e[2] \in Nat /\ e = <<e[1], e[2]>>
        BY DEF HandedOK
      <3>1. e \in known \X (1 .. MaxEntries) /\ e[2] \in NewIn(e[1])  BY <2>1
      <3>2. e[1] \in known /\ e[2] \in 1 .. MaxEntries /\ e = <<e[1], e[2]>>  BY <3>1
      <3> QED BY <2>1, <2>2, <3>1, <3>2
    <2>7. SettledOK'
      <3> SUFFICES ASSUME NEW e \in settled
                   PROVE  /\ e[1] \in SiteNames
                          /\ e[2] \in 1 .. lastGiven'[e[1]] /\ e[2] \notin DOMAIN pel'[e[1]]
        BY <2>1 DEF SettledOK
      <3>1. /\ e[1] \in SiteNames
            /\ e[2] \in 1 .. lastGiven[e[1]] /\ e[2] \notin DOMAIN pel[e[1]]
        BY DEF SettledOK
      <3>2. lastGiven[e[1]] \in Nat  BY <3>1 DEF GivenOK
      <3>3. CASE e[1] \in known
        <4>1. e[2] \notin NewIn(e[1])  BY <2>4, <3>1, <3>2, <3>3
        <4>2. e[2] \in 1 .. lastGiven'[e[1]]  BY <2>4, <3>1, <3>2, <3>3
        <4> QED BY <2>2, <3>1, <3>3, <4>1, <4>2
      <3>4. CASE e[1] \notin known  BY <2>3, <3>1, <3>4
      <3> QED BY <3>3, <3>4
    <2> QED BY <1>1, <2>5, <2>6, <2>7
  <1> QED BY <1>2, <1>3

(* A claim makes entries young again; it gives and settles none.           *)
LEMMA ClaimKeeps == StreamsInv /\ ClaimPending => StreamsInv'
  <1> SUFFICES ASSUME StreamsInv, ClaimPending PROVE StreamsInv'
    OBVIOUS
  <1> DEFINE swept == known \cap groups
  <1>1. /\ UNCHANGED <<metas, feeds, groups, lastGiven, known, toGroup, settled>>
        /\ pel' = [s \in SiteNames |->
                     IF s \in swept THEN Delivered(s, Claims(s), Aged(s)) ELSE Aged(s)]
        /\ \A e \in messages' : /\ e \in swept \X (1 .. MaxEntries) /\ e[2] \in Claims(e[1])
    BY DEF ClaimPending
  <1>2. \A s \in SiteNames : Claims(s) \subseteq DOMAIN pel[s] /\ DOMAIN Aged(s) = DOMAIN pel[s]
    BY DEF Claims, Idle, Aged
  <1>3. DOMAIN pel' = SiteNames /\ \A s \in SiteNames : DOMAIN pel'[s] = DOMAIN pel[s]
    <2>1. ASSUME NEW s \in swept, s \in SiteNames PROVE DOMAIN pel'[s] = DOMAIN pel[s]
      BY <1>1, <1>2, <2>1 DEF Delivered
    <2>2. ASSUME NEW s \in SiteNames, s \notin swept PROVE DOMAIN pel'[s] = DOMAIN pel[s]
      BY <1>1, <1>2, <2>2
    <2> QED BY <1>1, <2>1, <2>2
  <1>4. FeedsOK'  BY <1>1 DEF StreamsInv, FeedsOK
  <1>5. GivenOK'  BY <1>1, <1>3 DEF StreamsInv, GivenOK
  <1>6. SettledOK'  BY <1>1, <1>3 DEF StreamsInv, SettledOK
  <1>7. HandedOK'
    <2> SUFFICES ASSUME NEW e \in messages'
                 PROVE e[1] \in SiteNames /\ e[2] \in DOMAIN pel'[e[1]]
                       /\ e[2] \in Nat /\ e = <<e[1], e[2]>>
      BY DEF HandedOK
    <2>1. e[1] \in swept /\ e[2] \in 1 .. MaxEntries /\ e = <<e[1], e[2]>> /\ e[2] \in Claims(e[1])
      BY <1>1
    <2>2. e[1] \in SiteNames  BY <2>1 DEF StreamsInv, FeedsOK
    <2> QED BY <1>2, <1>3, <2>1, <2>2
  <1> QED BY <1>4, <1>5, <1>6, <1>7 DEF StreamsInv

LEMMA HandleKeeps ==
  ASSUME StreamsInv, NEW x \in messages, Handle(x)
  PROVE  StreamsInv'
  <1>1. x[1] \in SiteNames /\ x[2] \in DOMAIN pel[x[1]] /\ x[2] \in Nat /\ x = <<x[1], x[2]>>
    BY DEF StreamsInv, HandedOK
  <1>2. /\ UNCHANGED <<metas, feeds, groups, lastGiven, known, toGroup>>
        /\ messages' = messages \ {x}
    BY DEF Handle
  <1>3. FeedsOK'  BY <1>2 DEF StreamsInv, FeedsOK
  <1>4. CASE UNCHANGED <<settled, pel>>
    BY <1>2, <1>3, <1>4 DEF StreamsInv, GivenOK, HandedOK, SettledOK
  <1>5. CASE /\ settled' = settled \cup {x}
             /\ pel' = [pel EXCEPT ![x[1]] = [n \in DOMAIN @ \ {x[2]} |-> @[n]]]
    <2>1. DOMAIN pel = SiteNames  BY DEF StreamsInv, GivenOK
    <2>2. /\ DOMAIN pel' = SiteNames /\ DOMAIN pel'[x[1]] = DOMAIN pel[x[1]] \ {x[2]}
          /\ \A s \in SiteNames : s # x[1] => pel'[s] = pel[s]
      BY <1>1, <1>5, <2>1
    <2>3. \A s \in SiteNames : DOMAIN pel'[s] \subseteq DOMAIN pel[s]  BY <2>2
    <2>4. GivenOK'
      <3>1. \A s \in SiteNames : DOMAIN pel'[s] \subseteq 1 .. lastGiven[s]
        BY <2>3 DEF StreamsInv, GivenOK
      <3> QED BY <1>2, <2>2, <3>1 DEF StreamsInv, GivenOK
    <2>5. HandedOK'
      <3> SUFFICES ASSUME NEW e \in messages, e # x
                   PROVE e[1] \in SiteNames /\ e[2] \in DOMAIN pel'[e[1]]
                         /\ e[2] \in Nat /\ e = <<e[1], e[2]>>
        BY <1>2 DEF HandedOK
      <3>1. e[1] \in SiteNames /\ e[2] \in DOMAIN pel[e[1]] /\ e[2] \in Nat /\ e = <<e[1], e[2]>>
        BY DEF StreamsInv, HandedOK
      <3>2. e[1] # x[1] \/ e[2] # x[2]  BY <1>1, <3>1
      <3> QED BY <2>2, <3>1, <3>2
    <2>6. SettledOK'
      <3> SUFFICES ASSUME NEW e \in settled \cup {x}
                   PROVE  /\ e[1] \in SiteNames
                          /\ e[2] \in 1 .. lastGiven[e[1]] /\ e[2] \notin DOMAIN pel'[e[1]]
        BY <1>2, <1>5 DEF SettledOK
      <3>1. CASE e \in settled  BY <2>3, <3>1 DEF StreamsInv, SettledOK
      <3>2. CASE e = x  BY <1>1, <2>2, <3>2 DEF StreamsInv, GivenOK
      <3> QED BY <3>1, <3>2
    <2> QED BY <1>3, <2>4, <2>5, <2>6 DEF StreamsInv
  <1> QED BY <1>4, <1>5 DEF Handle

LEMMA EnsureKeeps ==
  ASSUME StreamsInv, NEW s \in SiteNames, EnsureGroup(s)
  PROVE  StreamsInv'
  <1>1. CASE CreateGroup(s) /\ toGroup' = toGroup \ {s} /\ known' = known
    <2>1. /\ feeds' = [t \in DOMAIN feeds \cup {s} |->
                       IF t \in DOMAIN feeds THEN feeds[t] ELSE << >>]
          /\ groups' = groups \cup {s} /\ UNCHANGED <<lastGiven, pel, settled, messages, metas>>
      BY <1>1 DEF CreateGroup, EnsureGroup
    <2>2. FeedsOK'
      <3>1. \A t \in DOMAIN feeds' : feeds'[t] \in Seq(Contents)  BY <2>1 DEF StreamsInv, FeedsOK
      <3> QED BY <1>1, <2>1, <3>1 DEF StreamsInv, FeedsOK
    <2>3. \A t \in groups' : lastGiven[t] <= Len(feeds'[t])
      <3> TAKE t \in groups'
      <3>1. CASE t \in groups  BY <2>1, <3>1 DEF StreamsInv, FeedsOK, GivenOK
      <3>2. CASE t = s /\ t \notin groups
        <4>1. lastGiven[t] = 0  BY <3>2 DEF StreamsInv, GivenOK
        <4>2. Len(feeds'[t]) \in Nat  BY <2>1, <2>2 DEF FeedsOK
        <4> QED BY <4>1, <4>2
      <3> QED BY <2>1, <3>1, <3>2
    <2> QED BY <2>1, <2>2, <2>3, NumbersKept
  <1>2. CASE /\ toGroup' = {} /\ known' = IF step = "boot" THEN {} ELSE known
             /\ UNCHANGED <<feeds, groups, lastGiven, pel>>
    BY <1>2 DEF EnsureGroup, StreamsInv, FeedsOK, GivenOK, HandedOK, SettledOK
  <1> QED BY <1>1, <1>2 DEF EnsureGroup

LEMMA ProduceKeeps ==
  ASSUME StreamsInv, NEW s \in SiteNames, NEW c \in Contents, Produce(s, c)
  PROVE  StreamsInv'
  <1> DEFINE old == IF s \in DOMAIN feeds THEN feeds[s] ELSE << >>
  <1>1. /\ feeds' = [t \in DOMAIN feeds \cup {s} |-> IF t = s THEN Append(old, c) ELSE feeds[t]]
        /\ UNCHANGED <<metas, groups, lastGiven, pel, known, toGroup, step, messages, settled>>
    BY DEF Produce, memoryVars
  <1>2. old \in Seq(Contents)  BY DEF StreamsInv, FeedsOK
  <1> HIDE DEF old
  <1>3. Append(old, c) \in Seq(Contents) /\ Len(Append(old, c)) = Len(old) + 1 /\ Len(old) \in Nat
    BY <1>2
  <1>4. FeedsOK'
    <2>1. \A t \in DOMAIN feeds' : feeds'[t] \in Seq(Contents)
      BY <1>1, <1>3 DEF StreamsInv, FeedsOK
    <2> QED BY <1>1, <2>1 DEF StreamsInv, FeedsOK
  <1>5. \A t \in groups : lastGiven[t] <= Len(feeds'[t])
    <2> TAKE t \in groups
    <2>1. t \in DOMAIN feeds /\ lastGiven[t] \in Nat /\ lastGiven[t] <= Len(feeds[t])
      BY DEF StreamsInv, FeedsOK, GivenOK
    <2>2. CASE t = s
      <3>1. feeds[t] = old /\ feeds'[t] = Append(old, c)  BY <1>1, <2>1, <2>2 DEF old
      <3> QED BY <1>3, <2>1, <3>1
    <2>3. CASE t # s  BY <1>1, <2>1, <2>3
    <2> QED BY <2>2, <2>3
  <1> QED BY <1>1, <1>4, <1>5, NumbersKept

LEMMA DropKeeps ==
  ASSUME StreamsInv, NEW s \in SiteNames, DropStream(s)
  PROVE  StreamsInv'
  <1>1. /\ feeds' = [t \in DOMAIN feeds \ {s} |-> feeds[t]] /\ groups' = groups \ {s}
        /\ lastGiven' = [lastGiven EXCEPT ![s] = 0] /\ pel' = [pel EXCEPT ![s] = << >>]
        /\ settled' = {e \in settled : e[1] # s}
        /\ \A e \in messages : e[1] # s
        /\ UNCHANGED <<metas, known, toGroup, messages>>
    BY DEF DropStream, memoryVars
  <1>2. lastGiven \in [SiteNames -> Nat] /\ DOMAIN pel = SiteNames  BY DEF StreamsInv, GivenOK
  <1>3. /\ lastGiven'[s] = 0 /\ DOMAIN pel'[s] = {}
        /\ \A t \in SiteNames : t # s => lastGiven'[t] = lastGiven[t] /\ pel'[t] = pel[t]
        /\ lastGiven' \in [SiteNames -> Nat] /\ DOMAIN pel' = SiteNames
    BY <1>1, <1>2
  <1>4. FeedsOK'  BY <1>1 DEF StreamsInv, FeedsOK
  <1>5. GivenOK'
    <2>1. \A t \in SiteNames : DOMAIN pel'[t] \subseteq 1 .. lastGiven'[t]
      BY <1>3 DEF StreamsInv, GivenOK
    <2>2. \A t \in groups' : lastGiven'[t] <= Len(feeds'[t])
      BY <1>1, <1>3 DEF StreamsInv, FeedsOK, GivenOK
    <2>3. \A t \in SiteNames : t \notin groups' => lastGiven'[t] = 0
      BY <1>1, <1>3 DEF StreamsInv, GivenOK
    <2> QED BY <1>3, <2>1, <2>2, <2>3 DEF GivenOK
  <1>6. HandedOK'  BY <1>1, <1>3 DEF StreamsInv, HandedOK
  <1>7. SettledOK'  BY <1>1, <1>3 DEF StreamsInv, SettledOK
  <1> QED BY <1>4, <1>5, <1>6, <1>7 DEF StreamsInv

(* The loop's own steps: discovery, the end of an iteration, a crash.      *)
LEMMA LoopKeeps ==
  ASSUME StreamsInv,
         \/ Boot \/ NotYet \/ Synced \/ EndIteration \/ Rediscover \/ Crash
         \/ \E s \in SiteNames : RegisterSite(s)
         \/ UNCHANGED streamsVars
  PROVE  StreamsInv'
  <1>1. UNCHANGED <<feeds, groups, lastGiven, pel, settled>> /\ messages' \subseteq messages
    BY DEF Boot, NotYet, Synced, EndIteration, Rediscover, Crash, RegisterSite, streamsVars,
           valkeyVars, memoryVars
  <1>2. FeedsOK'
    <2>1. metas' \subseteq SiteNames
      BY DEF Boot, NotYet, Synced, EndIteration, Rediscover, Crash, RegisterSite, streamsVars,
             valkeyVars, memoryVars, StreamsInv, FeedsOK
    <2>2. known' \subseteq SiteNames /\ toGroup' \subseteq known'
      BY DEF Boot, NotYet, Synced, EndIteration, Rediscover, Crash, RegisterSite, streamsVars,
             valkeyVars, memoryVars, StreamsInv, FeedsOK, Discovers
    <2> QED BY <1>1, <2>1, <2>2 DEF StreamsInv, FeedsOK
  <1> QED BY <1>1, <1>2, NumbersKept DEF StreamsInv, GivenOK

LEMMA StreamsStep ==
  SiteStreamsAssumption /\ StreamsInv /\ [StreamsNext]_streamsVars => StreamsInv'
  BY ReadKeeps, ClaimKeeps, HandleKeeps, EnsureKeeps, ProduceKeeps, DropKeeps, LoopKeeps
     DEF StreamsNext, ConsumerStep

LEMMA StreamsInvariant == StreamsInit /\ [][StreamsNext]_streamsVars => []StreamsInv
  BY StreamsBegin, StreamsStep, SiteStreamsAssumption, PTL

(* An acknowledged entry is never handed to the loop again, for all sites, *)
(* counts and failures: the group's counter never goes back, and what is   *)
(* handed out is pending, which a settled entry is not.                    *)
THEOREM SettledStays == StreamsSpec => []SettledOnce
  <1>1. StreamsInv => SettledOnce  BY DEF StreamsInv, HandedOK, SettledOK, SettledOnce
  <1> QED BY <1>1, StreamsInvariant, PTL DEF StreamsSpec

(* The place in the loop and the mishaps left have their types as well.    *)
LEMMA StreamsTyped == StreamsInit /\ [][StreamsNext]_streamsVars => []StreamsTypeOK
  <1> DEFINE LoopOK == step \in Steps /\ mishaps \in 0 .. MaxMishaps
  <1>1. SiteStreamsAssumption /\ StreamsInit => LoopOK
    BY DEF StreamsInit, Steps, SiteStreamsAssumption
  <1>2. SiteStreamsAssumption /\ LoopOK /\ [StreamsNext]_streamsVars => LoopOK'
    <2> SUFFICES ASSUME SiteStreamsAssumption, LoopOK, [StreamsNext]_streamsVars PROVE LoopOK'
      OBVIOUS
    <2>1. mishaps' = mishaps \/ (mishaps > 0 /\ mishaps' = mishaps - 1)
      BY DEF StreamsNext, ConsumerStep, Boot, Discovers, NotYet, Synced, ReadMessages,
             EndIteration, ClaimPending, EnsureGroup, Handle, Rediscover, Crash, RegisterSite,
             DropStream, Produce, Mishap, NoMishap, streamsVars
    <2>2. step' \in Steps
      BY DEF StreamsNext, ConsumerStep, Boot, NotYet, Synced, ReadMessages, EndIteration,
             ClaimPending, EnsureGroup, Handle, Rediscover, Crash, RegisterSite, DropStream,
             Produce, streamsVars, memoryVars, Steps
    <2> QED BY <2>1, <2>2 DEF SiteStreamsAssumption
  <1>3. StreamsInv /\ LoopOK => StreamsTypeOK
    BY DEF StreamsInv, FeedsOK, GivenOK, HandedOK, StreamsTypeOK
  <1> HIDE DEF LoopOK
  <1> QED BY <1>1, <1>2, <1>3, StreamsInvariant, SiteStreamsAssumption, PTL

-----------------------------------------------------------------------------
(* The consumer implements EntryDelivery: a step moves entries from one    *)
(* place to the next, or leaves them all where they are.                   *)

(* What the group was not given yet, and where an entry is.                *)
Waiting(s) == IF s \in DOMAIN feeds THEN (lastGiven[s] + 1) .. Len(feeds[s]) ELSE {}

FateAt(s, n) ==
  IF n \in DOMAIN pel[s] THEN "pending"
  ELSE IF <<s, n>> \in settled THEN "settled"
  ELSE IF n \in Waiting(s) THEN "queued" ELSE "absent"

(* A step takes the entries of S to one place, and leaves the others.      *)
MovesTo(S, to) ==
  \A s \in SiteNames, n \in 1 .. MaxEntries :
    FateAt(s, n)' = IF <<s, n>> \in S THEN to ELSE FateAt(s, n)

LEMMA FatesMove ==
  ASSUME NEW S, NEW to, MovesTo(S, to)
  PROVE  EntryFate' = [e \in SiteEntries |-> IF e \in S THEN to ELSE EntryFate[e]]
  <1>1. ASSUME NEW e \in SiteEntries
        PROVE  /\ e[1] \in SiteNames /\ e[2] \in 1 .. MaxEntries /\ e = <<e[1], e[2]>>
               /\ EntryFate[e] = FateAt(e[1], e[2]) /\ EntryFate'[e] = FateAt(e[1], e[2])'
    <2>1. e[1] \in SiteNames /\ e[2] \in 1 .. MaxEntries /\ e = <<e[1], e[2]>>
      BY DEF SiteEntries
    <2>2. EntryFate[e] = FateAt(e[1], e[2])  BY <2>1 DEF EntryFate, FateAt, Waiting
    <2>3. EntryFate'[e] = FateAt(e[1], e[2])'  BY <2>1 DEF EntryFate, FateAt, Waiting
    <2> QED BY <2>1, <2>2, <2>3
  <1>2. \A e \in SiteEntries : EntryFate'[e] = IF e \in S THEN to ELSE EntryFate[e]
    BY <1>1 DEF MovesTo
  <1>3. EntryFate' = [e \in SiteEntries |-> EntryFate'[e]]  BY DEF EntryFate
  <1> QED BY <1>2, <1>3

LEMMA FatesStay ==
  ASSUME \A s \in SiteNames, n \in 1 .. MaxEntries : FateAt(s, n)' = FateAt(s, n)
  PROVE  EntryFate' = EntryFate
  <1> DEFINE S == {}
  <1>1. MovesTo(S, "absent")  BY DEF MovesTo
  <1>2. \A e : e \notin S  OBVIOUS
  <1> HIDE DEF S
  <1>3. EntryFate' = [e \in SiteEntries |-> IF e \in S THEN "absent" ELSE EntryFate[e]]
    BY <1>1, FatesMove
  <1>4. EntryFate' = [e \in SiteEntries |-> EntryFate[e]]  BY <1>2, <1>3
  <1>5. EntryFate = [e \in SiteEntries |-> EntryFate[e]]  BY DEF EntryFate
  <1> QED BY <1>4, <1>5

(* The places of a step's entries before it.                               *)
LEMMA FatesWere ==
  ASSUME NEW s \in SiteNames, NEW n \in 1 .. MaxEntries
  PROVE  <<s, n>> \in SiteEntries /\ EntryFate[<<s, n>>] = FateAt(s, n)
  BY DEF SiteEntries, EntryFate, FateAt, Waiting

LEMMA ReadDelivers ==
  ASSUME SiteStreamsAssumption, StreamsInv, ReadMessages, AllGrouped
  PROVE  \E S \in SUBSET SiteEntries : Consumer!Deliver(S)
  <1> DEFINE S == {e \in SiteEntries : e[1] \in known /\ e[2] \in NewIn(e[1])}
  <1>1. /\ known \subseteq groups /\ known \subseteq SiteNames /\ groups \subseteq DOMAIN feeds
        /\ lastGiven \in [SiteNames -> Nat]
    BY DEF StreamsInv, FeedsOK, GivenOK, AllGrouped
  <1>2. /\ UNCHANGED <<feeds, settled>>
        /\ lastGiven' = [s \in SiteNames |->
             IF s \in known THEN lastGiven[s] + Cardinality(NewIn(s)) ELSE lastGiven[s]]
        /\ pel' = [s \in SiteNames |->
             IF s \in known THEN Delivered(s, NewIn(s), pel[s]) ELSE pel[s]]
    BY DEF ReadMessages
  <1>3. ASSUME NEW s \in SiteNames, NEW n \in 1 .. MaxEntries
        PROVE  /\ <<s, n>> \in S => FateAt(s, n) = "queued"
               /\ FateAt(s, n)' = IF <<s, n>> \in S THEN "pending" ELSE FateAt(s, n)
    <2>0. lastGiven[s] \in Nat /\ (<<s, n>> \in S <=> s \in known /\ n \in NewIn(s))
      BY <1>1 DEF SiteEntries
    <2> HIDE DEF S
    <2>1. CASE s \notin known
      BY <1>2, <2>0, <2>1 DEF FateAt, Waiting
    <2>2. CASE s \in known
      <3>1. /\ lastGiven'[s] = lastGiven[s] + Cardinality(NewIn(s))
            /\ DOMAIN pel'[s] = DOMAIN pel[s] \cup NewIn(s)
        BY <1>2, <2>2 DEF Delivered
      <3>2. /\ Cardinality(NewIn(s)) \in Nat
            /\ NewIn(s) = (lastGiven[s] + 1) .. (lastGiven[s] + Cardinality(NewIn(s)))
            /\ lastGiven[s] + Cardinality(NewIn(s)) <= Len(feeds[s])
        BY <1>1, <2>2, NewEntries DEF StreamsInv
      <3>3. Len(feeds[s]) \in Nat  BY <1>1, <2>2 DEF StreamsInv, FeedsOK
      <3>4. CASE n \in NewIn(s)
        <4>1. n \in Waiting(s)  BY <1>1, <2>0, <2>2, <3>2, <3>3, <3>4 DEF Waiting
        <4>2. n \notin DOMAIN pel[s]
          <5>1. DOMAIN pel[s] \subseteq 1 .. lastGiven[s]  BY DEF StreamsInv, GivenOK
          <5> QED BY <2>0, <3>2, <3>4, <5>1
        <4>3. <<s, n>> \notin settled
          <5>1. <<s, n>> \in settled => n \in 1 .. lastGiven[s]  BY DEF StreamsInv, SettledOK
          <5> QED BY <2>0, <3>2, <3>4, <5>1
        <4> QED BY <2>0, <2>2, <3>1, <3>4, <4>1, <4>2, <4>3 DEF FateAt
      <3>5. CASE n \notin NewIn(s)
        <4>1. n \in Waiting(s)' <=> n \in Waiting(s)
          BY <1>1, <1>2, <2>0, <2>2, <3>1, <3>2, <3>3, <3>5 DEF Waiting
        <4> QED BY <1>2, <2>0, <3>1, <3>5, <4>1 DEF FateAt
      <3> QED BY <3>4, <3>5
    <2> QED BY <2>1, <2>2
  <1>4. S \in SUBSET SiteEntries  OBVIOUS
  <1>5. \A e \in S : EntryFate[e] = "queued"
    <2> TAKE e \in S
    <2>1. e = <<e[1], e[2]>> /\ e[1] \in SiteNames /\ e[2] \in 1 .. MaxEntries
      BY DEF SiteEntries
    <2> QED BY <1>3, <2>1, FatesWere
  <1> HIDE DEF S
  <1>6. MovesTo(S, "pending")  BY <1>3 DEF MovesTo
  <1>7. EntryFate' = [e \in SiteEntries |-> IF e \in S THEN "pending" ELSE EntryFate[e]]
    BY <1>6, FatesMove
  <1> QED BY <1>4, <1>5, <1>7 DEF Consumer!Deliver, Consumer!Move

LEMMA HandleSettles ==
  ASSUME StreamsInv, NEW x \in messages, Handle(x)
  PROVE  EntryFate' = EntryFate
         \/ \E S \in SUBSET SiteEntries, why \in {} \cup {"settled"} : Consumer!Settle(S, why)
  <1>1. x[1] \in SiteNames /\ x[2] \in DOMAIN pel[x[1]] /\ x[2] \in Nat /\ x = <<x[1], x[2]>>
    BY DEF StreamsInv, HandedOK
  <1>2. UNCHANGED <<feeds, lastGiven>> /\ DOMAIN pel = SiteNames
    BY DEF Handle, StreamsInv, GivenOK
  <1>3. CASE UNCHANGED <<settled, pel>>
    BY <1>2, <1>3, FatesStay DEF FateAt, Waiting
  <1>4. CASE /\ settled' = settled \cup {x}
             /\ pel' = [pel EXCEPT ![x[1]] = [n \in DOMAIN @ \ {x[2]} |-> @[n]]]
    <2>1. /\ DOMAIN pel'[x[1]] = DOMAIN pel[x[1]] \ {x[2]}
          /\ \A t \in SiteNames : t # x[1] => pel'[t] = pel[t]
      BY <1>1, <1>2, <1>4
    <2>2. ASSUME NEW s \in SiteNames, NEW n \in 1 .. MaxEntries
          PROVE  /\ <<s, n>> = x => FateAt(s, n) = "pending"
                 /\ FateAt(s, n)' = IF <<s, n>> \in {x} \cap SiteEntries THEN "settled" ELSE FateAt(s, n)
      <3>0. Waiting(s)' = Waiting(s) /\ <<s, n>> \in SiteEntries
        BY <1>2, FatesWere DEF Waiting
      <3>1. CASE <<s, n>> = x
        <4>1. s = x[1] /\ n = x[2]  BY <1>1, <3>1
        <4> QED BY <1>1, <1>4, <2>1, <3>0, <3>1, <4>1 DEF FateAt
      <3>2. CASE <<s, n>> # x
        <4>1. n \in DOMAIN pel'[s] <=> n \in DOMAIN pel[s]  BY <1>1, <2>1, <3>2
        <4>2. <<s, n>> \in settled' <=> <<s, n>> \in settled  BY <1>4, <3>2
        <4> QED BY <3>0, <3>2, <4>1, <4>2 DEF FateAt
      <3> QED BY <3>1, <3>2
    <2> DEFINE S == {x} \cap SiteEntries
    <2>3. S \in SUBSET SiteEntries  OBVIOUS
    <2>4. \A e \in S : EntryFate[e] = "pending"
      <3> TAKE e \in S
      <3>1. e = <<e[1], e[2]>> /\ e[1] \in SiteNames /\ e[2] \in 1 .. MaxEntries /\ e = x
        BY DEF SiteEntries
      <3> QED BY <2>2, <3>1, FatesWere
    <2> DEFINE final == "settled"
    <2>5. MovesTo(S, final)  BY <2>2 DEF MovesTo
    <2> HIDE DEF S, final
    <2>6. EntryFate' = [e \in SiteEntries |-> IF e \in S THEN final ELSE EntryFate[e]]
      BY <2>5, FatesMove
    <2>7. Consumer!Settle(S, "settled")
      BY <2>4, <2>6 DEF Consumer!Settle, Consumer!Move, final
    <2> QED BY <2>3, <2>7
  <1> QED BY <1>3, <1>4 DEF Handle

LEMMA ClaimMovesNone == StreamsInv /\ ClaimPending => EntryFate' = EntryFate
  <1> SUFFICES ASSUME StreamsInv, ClaimPending PROVE EntryFate' = EntryFate
    OBVIOUS
  <1> DEFINE swept == known \cap groups
  <1>1. /\ UNCHANGED <<feeds, lastGiven, settled>>
        /\ pel' = [s \in SiteNames |->
                     IF s \in swept THEN Delivered(s, Claims(s), Aged(s)) ELSE Aged(s)]
    BY DEF ClaimPending
  <1>2. \A s \in SiteNames : Claims(s) \subseteq DOMAIN pel[s] /\ DOMAIN Aged(s) = DOMAIN pel[s]
    BY DEF Claims, Idle, Aged
  <1>3. ASSUME NEW s \in SiteNames PROVE DOMAIN pel'[s] = DOMAIN pel[s]
    <2>1. CASE s \in swept  BY <1>1, <1>2, <2>1 DEF Delivered
    <2>2. CASE s \notin swept  BY <1>1, <1>2, <2>2
    <2> QED BY <2>1, <2>2
  <1> QED BY <1>1, <1>3, FatesStay DEF FateAt, Waiting

LEMMA EnsureMovesNone ==
  ASSUME StreamsInv, NEW s \in SiteNames, EnsureGroup(s)
  PROVE  EntryFate' = EntryFate
  <1>1. UNCHANGED <<lastGiven, pel, settled>>  BY DEF EnsureGroup, CreateGroup
  <1>2. \/ feeds' = feeds
        \/ feeds' = [t \in DOMAIN feeds \cup {s} |-> IF t \in DOMAIN feeds THEN feeds[t] ELSE << >>]
    BY DEF EnsureGroup, CreateGroup
  <1>3. ASSUME NEW t \in SiteNames PROVE Waiting(t)' = Waiting(t)
    <2>1. CASE t \in DOMAIN feeds  BY <1>1, <1>2, <2>1 DEF Waiting
    <2>2. CASE t \notin DOMAIN feeds
      <3>1. t \notin groups /\ lastGiven[t] = 0  BY <2>2 DEF StreamsInv, FeedsOK, GivenOK
      <3>2. t \in DOMAIN feeds' => Len(feeds'[t]) = 0  BY <1>2, <2>2
      <3>3. (0 + 1) .. 0 = {}  OBVIOUS
      <3> QED BY <1>1, <2>2, <3>1, <3>2, <3>3 DEF Waiting
    <2> QED BY <2>1, <2>2
  <1> QED BY <1>1, <1>3, FatesStay DEF FateAt

LEMMA ProduceQueues ==
  ASSUME StreamsInv, NEW s \in SiteNames, NEW c \in Contents, Produce(s, c)
  PROVE  EntryFate' = EntryFate \/ \E e \in SiteEntries : Consumer!Queue(e)
  <1> DEFINE old == IF s \in DOMAIN feeds THEN feeds[s] ELSE << >>
             new == <<s, Len(old) + 1>>
  <1>1. /\ feeds' = [t \in DOMAIN feeds \cup {s} |-> IF t = s THEN Append(old, c) ELSE feeds[t]]
        /\ UNCHANGED <<lastGiven, pel, settled>>
    BY DEF Produce
  <1>2. /\ old \in Seq(Contents) /\ lastGiven \in [SiteNames -> Nat] /\ lastGiven[s] <= Len(old)
        /\ s \notin DOMAIN feeds => lastGiven[s] = 0
    <2>1. old \in Seq(Contents) /\ lastGiven \in [SiteNames -> Nat]
      BY DEF StreamsInv, FeedsOK, GivenOK
    <2>2. CASE s \in groups  BY <2>2 DEF StreamsInv, FeedsOK, GivenOK
    <2>3. CASE s \notin groups
      <3>1. lastGiven[s] = 0  BY <2>3 DEF StreamsInv, GivenOK
      <3>2. Len(old) \in Nat  BY <2>1
      <3> QED BY <2>1, <3>1, <3>2
    <2> QED BY <2>1, <2>2, <2>3 DEF StreamsInv, FeedsOK
  <1>3. Len(Append(old, c)) = Len(old) + 1 /\ Len(old) \in Nat  BY <1>2
  <1>4. \A t \in SiteNames : t # s => Waiting(t)' = Waiting(t)  BY <1>1 DEF Waiting
  <1>5. Waiting(s)' = (lastGiven[s] + 1) .. (Len(old) + 1)
    <2>1. feeds'[s] = Append(old, c) /\ s \in DOMAIN feeds'  BY <1>1
    <2> QED BY <1>1, <1>3, <2>1 DEF Waiting
  <1>6. Waiting(s) = (lastGiven[s] + 1) .. Len(old)
    <2>1. CASE s \in DOMAIN feeds  BY <2>1 DEF Waiting
    <2>2. CASE s \notin DOMAIN feeds
      <3>1. lastGiven[s] = 0 /\ Len(old) = 0  BY <1>2, <2>2
      <3>2. (0 + 1) .. 0 = {}  OBVIOUS
      <3> QED BY <2>2, <3>1, <3>2 DEF Waiting
    <2> QED BY <2>1, <2>2
  <1> HIDE DEF old
  <1>7. Waiting(s)' = Waiting(s) \cup {Len(old) + 1} /\ Len(old) + 1 \notin Waiting(s)
    BY <1>2, <1>3, <1>5, <1>6
  <1>8. ASSUME NEW t \in SiteNames, NEW n \in 1 .. MaxEntries
        PROVE  /\ <<t, n>> = new => FateAt(t, n) = "absent"
               /\ FateAt(t, n)' = IF <<t, n>> \in {new} THEN "queued" ELSE FateAt(t, n)
    <2>1. CASE <<t, n>> = new
      <3>1. t = s /\ n = Len(old) + 1  BY <2>1
      <3>2. n \notin DOMAIN pel[s]
        <4>1. DOMAIN pel[s] \subseteq 1 .. lastGiven[s]  BY DEF StreamsInv, GivenOK
        <4> QED BY <1>2, <1>3, <3>1, <4>1
      <3>3. <<s, n>> \notin settled
        <4>1. <<s, n>> \in settled => n \in 1 .. lastGiven[s]  BY DEF StreamsInv, SettledOK
        <4> QED BY <1>2, <1>3, <3>1, <4>1
      <3>4. n \in Waiting(s)' /\ n \notin Waiting(s)  BY <1>7, <3>1
      <3> HIDE DEF new
      <3> QED BY <1>1, <2>1, <3>1, <3>2, <3>3, <3>4 DEF FateAt
    <2>2. CASE <<t, n>> # new
      <3>1. n \in Waiting(t)' <=> n \in Waiting(t)  BY <1>4, <1>7, <2>2
      <3> HIDE DEF new
      <3> QED BY <1>1, <2>2, <3>1 DEF FateAt
    <2> QED BY <2>1, <2>2
  <1>9. EntryFate' = [e \in SiteEntries |-> IF e \in {new} THEN "queued" ELSE EntryFate[e]]
    <2> DEFINE S == {new}
    <2>1. MovesTo(S, "queued")  BY <1>8 DEF MovesTo
    <2>2. \A e : e \in S <=> e = new  OBVIOUS
    <2> HIDE DEF S, new
    <2>3. EntryFate' = [e \in SiteEntries |-> IF e \in S THEN "queued" ELSE EntryFate[e]]
      BY <2>1, FatesMove
    <2> QED BY <2>2, <2>3
  <1>10. CASE new \in SiteEntries
    <2>1. EntryFate[new] = "absent"
      <3>1. Len(old) + 1 \in 1 .. MaxEntries  BY <1>10 DEF SiteEntries
      <3> QED BY <1>8, <3>1, FatesWere
    <2> HIDE DEF new
    <2>2. Consumer!Queue(new)  BY <1>9, <2>1 DEF Consumer!Queue, Consumer!Move
    <2> QED BY <1>10, <2>2
  <1>11. CASE new \notin SiteEntries
    <2> HIDE DEF new
    <2>1. EntryFate' = [e \in SiteEntries |-> EntryFate[e]]  BY <1>9, <1>11
    <2> QED BY <2>1 DEF EntryFate
  <1> QED BY <1>10, <1>11

LEMMA DropDeletes ==
  ASSUME StreamsInv, NEW s \in SiteNames, DropStream(s)
  PROVE  Consumer!Delete({s} \X (1 .. MaxEntries))
  <1> DEFINE S == {s} \X (1 .. MaxEntries)
  <1>1. /\ feeds' = [t \in DOMAIN feeds \ {s} |-> feeds[t]]
        /\ lastGiven' = [lastGiven EXCEPT ![s] = 0] /\ pel' = [pel EXCEPT ![s] = << >>]
        /\ settled' = {e \in settled : e[1] # s}
    BY DEF DropStream
  <1>2. lastGiven \in [SiteNames -> Nat] /\ DOMAIN pel = SiteNames  BY DEF StreamsInv, GivenOK
  <1>3. ASSUME NEW t \in SiteNames, NEW n \in 1 .. MaxEntries
        PROVE  FateAt(t, n)' = IF <<t, n>> \in S THEN "absent" ELSE FateAt(t, n)
    <2>1. CASE t = s
      <3>1. n \notin DOMAIN pel'[t] /\ <<t, n>> \notin settled' /\ Waiting(t)' = {}
        BY <1>1, <1>2, <2>1 DEF Waiting
      <3> QED BY <2>1, <3>1 DEF FateAt
    <2>2. CASE t # s
      <3>1. /\ pel'[t] = pel[t] /\ Waiting(t)' = Waiting(t)
            /\ <<t, n>> \in settled' <=> <<t, n>> \in settled
        BY <1>1, <1>2, <2>2 DEF Waiting
      <3> QED BY <2>2, <3>1 DEF FateAt
    <2> QED BY <2>1, <2>2
  <1> HIDE DEF S
  <1>4. MovesTo(S, "absent")  BY <1>3 DEF MovesTo
  <1>5. EntryFate' = [e \in SiteEntries |-> IF e \in S THEN "absent" ELSE EntryFate[e]]
    BY <1>4, FatesMove
  <1> QED BY <1>5 DEF Consumer!Delete, S

LEMMA ConsumerRefines ==
  SiteStreamsAssumption /\ StreamsInv /\ [StreamsNext]_streamsVars
    => [Consumer!Next]_<<EntryFate, {}>>
  <1> SUFFICES ASSUME SiteStreamsAssumption, StreamsInv, [StreamsNext]_streamsVars
               PROVE  Consumer!Next \/ EntryFate' = EntryFate
    OBVIOUS
  <1>1. CASE UNCHANGED <<feeds, lastGiven, pel, settled>>
    BY <1>1, FatesStay DEF FateAt, Waiting
  <1>2. CASE ReadMessages
    <2>1. CASE AllGrouped  BY <1>2, <2>1, ReadDelivers DEF Consumer!Next
    <2>2. CASE ~ AllGrouped
      BY <1>1, <1>2, <2>2 DEF ReadMessages
    <2> QED BY <2>1, <2>2
  <1>3. ASSUME NEW x \in messages, Handle(x) PROVE Consumer!Next \/ EntryFate' = EntryFate
    BY <1>3, HandleSettles DEF Consumer!Next
  <1>4. CASE ClaimPending  BY <1>4, ClaimMovesNone
  <1>5. ASSUME NEW s \in SiteNames, EnsureGroup(s) PROVE EntryFate' = EntryFate
    BY <1>5, EnsureMovesNone
  <1>6. ASSUME NEW s \in SiteNames, NEW c \in Contents, Produce(s, c)
        PROVE  Consumer!Next \/ EntryFate' = EntryFate
    BY <1>6, ProduceQueues DEF Consumer!Next
  <1>7. ASSUME NEW s \in SiteNames, DropStream(s) PROVE Consumer!Next
    BY <1>7, DropDeletes DEF Consumer!Next
  <1>8. CASE \/ Boot \/ NotYet \/ Synced \/ EndIteration \/ Rediscover \/ Crash
             \/ (\E s \in SiteNames : RegisterSite(s)) \/ UNCHANGED streamsVars
    BY <1>1, <1>8 DEF Boot, NotYet, Synced, EndIteration, Rediscover, Crash, RegisterSite,
                      streamsVars, valkeyVars
  <1> QED BY <1>2, <1>3, <1>4, <1>5, <1>6, <1>7, <1>8 DEF StreamsNext, ConsumerStep

LEMMA ConsumerBegins == StreamsInit => Consumer!Init
  <1> SUFFICES ASSUME StreamsInit PROVE Consumer!Init
    OBVIOUS
  <1>1. ASSUME NEW e \in SiteEntries PROVE EntryFate[e] = "absent"
    <2>1. e[1] \in SiteNames /\ pel[e[1]] = << >> /\ DOMAIN feeds = {} /\ settled = {}
      BY DEF StreamsInit, SiteEntries
    <2> QED BY <2>1 DEF EntryFate
  <1>2. EntryFate = [e \in SiteEntries |-> EntryFate[e]]  BY DEF EntryFate
  <1> QED BY <1>1, <1>2 DEF Consumer!Init

LEMMA ConsumerImplements == StreamsInit /\ [][StreamsNext]_streamsVars => ConsumerDelivers
  BY ConsumerBegins, ConsumerRefines, StreamsInvariant, SiteStreamsAssumption, PTL
  DEF ConsumerDelivers, Consumer!Spec

(* The consumer implements EntryDelivery for any number of sites, entries  *)
(* and failures: what a group was given is pending until it is settled, is *)
(* settled once, and nothing is skipped, whatever reply is lost, whatever  *)
(* field cannot be read, however often the groups are ensured again.       *)
THEOREM StreamsDeliver == StreamsSpec => ConsumerDelivers
  BY ConsumerImplements, PTL DEF StreamsSpec

-----------------------------------------------------------------------------
(* The spam filter.                                                        *)

(* A verdict is that of the message under the configuration it was checked *)
(* with; neither changes.                                                  *)
VerdictOK ==
  /\ verdict = "clean" => ~ IsSpam(mail, extra.words, extra.addresses)
  /\ verdict = "spam"  => IsSpam(mail, extra.words, extra.addresses)

SpamInv == SpamTypeOK /\ VerdictOK

(* How many words of a message a list finds: more when the list grows.     *)
LEMMA MoreWordsFound ==
  ASSUME SpamAssumption, NEW m \in Mails, NEW more \in SUBSET Words
  PROVE  /\ Cardinality(m.words \cap Blocklist(more)) \in Nat
         /\ Cardinality(m.words \cap Blocklist({})) \in Nat
         /\ Cardinality(m.words \cap Blocklist({})) <= Cardinality(m.words \cap Blocklist(more))
  <1>1. m.words \subseteq Words  BY DEF Mails
  <1>2. IsFiniteSet(m.words \cap Blocklist(more))
    <2>1. m.words \cap Blocklist(more) \in SUBSET Words  BY <1>1
    <2> QED BY <2>1, FS_Subset DEF SpamAssumption
  <1>3. m.words \cap Blocklist({}) \in SUBSET (m.words \cap Blocklist(more))  BY DEF Blocklist
  <1> QED BY <1>2, <1>3, FS_Subset, FS_CardinalityType

LEMMA StrongerLists ==
  ASSUME SpamAssumption, NEW m \in Mails, NEW words \in SUBSET Words,
         NEW addresses \in SUBSET Addresses, IsSpam(m, {}, {})
  PROVE  IsSpam(m, words, addresses)
  <1>1. m.oddName \in BOOLEAN /\ m.oddSubject \in BOOLEAN  BY DEF Mails
  <1> DEFINE few  == Cardinality(m.words \cap Blocklist({}))
             many == Cardinality(m.words \cap Blocklist(words))
  <1>2. few \in Nat /\ many \in Nat /\ few <= many  BY MoreWordsFound
  <1>3. Score(m, {}, {}) = (IF m.oddName THEN 5 ELSE 0) + 3 * few + (IF m.oddSubject THEN 4 ELSE 0)
    BY <1>2 DEF Score
  <1>4. Score(m, words, addresses) =
          (IF m.address \in addresses THEN 10 ELSE 0) + (IF m.oddName THEN 5 ELSE 0) + 3 * many
          + (IF m.oddSubject THEN 4 ELSE 0)
    BY DEF Score
  <1> HIDE DEF few, many
  <1> QED BY <1>2, <1>3, <1>4 DEF IsSpam

LEMMA TwoSignals ==
  ASSUME SpamAssumption, NEW m \in Mails, NEW words \in SUBSET Words,
         NEW addresses \in SUBSET Addresses, IsSpam(m, words, addresses), m.address \notin addresses
  PROVE  Cardinality(m.words \cap (Curated \cup words)) +
           (IF m.oddName THEN 1 ELSE 0) + (IF m.oddSubject THEN 1 ELSE 0) >= 2
  <1> DEFINE found == Cardinality(m.words \cap (Curated \cup words))
  <1>1. found \in Nat  BY MoreWordsFound DEF Blocklist
  <1>2. Score(m, words, addresses) =
          0 + (IF m.oddName THEN 5 ELSE 0) + 3 * found + (IF m.oddSubject THEN 4 ELSE 0)
    BY DEF Score, Blocklist
  <1> HIDE DEF found
  <1> SUFFICES found + (IF m.oddName THEN 1 ELSE 0) + (IF m.oddSubject THEN 1 ELSE 0) >= 2
    BY DEF found
  <1> QED BY <1>1, <1>2 DEF IsSpam

LEMMA SpamBegins == SpamInit => SpamInv
  BY DEF SpamInit, SpamInv, SpamTypeOK, VerdictOK

LEMMA SpamSteps == SpamInv /\ [SpamNext]_spamVars => SpamInv'
  <1> SUFFICES ASSUME SpamInv, [SpamNext]_spamVars PROVE SpamInv'
    OBVIOUS
  <1>1. CASE Check
    BY <1>1 DEF Check, SpamInv, SpamTypeOK, VerdictOK, IsSpam, Score
  <1>2. CASE UNCHANGED spamVars
    BY <1>2 DEF spamVars, SpamInv, SpamTypeOK, VerdictOK, IsSpam, Score
  <1> QED BY <1>1, <1>2 DEF SpamNext

(* What the built-in lists catch is caught with any configured lists       *)
(* beside them, and no verdict of spam rests on one weak signal.           *)
THEOREM FilterNeverWeaker == SpamSpec => []NeverWeaker
  <1>1. SpamAssumption /\ SpamInv => NeverWeaker
    <2> SUFFICES ASSUME SpamAssumption, SpamInv PROVE NeverWeaker
      OBVIOUS
    <2>1. mail \in Mails /\ extra.words \in SUBSET Words /\ extra.addresses \in SUBSET Addresses
      BY DEF SpamInv, SpamTypeOK
    <2>2. verdict = "clean" => ~ IsSpam(mail, {}, {})
      BY <2>1, StrongerLists DEF SpamInv, VerdictOK
    <2>3. verdict = "spam" /\ mail.address \notin extra.addresses =>
            Cardinality(mail.words \cap (Curated \cup extra.words)) +
              (IF mail.oddName THEN 1 ELSE 0) + (IF mail.oddSubject THEN 1 ELSE 0) >= 2
      BY <2>1, TwoSignals DEF SpamInv, VerdictOK
    <2> QED BY <2>2, <2>3 DEF NeverWeaker
  <1> QED BY <1>1, SpamAssumption, SpamBegins, SpamSteps, PTL DEF SpamSpec
=============================================================================
