----------------------------- MODULE RateLimiter -----------------------------
(***************************************************************************)
(* DispatchRateLimiter of src/main.rs: a sliding window of admissions per  *)
(* site, and a bound on the number of sites tracked at once. Time is       *)
(* counted in ticks; an admission keeps its number, and `admitted` gives   *)
(* the tick of every admission there ever was.                             *)
(***************************************************************************)
EXTENDS Naturals, Sequences, FiniteSets

CONSTANTS
  Callers,       (* site identifiers that dispatch                          *)
  MaxPerWindow,  (* dispatches a site may make within a window              *)
  WindowTicks,   (* length of the window                                    *)
  MaxTracked,    (* MAX_TRACKED_SITES                                       *)
  MaxClock,      (* bound: ticks                                            *)
  MaxCalls       (* bound: calls                                            *)

ASSUME LimiterAssumption ==
  /\ MaxPerWindow \in Nat /\ WindowTicks \in Nat /\ MaxTracked \in Nat
  /\ MaxClock \in Nat /\ MaxCalls \in Nat

VARIABLES
  windows,       (* the map: admissions not yet pruned, by tracked site     *)
  clock,         (* Instant::now()                                          *)
  admitted,      (* what the properties remember: the tick of an admission  *)
  calls,         (* calls made                                              *)
  limited        (* calls refused, by site; total_limited is their sum      *)

limiterVars == <<windows, clock, admitted, calls, limited>>

LimiterTypeOK ==
  /\ DOMAIN windows \subseteq Callers
  /\ \A s \in DOMAIN windows : windows[s] \subseteq DOMAIN admitted[s]
  /\ clock \in Nat /\ calls \in Nat
  /\ admitted \in [Callers -> Seq(Nat)]
  /\ limited \in [Callers -> Nat]

LimiterInit ==
  /\ windows = << >> /\ clock = 0 /\ calls = 0
  /\ admitted = [s \in Callers |-> << >>]
  /\ limited = [s \in Callers |-> 0]

(* t > cutoff                                                              *)
Within(t) == t + WindowTicks > clock

(* The admissions that a prune of the site's entry keeps.                  *)
Fresh(s) == {n \in windows[s] : Within(admitted[s][n])}

(* The entries that still have such an admission.                          *)
LiveEntries == {s \in DOMAIN windows : Fresh(s) # {}}

(* The site's entry counts only what was admitted in this very tick.       *)
EntryForgets(site) ==
  IF site \in LiveEntries THEN {n \in windows[site] : admitted[site][n] = clock} ELSE {}

(* The site's entry, pruned; a new entry is empty.                         *)
Entry(site) == IF site \in LiveEntries THEN Fresh(site) ELSE {}

(* The map is never pruned.                                                *)
PruneNever(site) ==
  IF Cardinality(DOMAIN windows) >= MaxTracked /\ site \notin DOMAIN windows
  THEN DOMAIN windows ELSE DOMAIN windows \cup {site}

(* The entries after the prune: the caller's too, unless the map is full   *)
(* of others.                                                              *)
Tracked(site) ==
  IF Cardinality(LiveEntries) >= MaxTracked /\ site \notin LiveEntries
  THEN LiveEntries ELSE LiveEntries \cup {site}

TryAcquire(site) ==
  LET admit == site \in Tracked(site) /\ Cardinality(Entry(site)) < MaxPerWindow
  IN  /\ calls < MaxCalls /\ calls' = calls + 1
      /\ admitted' = [admitted EXCEPT ![site] = IF admit THEN Append(@, clock) ELSE @]
      /\ limited' = [limited EXCEPT ![site] = IF admit THEN @ ELSE @ + 1]
      /\ windows' = [s \in Tracked(site) |->
                       IF s # site THEN windows[s]
                       ELSE IF admit THEN Entry(site) \cup {Len(admitted[site]) + 1}
                       ELSE Entry(site)]
      /\ UNCHANGED clock

Tick ==
  /\ clock < MaxClock /\ clock' = clock + 1
  /\ UNCHANGED <<windows, admitted, calls, limited>>

LimiterNext == Tick \/ \E s \in Callers : TryAcquire(s)

LimiterSpec == LimiterInit /\ [][LimiterNext]_limiterVars

-----------------------------------------------------------------------------
(* Properties.                                                             *)

(* However calls fall, no site is ever let through more than its allowance *)
(* in any stretch of time as long as the window: pruning, eviction of idle *)
(* entries and the re-insertion of a site never give an allowance twice.   *)
AllowanceKept ==
  \A s \in Callers : \A n \in DOMAIN admitted[s] :
    n > MaxPerWindow => admitted[s][n - MaxPerWindow] + WindowTicks <= admitted[s][n]

(* What was admitted within the window that ends now.                      *)
Recent(s) == {n \in DOMAIN admitted[s] : Within(admitted[s][n])}

(* A call is refused only to a site that has used its allowance up, or to  *)
(* one that finds the map full of sites which were all admitted within the *)
(* window: stale entries never keep a new site out.                        *)
RefusedForCause ==
  [][\A s \in Callers :
       limited'[s] # limited[s] =>
         \/ Cardinality(Recent(s)) >= MaxPerWindow
         \/ Recent(s) = {} /\ Cardinality({t \in Callers : Recent(t) # {}}) >= MaxTracked
    ]_limiterVars

(* What counts of every site's admissions.                                 *)
InWindow == [s \in Callers |-> Cardinality(Recent(s))]

Windows == INSTANCE RateAllowance WITH
  Clients <- Callers, Allowance <- MaxPerWindow, count <- InWindow

(* The map with its pruning, eviction and re-insertion of sites behaves    *)
(* like one plain counter per site: a call that is let through finds the   *)
(* count of the window that ends now below the allowance, raises that      *)
(* count alone and by one, and nothing else ever raises one.               *)
ActsAsCounter == Windows!Spec
=============================================================================
