---------------------------- MODULE CommsDispatch ----------------------------
(***************************************************************************)
(* The outbound half of the daemon: the loop of src/main.rs that reads the *)
(* per-site ValKey streams as a consumer group, dispatches each entry to   *)
(* its channels, archives it to SQLite, acknowledges it and retries the    *)
(* channels that failed.                                                   *)
(*                                                                         *)
(* The daemon is one sequential task, so its interleavings are with the    *)
(* outside: producers appending entries and saving settings, the stream    *)
(* being trimmed, time passing (backoff, rate window, retry delays), a     *)
(* call to ValKey, SQLite or a provider failing, and a crash after any of  *)
(* its external effects.                                                   *)
(*                                                                         *)
(* One iteration of the loop is the cycle of `phase`                       *)
(*     read -> main -> claim -> retry -> read                              *)
(* and `job` is the entry in hand, at the stage it has reached             *)
(*     send -> archive -> ack -> settle (-> mark, retries only) -> idle    *)
(***************************************************************************)
EXTENDS Naturals, FiniteSets

CONSTANTS
  N,            (* entries the producers append, numbered in stream order   *)
  Sites,        (* tenant sites: one stream and one archive each            *)
  Ids,          (* message ids; two entries may carry the same id           *)
  Channels,     (* notification channels                                    *)
  SiteOf,       (* the site of an entry                                     *)
  IdOf,         (* the message id of an entry                               *)
  KindOf,       (* the kind of an entry                                     *)
  Routes,       (* channel sets that routing may choose                     *)
  Production,   (* TRUE when the daemon runs --environment production       *)
  MaxPerWindow, (* dispatches per site and rate window                      *)
  MaxAttempts,  (* config.retry.max_attempts                                *)
  MaxFaults     (* bound: failures and crashes a behaviour may contain      *)

Entries == 1 .. N

(* An entry is unparsed when the site id in its stream's key is invalid.   *)
Kinds == {"plain", "spam", "settings.reload", "system", "test", "unparsed"}

ASSUME DispatchAssumption ==
  /\ N \in Nat
  /\ SiteOf \in [Entries -> Sites]
  /\ IdOf   \in [Entries -> Ids]
  /\ KindOf \in [Entries -> Kinds]
  /\ \A e, f \in Entries : IdOf[e] = IdOf[f] => SiteOf[e] = SiteOf[f]
  /\ \A e, f \in Entries :
       SiteOf[e] = SiteOf[f] => (KindOf[e] = "unparsed" <=> KindOf[f] = "unparsed")
  /\ Routes \subseteq SUBSET Channels
  /\ Production \in BOOLEAN
  /\ MaxPerWindow \in Nat \ {0}
  /\ MaxAttempts  \in Nat \ {0}
  /\ MaxFaults    \in Nat

VARIABLES
  (* ValKey: the streams and their consumer group *)
  added,      (* entries 1 .. added have been XADDed                        *)
  delivered,  (* last-delivered-id of the group                             *)
  pel,        (* entries delivered to the group and not acknowledged        *)
  trimmed,    (* entries that have left the stream history                 *)
  retry,      (* {site}:comms:retry:{id}                                    *)
  cfg,        (* version of {site}:comms:config                             *)
  (* SQLite *)
  row,        (* status of the archived message, "none" when there is no row *)
  (* The daemon's memory *)
  phase,      (* where in the loop it is, "down" when it does not run       *)
  batch,      (* entries read or claimed and not yet looked at              *)
  due,        (* retry states found due and not yet looked at               *)
  job,        (* the entry in hand                                          *)
  cache,      (* settings cache: the version held, NotCached when none      *)
  backoff,    (* sites in archive backoff                                   *)
  used,       (* dispatches counted in the site's rate window               *)
  (* The environment and what the properties remember *)
  sends,      (* deliveries a provider accepted, per message and channel    *)
  how,        (* how an entry left the pending list                         *)
  gaveUp,     (* messages whose retry the daemon abandoned                  *)
  budget,     (* failures and crashes still allowed                         *)
  seen        (* kinds of failure that have happened                        *)

streamVars  == <<added, delivered, pel, trimmed>>
storeVars   == <<retry, cfg, row>>
loopVars    == <<phase, batch, due>>
memVars     == <<cache, backoff, used>>
faultVars   == <<budget, seen>>
historyVars == <<sends, how, gaveUp>>
vars == <<streamVars, storeVars, loopVars, job, memVars, faultVars, historyVars>>

FaultKinds == {"crash", "sqlite", "blind", "valkey", "provider", "scan", "late"}

(* Ways an entry leaves the pending list; "none" while it has not.         *)
Settled == {"dup", "spam", "control", "archived", "mixed", "claimed",
            "error", "trimmed"}

Stages == {"idle", "send", "archive", "ack", "settle", "mark"}

Statuses == {"none", "pending", "sent", "failed", "skipped", "spam"}

(* A row with one of these was completed by update_status.                 *)
Terminal == {"sent", "failed", "skipped", "spam"}

NotCached == N + 1

(* What a retry key holds; a key that does not exist has no attempts.      *)
RetryState == [attempts : 0 .. MaxAttempts, entry : 0 .. N, chans : SUBSET Channels]
NoRetry == [attempts |-> 0, entry |-> 0, chans |-> {}]

DueState == [id : Ids, entry : Entries, chans : SUBSET Channels, copy : {1, 2}]

(* The skip entry of a dispatch refused as a whole, with no channel result. *)
All == "all"

Job == [stage : Stages, path : {"main", "claim", "retry"}, e : 0 .. N,
        todo : SUBSET Channels, ok : SUBSET Channels, fail : SUBSET Channels,
        skip : SUBSET (Channels \cup {All}), how : Settled \cup {"none"}]

Idle == [stage |-> "idle", path |-> "main", e |-> 0, todo |-> {}, ok |-> {},
         fail |-> {}, skip |-> {}, how |-> "none"]

StreamsOK ==
  /\ added \in 0 .. N /\ delivered \in 0 .. N
  /\ pel \subseteq Entries /\ trimmed \subseteq Entries

RetryOK == retry \in [Ids -> RetryState]
CfgOK   == cfg \in [Sites -> 0 .. N]
RowOK   == row \in [Ids -> Statuses]
LoopOK  == /\ phase \in {"down", "read", "main", "claim", "retry"}
           /\ batch \subseteq Entries /\ due \subseteq DueState
JobOK   == job \in Job
CacheOK == cache \in [Sites -> 0 .. NotCached]
BackoffOK == backoff \subseteq Sites
UsedOK  == used \in [Sites -> 0 .. MaxPerWindow]
FaultOK == budget \in 0 .. MaxFaults /\ seen \subseteq FaultKinds
SendsOK == sends \in [Ids -> [Channels -> Nat]]
HowOK   == how \in [Entries -> Settled \cup {"none"}] /\ gaveUp \subseteq Ids

(* Every variable has its type; what can go wrong in it is the rate window *)
(* overdrawn, a retry that points to no entry and a cache ahead of the     *)
(* saved settings.                                                         *)
TypeOK ==
  /\ StreamsOK /\ RetryOK /\ CfgOK /\ RowOK /\ LoopOK /\ JobOK
  /\ CacheOK /\ BackoffOK /\ UsedOK /\ FaultOK /\ SendsOK /\ HowOK

Init ==
  /\ added = 0 /\ delivered = 0 /\ pel = {} /\ trimmed = {}
  /\ retry = [id \in Ids |-> NoRetry]
  /\ cfg = [s \in Sites |-> 0]
  /\ row = [id \in Ids |-> "none"]
  /\ phase = "read" /\ batch = {} /\ due = {} /\ job = Idle
  /\ cache = [s \in Sites |-> NotCached]
  /\ backoff = {}
  /\ used = [s \in Sites |-> 0]
  /\ sends = [id \in Ids |-> [c \in Channels |-> 0]]
  /\ how = [e \in Entries |-> "none"]
  /\ gaveUp = {}
  /\ budget = MaxFaults /\ seen = {}

Fault(kind) == budget > 0 /\ budget' = budget - 1 /\ seen' = seen \cup {kind}
NoFault == UNCHANGED faultVars

-----------------------------------------------------------------------------
(* Producers, ValKey and time.                                             *)

(* A settings save writes the config key; its reload entry follows.        *)
SaveSettings(e) ==
  /\ e > added /\ KindOf[e] = "settings.reload" /\ cfg[SiteOf[e]] < e
  /\ cfg' = [cfg EXCEPT ![SiteOf[e]] = e]
  /\ UNCHANGED <<streamVars, retry, row, loopVars, job, memVars, faultVars, historyVars>>

Append(e) ==
  /\ e = added + 1
  /\ KindOf[e] = "settings.reload" => cfg[SiteOf[e]] >= e
  /\ added' = e
  /\ UNCHANGED <<delivered, pel, trimmed, storeVars, loopVars, job, memVars,
                 faultVars, historyVars>>

(* MAXLEN trims the oldest entry of a stream, acknowledged or not.         *)
Trim(e) ==
  /\ e <= delivered /\ e \notin trimmed
  /\ \A f \in Entries : f < e /\ SiteOf[f] = SiteOf[e] => f \in trimmed
  /\ trimmed' = trimmed \cup {e}
  /\ UNCHANGED <<added, delivered, pel, storeVars, loopVars, job, memVars,
                 faultVars, historyVars>>

BackoffNeverEnds(s) == s \in backoff /\ backoff = {} /\ UNCHANGED vars
BackoffEnds(s) ==
  /\ s \in backoff
  /\ backoff' = backoff \ {s}
  /\ UNCHANGED <<streamVars, storeVars, loopVars, job, cache, used, faultVars, historyVars>>

WindowSlides(s) ==
  /\ used[s] > 0
  /\ used' = [used EXCEPT ![s] = @ - 1]
  /\ UNCHANGED <<streamVars, storeVars, loopVars, job, cache, backoff, faultVars, historyVars>>

(* A retry key lives for 2 max_delay_secs and is due after at most 1.2 of  *)
(* them, so it expires unseen when the daemon is down, or when sweep after *)
(* sweep was held up by the rate limiter or an outage.                     *)
RetryKeyExpires(id) ==
  /\ retry[id].attempts > 0
  /\ IF phase = "down" THEN NoFault ELSE Fault("late")
  /\ retry' = [retry EXCEPT ![id] = NoRetry]
  /\ UNCHANGED <<streamVars, cfg, row, loopVars, job, memVars, historyVars>>

(* Everything in memory is lost; ValKey and SQLite stay.                   *)
Crash ==
  /\ phase # "down" /\ Fault("crash")
  /\ phase' = "down" /\ batch' = {} /\ due' = {} /\ job' = Idle
  /\ cache' = [s \in Sites |-> NotCached]
  /\ backoff' = {}
  /\ used' = [s \in Sites |-> 0]
  /\ UNCHANGED <<streamVars, storeVars, historyVars>>

Restart ==
  /\ phase = "down"
  /\ phase' = "read"
  /\ UNCHANGED <<streamVars, storeVars, batch, due, job, memVars, faultVars, historyVars>>

-----------------------------------------------------------------------------
(* Reading and claiming.                                                   *)

Free == job.stage = "idle" /\ batch = {} /\ due = {}

Readable(S) == {e \in S : KindOf[e] # "unparsed"}

Unread == {e \in Entries : delivered < e /\ e <= added}

Lost(S) == S # {} /\ Fault("valkey")

(* XREADGROUP ">" on every stream: what is not yet delivered becomes       *)
(* pending; an entry that does not parse is logged and left there. The     *)
(* call may fail, or its reply be lost after the entries were handed over. *)
Read ==
  /\ phase = "read"
  /\ phase' = "main"
  /\ \/ delivered' = added /\ pel' = pel \cup Unread /\ batch' = Readable(Unread) /\ NoFault
     \/ delivered' = added /\ pel' = pel \cup Unread /\ batch' = {} /\ Lost(Unread)
     \/ UNCHANGED <<delivered, pel>> /\ batch' = {} /\ Lost(Unread)
  /\ UNCHANGED <<added, trimmed, storeVars, due, job, memVars, historyVars>>

(* XAUTOCLAIM of the entries idle for idle_claim_ms: which ones those are  *)
(* depends on time alone. An entry trimmed from the stream leaves the      *)
(* pending list here.                                                      *)
Claim(S) ==
  /\ phase = "main" /\ Free /\ S \subseteq pel
  /\ phase' = "claim"
  /\ batch' = Readable(S \ trimmed)
  /\ pel' = pel \ (S \cap trimmed)
  /\ how' = [e \in Entries |-> IF e \in S \cap trimmed THEN "trimmed" ELSE how[e]]
  /\ UNCHANGED <<added, delivered, trimmed, storeVars, due, job, memVars,
                 faultVars, sends, gaveUp>>

(* get_due_retries: the states whose next_retry has passed, as they are at *)
(* the sweep. SCAN may return a key twice and scan_keys keeps both.        *)
Sweep(S, twice) ==
  /\ phase = "claim" /\ Free
  /\ S \subseteq {id \in Ids : retry[id].attempts > 0} /\ twice \subseteq S
  /\ IF twice = {} THEN NoFault ELSE Fault("scan")
  /\ phase' = "retry"
  /\ due' = {[id |-> id, entry |-> retry[id].entry, chans |-> retry[id].chans, copy |-> 1]
               : id \in S}
      \cup  {[id |-> id, entry |-> retry[id].entry, chans |-> retry[id].chans, copy |-> 2]
               : id \in twice}
  /\ UNCHANGED <<streamVars, storeVars, batch, job, memVars, historyVars>>

EndLoop ==
  /\ phase = "retry" /\ Free
  /\ phase' = "read"
  /\ UNCHANGED <<streamVars, storeVars, batch, due, job, memVars, faultVars, historyVars>>

-----------------------------------------------------------------------------
(* The guards an entry passes, in the order of the code. On the main path  *)
(*   backoff, already sent, spam, settings.reload, test, system, rate      *)
(* and on the claim path                                                   *)
(*   backoff, already sent, retries exhausted, spam, rate.                 *)

Taking(e) ==
  /\ phase \in {"main", "claim"} /\ job.stage = "idle"
  /\ e \in batch /\ \A f \in batch : e <= f
  /\ batch' = batch \ {e}

(* is_already_sent answers FALSE when SQLite cannot be read.               *)
NoDedup(e) == NoFault
Undelivered(e) ==
  IF row[IdOf[e]] = "sent" THEN Fault("blind") ELSE NoFault

Exhausted(e) == phase = "claim" /\ retry[IdOf[e]].attempts >= MaxAttempts

IsControl(e) ==
  \/ KindOf[e] \in {"settings.reload", "system"}
  \/ KindOf[e] = "test" /\ Production

Control(e) == phase = "main" /\ IsControl(e)

RateAllowsOneMore(s) == used[s] <= MaxPerWindow
RateAllows(s) == used[s] < MaxPerWindow

(* Not acknowledged: the entry stays pending until a claim finds it idle.  *)
HoldInBackoff(e) ==
  /\ Taking(e) /\ SiteOf[e] \in backoff
  /\ UNCHANGED <<streamVars, storeVars, phase, due, job, memVars, faultVars, historyVars>>

SkipDuplicate(e) ==
  /\ Taking(e) /\ SiteOf[e] \notin backoff /\ row[IdOf[e]] = "sent"
  /\ job' = [Idle EXCEPT !.stage = "ack", !.path = phase, !.e = e, !.how = "dup"]
  /\ UNCHANGED <<streamVars, storeVars, phase, due, memVars, faultVars, historyVars>>

(* Archived without a dispatch: spam, or a claimed entry out of attempts.  *)
ArchiveOnly(e) ==
  /\ Taking(e) /\ SiteOf[e] \notin backoff /\ Undelivered(e)
  /\ Exhausted(e) \/ KindOf[e] = "spam"
  /\ job' = [Idle EXCEPT !.stage = "archive", !.path = phase, !.e = e,
                         !.how = IF Exhausted(e) THEN "claimed" ELSE "spam"]
  /\ UNCHANGED <<streamVars, storeVars, phase, due, memVars, historyVars>>

ControlKeepsCache(e) ==
  /\ Taking(e) /\ SiteOf[e] \notin backoff /\ Undelivered(e)
  /\ Control(e)
  /\ job' = [Idle EXCEPT !.stage = "ack", !.path = "main", !.e = e, !.how = "control"]
  /\ UNCHANGED <<streamVars, storeVars, phase, due, memVars, historyVars>>

(* settings.reload drops the cached settings; test in production and       *)
(* system do nothing. All three are acknowledged and never archived.       *)
HandleControl(e) ==
  /\ Taking(e) /\ SiteOf[e] \notin backoff /\ Undelivered(e)
  /\ Control(e)
  /\ cache' = IF KindOf[e] = "settings.reload"
              THEN [cache EXCEPT ![SiteOf[e]] = NotCached]
              ELSE cache
  /\ job' = [Idle EXCEPT !.stage = "ack", !.path = "main", !.e = e, !.how = "control"]
  /\ UNCHANGED <<streamVars, storeVars, phase, due, backoff, used, historyVars>>

DispatchableSpam(e) ==
  /\ Taking(e) /\ SiteOf[e] \notin backoff /\ Undelivered(e)
  /\ ~Exhausted(e) /\ (KindOf[e] = "spam" => phase = "claim") /\ ~Control(e)

(* The guards of a dispatch that come before the rate limiter.             *)
Dispatchable(e) ==
  /\ Taking(e) /\ SiteOf[e] \notin backoff /\ Undelivered(e)
  /\ ~Exhausted(e) /\ KindOf[e] # "spam" /\ ~Control(e)

HoldRateLimited(e) ==
  /\ Dispatchable(e) /\ ~RateAllows(SiteOf[e])
  /\ UNCHANGED <<streamVars, storeVars, phase, due, job, memVars, historyVars>>

(* get_settings: the cached version, or the stored one, which is cached.   *)
LoadSettings(s) ==
  cache' = IF cache[s] = NotCached THEN [cache EXCEPT ![s] = cfg[s]] ELSE cache

Count(s) == used' = [used EXCEPT ![s] = @ + 1]

(* dispatch returns an error, before any channel is tried: the settings    *)
(* cannot be loaded, or they can and the day's addressed count cannot be   *)
(* read. No row is written and the retry state will name no channel.       *)
DispatchError(e) ==
  /\ Dispatchable(e) /\ RateAllows(SiteOf[e]) /\ Count(SiteOf[e])
  /\ LoadSettings(SiteOf[e]) \/ UNCHANGED cache
  /\ job' = [Idle EXCEPT !.stage = "ack", !.path = phase, !.e = e, !.how = "error"]
  /\ UNCHANGED <<streamVars, storeVars, phase, due, backoff, historyVars>>

(* The channels of a dispatch, or a refusal that skips it as a whole (site *)
(* disabled, addressed message over its cap or of a type not allowed).     *)
Dispatch(e, route, refused) ==
  /\ Dispatchable(e) /\ RateAllows(SiteOf[e]) /\ Count(SiteOf[e])
  /\ LoadSettings(SiteOf[e])
  /\ job' = [Idle EXCEPT !.stage = "send", !.path = phase, !.e = e,
                         !.todo = IF refused THEN {} ELSE route,
                         !.skip = IF refused THEN {All} ELSE {},
                         !.how = IF phase = "main" THEN "archived" ELSE "claimed"]
  /\ UNCHANGED <<streamVars, storeVars, phase, due, backoff, historyVars>>

-----------------------------------------------------------------------------
(* Sending: dispatch_filtered tries every channel, whatever the others did. *)

Sent(j)     == j.ok # {} /\ j.fail = {}         \* DispatchResult::is_success
Deliver(c)  == sends' = [sends EXCEPT ![IdOf[job.e]][c] = @ + 1]

Send(c) ==
  /\ job.stage = "send" /\ c \in job.todo
  /\ Deliver(c) /\ NoFault
  /\ job' = [job EXCEPT !.todo = @ \ {c}, !.ok = @ \cup {c}]
  /\ UNCHANGED <<streamVars, storeVars, loopVars, memVars, how, gaveUp>>

(* Disabled, no recipients, dry run, delivery off, or a record channel.    *)
SendSkipped(c) ==
  /\ job.stage = "send" /\ c \in job.todo
  /\ job' = [job EXCEPT !.todo = @ \ {c}, !.skip = @ \cup {c}]
  /\ UNCHANGED <<streamVars, storeVars, loopVars, memVars, faultVars, historyVars>>

SendFails(c) ==
  /\ job.stage = "send" /\ c \in job.todo
  /\ job' = [job EXCEPT !.todo = @ \ {c}, !.fail = @ \cup {c}]
  /\ UNCHANGED <<streamVars, storeVars, loopVars, memVars, faultVars, historyVars>>

(* The provider took the message and its answer was lost.                  *)
SendAnswerLost(c) ==
  /\ job.stage = "send" /\ c \in job.todo
  /\ Deliver(c) /\ Fault("provider")
  /\ job' = [job EXCEPT !.todo = @ \ {c}, !.fail = @ \cup {c}]
  /\ UNCHANGED <<streamVars, storeVars, loopVars, memVars, how, gaveUp>>

SendsDone ==
  /\ job.stage = "send" /\ job.todo = {}
  /\ job' = [job EXCEPT
       !.stage = IF job.path = "retry" THEN "settle" ELSE "archive",
       !.how = IF job.path = "main" /\ job.skip # {} /\ job.fail # {} THEN "mixed" ELSE @]
  /\ UNCHANGED <<streamVars, storeVars, loopVars, memVars, faultVars, historyVars>>

-----------------------------------------------------------------------------
(* Archiving.                                                              *)

(* The status a dispatch is archived with. Every channel failure counts as *)
(* retryable, so partial_sent is never reached.                            *)
MainStatus(j) ==
  IF Sent(j) THEN "sent"
  ELSE IF j.fail # {} THEN "failed"
  ELSE IF j.skip # {} THEN "skipped"
  ELSE "sent"

ClaimStatus(j) == IF Sent(j) THEN "sent" ELSE "failed"

Status(j) ==
  IF j.how = "spam" THEN "spam"
  ELSE IF j.path = "main" THEN MainStatus(j)
  ELSE ClaimStatus(j)

(* archive_message: insert the row unless it exists, set its status, then  *)
(* record each channel's result.                                           *)
Archive ==
  /\ job.stage = "archive"
  /\ row' = [row EXCEPT ![IdOf[job.e]] = Status(job)]
  /\ backoff' = IF job.path = "main" THEN backoff \ {SiteOf[job.e]} ELSE backoff
  /\ job' = [job EXCEPT !.stage = "ack"]
  /\ UNCHANGED <<streamVars, retry, cfg, loopVars, cache, used, faultVars, historyVars>>

Results(j) == j.ok \cup j.fail \cup (j.skip \ {All})

ArchiveReplaces(written) ==
  /\ job.stage = "archive" /\ Fault("sqlite")
  /\ written = 2 => Results(job) # {}
  /\ row' = CASE written = 0 -> row
              [] written = 1 -> [row EXCEPT ![IdOf[job.e]] = "pending"]
              [] written = 2 -> [row EXCEPT ![IdOf[job.e]] = Status(job)]
  /\ IF job.path = "main"
     THEN backoff' = backoff \cup {SiteOf[job.e]} /\ job' = Idle
     ELSE backoff' = backoff /\ job' = [job EXCEPT !.stage = "ack"]
  /\ UNCHANGED <<streamVars, retry, cfg, loopVars, cache, used, historyVars>>

ArchiveIgnored(written) ==
  /\ job.stage = "archive" /\ Fault("sqlite")
  /\ row' = IF written = 2 THEN [row EXCEPT ![IdOf[job.e]] = Status(job)] ELSE row
  /\ job' = [job EXCEPT !.stage = "ack"]
  /\ UNCHANGED <<streamVars, retry, cfg, loopVars, memVars, historyVars>>

(* It failed after none, one or two of its three writes. The main path     *)
(* puts the site in backoff and leaves the entry pending; the claim path   *)
(* goes on to acknowledge.                                                 *)
ArchiveFails(written) ==
  /\ job.stage = "archive" /\ Fault("sqlite")
  /\ written = 2 => Results(job) # {}
  /\ row' = CASE written = 0 -> row
              [] written = 1 -> [row EXCEPT ![IdOf[job.e]] = IF @ = "none" THEN "pending" ELSE @]
              [] written = 2 -> [row EXCEPT ![IdOf[job.e]] = Status(job)]
  /\ IF job.path = "main"
     THEN backoff' = backoff \cup {SiteOf[job.e]} /\ job' = Idle
     ELSE backoff' = backoff /\ job' = [job EXCEPT !.stage = "ack"]
  /\ UNCHANGED <<streamVars, retry, cfg, loopVars, cache, used, historyVars>>

-----------------------------------------------------------------------------
(* Acknowledging, and what follows it in the retry keys.                   *)

AfterPartial(j) ==
  CASE j.how \in {"dup", "control", "spam"} -> "none"
    [] j.how = "error"   -> "record"
    [] j.how = "trimmed" -> "drop"
    [] j.path = "retry"  -> IF j.fail = {} THEN "clear" ELSE "record"
    [] OTHER -> IF j.ok # {} THEN "clear" ELSE IF j.fail # {} THEN "record" ELSE "none"

AfterNoClear(j) ==
  CASE j.how = "error"  -> "record"
    [] j.path = "retry" -> IF j.fail = {} THEN "clear" ELSE "record"
    [] OTHER -> IF j.path = "main" /\ j.fail # {} THEN "record" ELSE "none"

(* The retry-key operation after the acknowledgement (main, claim) or      *)
(* after the sends (retry).                                                *)
After(j) ==
  CASE j.how \in {"dup", "control", "spam"} -> "none"
    [] j.how = "error"   -> "record"
    [] j.how = "trimmed" -> "drop"
    [] j.path = "main"  /\ j.how \in {"archived", "mixed"} ->
         IF Sent(j) \/ j.skip # {} THEN "clear" ELSE IF j.fail # {} THEN "record" ELSE "none"
    [] j.path = "claim" /\ j.how = "claimed" -> IF Sent(j) THEN "clear" ELSE "none"
    [] OTHER -> IF j.fail = {} THEN "clear" ELSE "record"

(* What the claim path archived, it acknowledges without looking at the    *)
(* result.                                                                 *)
SettledAs(j) == IF j.path = "claim" /\ j.how = "spam" THEN "claimed" ELSE j.how

Ack ==
  /\ job.stage = "ack"
  /\ \/ pel' = pel \ {job.e} /\ how' = [how EXCEPT ![job.e] = SettledAs(job)] /\ NoFault
     \/ UNCHANGED <<pel, how>> /\ Fault("valkey")
  /\ job' = IF After(job) = "none" THEN Idle ELSE [job EXCEPT !.stage = "settle"]
  /\ UNCHANGED <<added, delivered, trimmed, storeVars, loopVars, memVars, sends, gaveUp>>

RecordOneMore(id, e, chans) ==
  LET n == retry[id].attempts + 1 IN
  IF n > MaxAttempts
  THEN retry' = [retry EXCEPT ![id] = NoRetry] /\ gaveUp' = gaveUp \cup {id}
  ELSE retry' = [retry EXCEPT ![id] = [attempts |-> n, entry |-> e, chans |-> chans]]
       /\ gaveUp' = gaveUp \ {id}

RecordUncounted(id, e, chans) ==
  retry' = [retry EXCEPT ![id] = [attempts |-> 1, entry |-> e, chans |-> chans]]
  /\ UNCHANGED gaveUp

(* RetryManager::record_failure: one more attempt, or the key is dropped.  *)
RecordFailure(id, e, chans) ==
  LET n == retry[id].attempts + 1 IN
  IF n >= MaxAttempts
  THEN /\ retry' = [retry EXCEPT ![id] = NoRetry]
       /\ gaveUp' = gaveUp \cup {id}
  ELSE /\ retry' = [retry EXCEPT ![id] =
              [attempts |-> n,
               entry    |-> IF retry[id].attempts = 0 THEN e ELSE retry[id].entry,
               chans    |-> chans]]
       /\ gaveUp' = gaveUp \ {id}

ClearRetry(id) == retry' = [retry EXCEPT ![id] = NoRetry]

SettleNext ==
  IF job.path = "retry" /\ After(job) = "clear" THEN [job EXCEPT !.stage = "mark"] ELSE Idle

Settle ==
  /\ job.stage = "settle"
  /\ LET id == IdOf[job.e] IN
       CASE After(job) = "record" -> RecordFailure(id, job.e, job.fail)
         [] After(job) = "drop"   -> ClearRetry(id) /\ gaveUp' = gaveUp \cup {id}
         [] OTHER                 -> ClearRetry(id) /\ UNCHANGED gaveUp
  /\ job' = SettleNext
  /\ UNCHANGED <<streamVars, cfg, row, loopVars, memVars, faultVars, sends, how>>

SettleFails ==
  /\ job.stage = "settle" /\ Fault("valkey")
  /\ job' = SettleNext
  /\ UNCHANGED <<streamVars, storeVars, loopVars, memVars, historyVars>>

-----------------------------------------------------------------------------
(* The retry sweep. A retry takes from the site's rate window, and from no *)
(* other guard of a first dispatch.                                        *)

TakingRetry(r) ==
  /\ phase = "retry" /\ job.stage = "idle" /\ r \in due
  /\ due' = due \ {r}

RetryRateLimited(r) ==
  /\ TakingRetry(r) /\ ~RateAllows(SiteOf[r.entry])
  /\ UNCHANGED <<streamVars, storeVars, phase, batch, job, memVars, faultVars, historyVars>>

RetryAllowed(r) ==
  TakingRetry(r) /\ RateAllows(SiteOf[r.entry]) /\ Count(SiteOf[r.entry])

RetryJob(r) == [Idle EXCEPT !.path = "retry", !.e = r.entry]

(* The entry has left the stream history: the retry is abandoned.          *)
RetryTrimmed(r) ==
  /\ RetryAllowed(r) /\ r.entry \in trimmed
  /\ job' = [RetryJob(r) EXCEPT !.stage = "settle", !.how = "trimmed"]
  /\ UNCHANGED <<streamVars, storeVars, phase, batch, cache, backoff, faultVars, historyVars>>

(* The fetch failed: the key stays for the next sweep.                     *)
RetryFetchFails(r) ==
  /\ RetryAllowed(r) /\ Fault("valkey")
  /\ UNCHANGED <<streamVars, storeVars, phase, batch, job, cache, backoff, historyVars>>

(* dispatch returns an error: the same channels are recorded again.        *)
RetryError(r) ==
  /\ RetryAllowed(r) /\ r.entry \notin trimmed
  /\ LoadSettings(SiteOf[r.entry]) \/ UNCHANGED cache
  /\ job' = [RetryJob(r) EXCEPT !.stage = "settle", !.how = "error", !.fail = r.chans]
  /\ UNCHANGED <<streamVars, storeVars, phase, batch, backoff, faultVars, historyVars>>

RetryEveryChannel(r, route, refused) ==
  /\ RetryAllowed(r) /\ r.entry \notin trimmed
  /\ LoadSettings(SiteOf[r.entry])
  /\ job' = [RetryJob(r) EXCEPT !.stage = "send",
                !.skip = IF refused THEN {All} ELSE {}, !.todo = IF refused THEN {} ELSE route]
  /\ UNCHANGED <<streamVars, storeVars, phase, batch, backoff, faultVars, historyVars>>

(* dispatch_channels: routing, narrowed to the channels that failed; an    *)
(* empty list narrows nothing.                                             *)
RetryDispatch(r, route, refused) ==
  /\ RetryAllowed(r) /\ r.entry \notin trimmed
  /\ LoadSettings(SiteOf[r.entry])
  /\ job' = [RetryJob(r) EXCEPT
       !.stage = "send", !.skip = IF refused THEN {All} ELSE {},
       !.todo = IF refused THEN {} ELSE IF r.chans = {} THEN route ELSE route \cap r.chans]
  /\ UNCHANGED <<streamVars, storeVars, phase, batch, backoff, faultVars, historyVars>>

(* No channel failed this time: after the key is cleared the row, if there *)
(* is one, becomes sent.                                                   *)
MarkSent ==
  /\ job.stage = "mark"
  /\ \/ /\ row' = [row EXCEPT ![IdOf[job.e]] = IF @ = "none" THEN @ ELSE "sent"]
        /\ NoFault
     \/ row' = row /\ Fault("sqlite")
  /\ job' = Idle
  /\ UNCHANGED <<streamVars, retry, cfg, loopVars, memVars, historyVars>>

-----------------------------------------------------------------------------
Environment ==
  \/ \E e \in Entries : SaveSettings(e)
  \/ \E e \in Entries : Append(e)
  \/ \E e \in Entries : Trim(e)
  \/ \E s \in Sites : BackoffEnds(s)
  \/ \E s \in Sites : WindowSlides(s)
  \/ \E id \in Ids : RetryKeyExpires(id)
  \/ Crash

Loop ==
  \/ Restart
  \/ Read
  \/ \E S \in SUBSET pel : Claim(S)
  \/ \E S \in SUBSET Ids : \E twice \in SUBSET S : Sweep(S, twice)
  \/ EndLoop

Guards ==
  \/ \E e \in Entries : HoldInBackoff(e)
  \/ \E e \in Entries : SkipDuplicate(e)
  \/ \E e \in Entries : ArchiveOnly(e)
  \/ \E e \in Entries : HandleControl(e)
  \/ \E e \in Entries : HoldRateLimited(e)
  \/ \E e \in Entries : DispatchError(e)
  \/ \E e \in Entries, route \in Routes, refused \in BOOLEAN : Dispatch(e, route, refused)

Steps ==
  \/ \E c \in Channels : Send(c)
  \/ \E c \in Channels : SendSkipped(c)
  \/ \E c \in Channels : SendFails(c)
  \/ \E c \in Channels : SendAnswerLost(c)
  \/ SendsDone
  \/ Archive
  \/ \E written \in 0 .. 2 : ArchiveFails(written)
  \/ Ack
  \/ Settle
  \/ SettleFails
  \/ MarkSent

Retries ==
  \/ \E r \in due : RetryRateLimited(r)
  \/ \E r \in due : RetryTrimmed(r)
  \/ \E r \in due : RetryFetchFails(r)
  \/ \E r \in due : RetryError(r)
  \/ \E r \in due, route \in Routes, refused \in BOOLEAN : RetryDispatch(r, route, refused)

Daemon == Loop \/ Guards \/ Steps \/ Retries

Next == Environment \/ Daemon

Spec == Init /\ [][Next]_vars

(* Fairness: the loop keeps running and systemd restarts it; time passes,  *)
(* so a backoff ends, the rate window slides, an entry left pending is     *)
(* sooner or later idle when claim_pending runs and a retry time has       *)
(* passed when the sweep runs.                                             *)
Fairness ==
  /\ WF_vars(Daemon)
  /\ \A s \in Sites : WF_vars(BackoffEnds(s)) /\ WF_vars(WindowSlides(s))
  /\ \A e \in Entries : SF_vars(\E S \in SUBSET pel : e \in S /\ Claim(S))
  /\ \A id \in Ids : SF_vars(\E S \in SUBSET Ids, twice \in SUBSET Ids :
                               id \in S /\ Sweep(S, twice))

FairSpec == Spec /\ Fairness
-----------------------------------------------------------------------------
(* Properties.                                                             *)

EntriesOf(id) == {e \in Entries : IdOf[e] = id}

(* The causes of an acknowledgement that the fence stands before.          *)
Fenced == {"archived", "mixed", "spam", "dup"}

(* What the main loop acknowledges is in the archive with a final status:  *)
(* the acknowledgement fence of the main path, whatever fails or crashes   *)
(* around it, and for every entry settled as a duplicate.                  *)
AckFence ==
  \A e \in Entries : how[e] \in Fenced => row[IdOf[e]] \in Terminal

(* No retry key ever holds max_attempts attempts, so the claim path's      *)
(* "exceeded max retries" branch never runs and a retry sequence ends.     *)
RetryBounded == \A id \in Ids : retry[id].attempts < MaxAttempts

(* Every delivery of a message beyond one per stream entry is paid for by  *)
(* a failure or a crash: claims, retries and the dedup guard by themselves *)
(* never send a channel the same entry twice.                              *)
DuplicatesExplained ==
  \A id \in Ids, c \in Channels :
    sends[id][c] <= Cardinality(EntriesOf(id)) + (MaxFaults - budget)

(* A spam message reaches no channel, by no path: not claimed, not retried. *)
SpamNeverSent ==
  \A id \in Ids : (\A e \in EntriesOf(id) : KindOf[e] = "spam")
                    => \A c \in Channels : sends[id][c] = 0

(* A message archived as failed by the main loop has its retry scheduled,  *)
(* unless the retry was given up: what failed is not forgotten.            *)
RetryScheduled ==
  job.stage = "idle" /\ seen \cap {"crash", "valkey", "sqlite", "late"} = {} =>
    \A id \in Ids :
      /\ row[id] = "failed"
      /\ \A e \in EntriesOf(id) : how[e] \notin {"mixed", "claimed"}
      => retry[id].attempts > 0 \/ id \in gaveUp

(* A message archived as sent is not waiting to be sent again. (Excepted   *)
(* are routes without a channel, a site with none enabled: such a dispatch *)
(* is archived as sent and leaves the key an earlier entry made.)          *)
SentNotRetried ==
  job.stage = "idle" /\ seen \subseteq {"provider"} /\ {} \notin Routes =>
    \A id \in Ids : row[id] = "sent" => retry[id].attempts = 0

(* A settings.reload acknowledged by the main loop has taken effect: the   *)
(* daemon holds no settings older than the save it announces.              *)
ReloadApplied ==
  \A e \in Entries :
    how[e] = "control" /\ KindOf[e] = "settings.reload" => cache[SiteOf[e]] >= e

(* Where an entry is, for the abstract specification.                      *)
Fate == [e \in Entries |->
  IF e \in pel THEN "pending"
  ELSE IF how[e] # "none" THEN how[e]
  ELSE IF e <= added THEN "queued" ELSE "absent"]

Abstract == INSTANCE EntryDelivery WITH
  fate <- Fate, archived <- {id \in Ids : row[id] \in Terminal},
  Unfenced <- Settled \ Fenced, Deletable <- {}

(* The daemon implements EntryDelivery: an entry is settled at most once,  *)
(* from the pending list and by one cause; a final row never goes back to  *)
(* none or pending; and the main path settles only what is archived.       *)
ImplementsDelivery == Abstract!Spec

(* While the archive can be read, a row that says sent says so for ever:   *)
(* the dedup guard keeps a redelivered entry from overwriting it.          *)
SentIsFinal ==
  [][\A id \in Ids : row[id] = "sent" /\ "blind" \notin seen => row'[id] = "sent"]_vars

(* Every entry that parses is settled in the end, whatever failed on the   *)
(* way: nothing stays pending for ever.                                    *)
EventuallySettled ==
  \A e \in Entries : e <= added /\ KindOf[e] # "unparsed" ~> how[e] # "none"

(* Every retry ends: in a delivery, or given up.                           *)
RetriesEnd ==
  \A id \in Ids : retry[id].attempts > 0 ~> retry[id].attempts = 0

-----------------------------------------------------------------------------
(* What the documents and comments of the repository say, and the code     *)
(* does not do.                                                            *)

(* README.md: "every message is written to a per-site SQLite database; the *)
(* ValKey entry is XACKed only after that write succeeds".                 *)
AckedIsArchived ==
  \A e \in Entries : how[e] \notin {"none", "control", "trimmed"} => row[IdOf[e]] \in Terminal

(* CONTRACT.md: settings.reload "is never dispatched to a channel", and    *)
(* system "is never dispatched in any environment".                        *)
ControlNeverSent ==
  \A e \in Entries : IsControl(e) => \A c \in Channels : sends[IdOf[e]][c] = 0

(* CONTRACT.md: "a channel-level failure after ACK is retried by the       *)
(* daemon". Nothing has crashed and no call to a store has failed here.    *)
FailedIsRetried ==
  job.stage = "idle" /\ seen = {} =>
    \A id \in Ids : row[id] = "failed" => retry[id].attempts > 0 \/ id \in gaveUp

(* dispatcher.rs: a skip must not "archive the message as Sent without any *)
(* send firing".                                                           *)
SentWasDelivered ==
  \A id \in Ids : row[id] = "sent" => \E c \in Channels : sends[id][c] > 0
=============================================================================
