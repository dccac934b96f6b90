----------------------------- MODULE SiteStreams -----------------------------
(***************************************************************************)
(* How the stream consumer finds the sites it serves and reads all their   *)
(* streams at once: SiteDiscovery, the consumer groups, the one XREADGROUP *)
(* over every known stream, and the sweep that claims what stayed pending. *)
(* What is done with a message that was read is CommsDispatch's part: here *)
(* an entry is settled, or left pending by its handler.                    *)
(***************************************************************************)
EXTENDS Naturals, Sequences, FiniteSets, FiniteSetsExt

CONSTANTS
  SiteNames,
  ReadCount,       (* COUNT of XREADGROUP (consumer.batch_size)             *)
  ClaimCount,      (* COUNT of XAUTOCLAIM                                   *)
  IdleSweeps,      (* sweeps an entry stays idle before it can be claimed   *)
  MaxEntries,      (* bound: entries producers write to the streams         *)
  MaxMishaps       (* bound: failures, crashes and deletions                *)

ASSUME SiteStreamsAssumption ==
  /\ ReadCount \in Nat \ {0} /\ ClaimCount \in Nat \ {0}
  /\ IdleSweeps \in Nat /\ MaxEntries \in Nat /\ MaxMishaps \in Nat

VARIABLES
  (* ValKey *)
  metas,           (* sites with a gnode:site:<id>:meta key                 *)
  feeds,           (* the streams that exist: what their entries hold       *)
  groups,          (* streams with the consumer group                       *)
  lastGiven,       (* last-delivered-id of a group                          *)
  pel,             (* pending entries of a group, with their idle sweeps    *)
  (* The consumer's memory *)
  known,           (* known_sites                                           *)
  toGroup,         (* sites whose group sync_groups has still to ensure     *)
  step,            (* where the loop is                                     *)
  messages,        (* the messages a read or a claim returned               *)
  (* What the properties remember *)
  settled,         (* entries handled and acknowledged                      *)
  mishaps

valkeyVars  == <<metas, feeds, groups, lastGiven, pel>>
memoryVars  == <<known, toGroup, step, messages>>
streamsVars == <<valkeyVars, memoryVars, settled, mishaps>>

(* A field that is not UTF-8 cannot be converted to a String.              *)
Contents == {"text", "binary"}

Steps == {"down", "boot", "top", "groups", "read", "claim", "handle", "handleClaimed"}

StreamsTypeOK ==
  /\ metas \subseteq SiteNames /\ DOMAIN feeds \subseteq SiteNames
  /\ \A s \in DOMAIN feeds : feeds[s] \in Seq(Contents)
  /\ groups \subseteq DOMAIN feeds
  /\ \A s \in groups :
       lastGiven[s] \in 0 .. Len(feeds[s]) /\ DOMAIN pel[s] \subseteq 1 .. lastGiven[s]
  /\ known \subseteq SiteNames /\ toGroup \subseteq known /\ step \in Steps
  /\ \A m \in messages : m[1] \in SiteNames /\ m[2] \in Nat
  /\ mishaps \in 0 .. MaxMishaps

StreamsInit ==
  /\ metas = {} /\ feeds = << >> /\ groups = {}
  /\ lastGiven = [s \in SiteNames |-> 0] /\ pel = [s \in SiteNames |-> << >>]
  /\ known = {} /\ toGroup = {} /\ step = "down" /\ messages = {}
  /\ settled = {} /\ mishaps = MaxMishaps

Mishap == mishaps > 0 /\ mishaps' = mishaps - 1
NoMishap == UNCHANGED mishaps

-----------------------------------------------------------------------------
(* The sites' side.                                                        *)

RegisterSite(s) ==
  /\ s \notin metas /\ metas' = metas \cup {s}
  /\ UNCHANGED <<feeds, groups, lastGiven, pel, memoryVars, settled, mishaps>>

Produced == MapThenSumSet(LAMBDA t : Len(feeds[t]), DOMAIN feeds)

Produce(s, content) ==
  LET old == IF s \in DOMAIN feeds THEN feeds[s] ELSE << >>
  IN  /\ Produced < MaxEntries
      /\ feeds' = [t \in DOMAIN feeds \cup {s} |->
                     IF t = s THEN Append(old, content) ELSE feeds[t]]
      /\ UNCHANGED <<metas, groups, lastGiven, pel, memoryVars, settled, mishaps>>

(* DEL of a stream takes its group with it; here never while the loop has  *)
(* a message of the stream in hand.                                        *)
DropStream(s) ==
  /\ s \in DOMAIN feeds /\ Mishap /\ \A e \in messages : e[1] # s
  /\ feeds' = [t \in DOMAIN feeds \ {s} |-> feeds[t]]
  /\ groups' = groups \ {s}
  /\ lastGiven' = [lastGiven EXCEPT ![s] = 0] /\ pel' = [pel EXCEPT ![s] = << >>]
  /\ settled' = {e \in settled : e[1] # s}
  /\ UNCHANGED <<metas, memoryVars>>

-----------------------------------------------------------------------------
(* discover_sites: the sites with a stream, and those with a meta key; the *)
(* first scan's failure is the discovery's, the second's counts as finding *)
(* nothing. What was found is known at once.                               *)
Discovers(found) ==
  /\ \/ found = DOMAIN feeds \cup metas /\ NoMishap
     \/ found = DOMAIN feeds /\ Mishap
  /\ known' = found /\ toGroup' = found

(* Starting: without ValKey the daemon exits and is started again.         *)
Boot ==
  /\ step = "down" /\ step' = "boot"
  /\ \E found \in SUBSET SiteNames : Discovers(found)
  /\ UNCHANGED <<valkeyVars, messages, settled>>

(* maybe_rediscover when the interval is over.                             *)
Rediscover ==
  /\ step = "top"
  /\ \/ /\ \E found \in SUBSET SiteNames : Discovers(found)
        /\ step' = "groups"
     \/ /\ Mishap /\ step' = "read"
        /\ UNCHANGED <<known, toGroup>>
  /\ UNCHANGED <<valkeyVars, messages, settled>>

NotYet ==
  /\ step = "top" /\ step' = "read"
  /\ UNCHANGED <<valkeyVars, known, toGroup, messages, settled, mishaps>>

Ensuring == step \in {"boot", "groups"}

(* The group is created over one that is there.                            *)
RecreateGroup(s) ==
  /\ feeds' = [t \in DOMAIN feeds \cup {s} |-> IF t \in DOMAIN feeds THEN feeds[t] ELSE << >>]
  /\ groups' = groups \cup {s}
  /\ lastGiven' = [lastGiven EXCEPT ![s] = 0] /\ pel' = [pel EXCEPT ![s] = << >>]

(* The group starts at the newest entry.                                   *)
CreateGroupAtEnd(s) ==
  /\ feeds' = [t \in DOMAIN feeds \cup {s} |-> IF t \in DOMAIN feeds THEN feeds[t] ELSE << >>]
  /\ groups' = groups \cup {s}
  /\ lastGiven' = [lastGiven EXCEPT ![s] =
                     IF s \in groups THEN @
                     ELSE IF s \in DOMAIN feeds THEN Len(feeds[s]) ELSE 0]
  /\ UNCHANGED pel

(* XGROUP CREATE from entry 0 with MKSTREAM; BUSYGROUP is fine.            *)
CreateGroup(s) ==
  /\ feeds' = [t \in DOMAIN feeds \cup {s} |-> IF t \in DOMAIN feeds THEN feeds[t] ELSE << >>]
  /\ groups' = groups \cup {s}
  /\ UNCHANGED <<lastGiven, pel>>

(* One site of sync_groups. A failure ends it: the sites that come later   *)
(* get no group, and the daemon exits if it was starting.                  *)
EnsureGroup(s) ==
  /\ Ensuring /\ s \in toGroup
  /\ \/ /\ CreateGroup(s) /\ toGroup' = toGroup \ {s} /\ NoMishap
        /\ UNCHANGED <<known, step>>
     \/ /\ Mishap /\ toGroup' = {}
        /\ step' = IF step = "boot" THEN "down" ELSE "read"
        /\ known' = IF step = "boot" THEN {} ELSE known
        /\ UNCHANGED <<feeds, groups, lastGiven, pel>>
  /\ UNCHANGED <<metas, messages, settled>>

Synced ==
  /\ Ensuring /\ toGroup = {}
  /\ step' = IF step = "boot" THEN "top" ELSE "read"
  /\ UNCHANGED <<valkeyVars, known, toGroup, messages, settled, mishaps>>

-----------------------------------------------------------------------------
(* What XREADGROUP would deliver of a stream.                              *)
NewIn(s) == {n \in (lastGiven[s] + 1) .. Len(feeds[s]) : n <= lastGiven[s] + ReadCount}

AllGrouped == known \subseteq groups

Delivered(s, new, idle) ==
  [n \in DOMAIN pel[s] \cup new |-> IF n \in new THEN 0 ELSE idle[n]]

(* read_messages: one XREADGROUP over the known streams, at most ReadCount *)
(* new entries of each. A stream without the group fails it all (NOGROUP). *)
(* A binary field fails the conversion of the reply when ValKey has        *)
(* already made its entries pending, and so does a lost reply.             *)
ReadMessages ==
  /\ step = "read"
  /\ IF AllGrouped
     THEN LET new == {e \in known \X (1 .. MaxEntries) : e[2] \in NewIn(e[1])}
          IN  /\ lastGiven' = [s \in SiteNames |->
                   IF s \in known THEN lastGiven[s] + Cardinality(NewIn(s)) ELSE lastGiven[s]]
              /\ pel' = [s \in SiteNames |->
                   IF s \in known THEN Delivered(s, NewIn(s), pel[s]) ELSE pel[s]]
              /\ IF \E e \in new : feeds[e[1]][e[2]] = "binary"
                 THEN messages' = {} /\ NoMishap
                 ELSE \/ messages' = new /\ NoMishap
                      \/ messages' = {} /\ new # {} /\ Mishap
     ELSE UNCHANGED <<lastGiven, pel, messages, mishaps>>
  /\ step' = "handle"
  /\ UNCHANGED <<metas, feeds, groups, known, toGroup, settled>>

(* The loop settles a message, or leaves it pending: its site is in        *)
(* backoff, over its rate, or the archive write failed.                    *)
Handle(e) ==
  /\ step \in {"handle", "handleClaimed"} /\ e \in messages /\ messages' = messages \ {e}
  /\ \/ /\ settled' = settled \cup {e} /\ NoMishap
        /\ pel' = [pel EXCEPT ![e[1]] = [n \in DOMAIN @ \ {e[2]} |-> @[n]]]
     \/ UNCHANGED <<settled, pel>> /\ Mishap
  /\ UNCHANGED <<metas, feeds, groups, lastGiven, known, toGroup, step>>

(* The iteration is over; every 30 seconds it ends with a sweep.           *)
EndIteration ==
  /\ messages = {}
  /\ \/ step = "handle" /\ step' \in {"claim", "top"}
     \/ step = "handleClaimed" /\ step' = "top"
  /\ UNCHANGED <<valkeyVars, known, toGroup, messages, settled, mishaps>>

(* A sweep later, every pending entry has been idle for longer.            *)
Aged(s) == [n \in DOMAIN pel[s] |-> IF pel[s][n] < IdleSweeps THEN pel[s][n] + 1 ELSE IdleSweeps]

Idle(s) == {n \in DOMAIN pel[s] : Aged(s)[n] = IdleSweeps}

(* XAUTOCLAIM from 0-0: the oldest idle entries, at most ClaimCount.       *)
Claims(s) == {n \in Idle(s) : Cardinality({m \in Idle(s) : m < n}) < ClaimCount}

(* claim_pending, stream by stream. The claimed entries are not idle any   *)
(* more, even when the reply is lost or holds a binary field and none of   *)
(* them is returned.                                                       *)
ClaimPending ==
  LET swept == known \cap groups
      readable == {s \in swept : \A n \in Claims(s) : feeds[s][n] = "text"}
  IN  /\ step = "claim" /\ step' = "handleClaimed"
      /\ pel' = [s \in SiteNames |->
                   IF s \in swept THEN Delivered(s, Claims(s), Aged(s)) ELSE Aged(s)]
      /\ \E lost \in SUBSET readable :
           /\ messages' = {e \in (readable \ lost) \X (1 .. MaxEntries) :
                             e[2] \in Claims(e[1])}
           /\ IF lost = {} THEN NoMishap ELSE Mishap
      /\ UNCHANGED <<metas, feeds, groups, lastGiven, known, toGroup, settled>>

Crash ==
  /\ step # "down" /\ step' = "down" /\ Mishap
  /\ known' = {} /\ toGroup' = {} /\ messages' = {}
  /\ UNCHANGED <<valkeyVars, settled>>

-----------------------------------------------------------------------------
ConsumerStep ==
  \/ Boot \/ NotYet \/ Synced \/ ReadMessages \/ EndIteration \/ ClaimPending
  \/ \E s \in SiteNames : EnsureGroup(s)
  \/ \E e \in messages : Handle(e)

StreamsNext ==
  \/ ConsumerStep \/ Rediscover \/ Crash
  \/ \E s \in SiteNames : RegisterSite(s) \/ DropStream(s) \/ \E c \in Contents : Produce(s, c)

(* The loop runs; the intervals of the discovery and of the sweep are over *)
(* again and again. (A discovery interval of 0 would turn re-discovery     *)
(* off; the default is a minute.)                                          *)
StreamsFairness ==
  /\ WF_streamsVars(ConsumerStep) /\ SF_streamsVars(Rediscover)
  /\ SF_streamsVars(step = "handle" /\ EndIteration /\ step' = "claim")

StreamsSpec == StreamsInit /\ [][StreamsNext]_streamsVars /\ StreamsFairness

-----------------------------------------------------------------------------
(* Properties.                                                             *)

(* An acknowledged entry is never handed to the loop again, whatever fails *)
(* and however often the groups are ensured.                               *)
SettledOnce == messages \cap settled = {}

AllText(s) == s \in DOMAIN feeds /\ \A n \in DOMAIN feeds[s] : feeds[s][n] = "text"

Unsettled(s) == {n \in DOMAIN feeds[s] : <<s, n>> \notin settled}

(* An entry of a stream without binary fields is settled in the end, if    *)
(* the stream is not deleted: also when it was written before the site was *)
(* found, when its first delivery failed with the entries of another site, *)
(* and when another site's missing group had stopped all reading.          *)
ReadableSettles ==
  \A s \in SiteNames :
    (AllText(s) /\ Unsettled(s) # {}) ~> (~ AllText(s) \/ Unsettled(s) = {})

(* Where an entry is, for the abstract specification: an entry the group   *)
(* was given that is neither pending nor settled is nowhere.               *)
SiteEntries == SiteNames \X (1 .. MaxEntries)

EntryFate == [e \in SiteEntries |->
  LET s == e[1] IN
  IF e[2] \in DOMAIN pel[s] THEN "pending"
  ELSE IF e \in settled THEN "settled"
  ELSE IF s \in DOMAIN feeds /\ e[2] \in (lastGiven[s] + 1) .. Len(feeds[s])
  THEN "queued" ELSE "absent"]

Consumer == INSTANCE EntryDelivery WITH
  Entries <- SiteEntries, Ids <- {}, IdOf <- << >>, Fenced <- {}, Unfenced <- {"settled"},
  Deletable <- {{s} \X (1 .. MaxEntries) : s \in SiteNames},
  fate <- EntryFate, archived <- {}

(* The consumer implements EntryDelivery, for all sites at once: whatever  *)
(* fails, an entry is delivered before it is settled and settled from the  *)
(* pending list, none is skipped by the group or dropped from the pending  *)
(* list unsettled, and none comes back to the queue; only the deletion of  *)
(* its stream takes it away.                                               *)
ConsumerDelivers == Consumer!Spec
=============================================================================
