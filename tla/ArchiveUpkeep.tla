---------------------------- MODULE ArchiveUpkeep ----------------------------
(***************************************************************************)
(* The message archive of one site while it is being cleaned up: the       *)
(* daemon writes rows and, between messages, runs the retention; an        *)
(* operator's command line runs the same cleanup, or `retry`, in a process *)
(* of its own. Every SQL statement is a step, so the two interleave (the   *)
(* three deletions by age, each of rows of its own, are one), and each of  *)
(* them may fail.                                                          *)
(***************************************************************************)
EXTENDS Naturals, FiniteSets, FiniteSetsExt

CONSTANTS
  Outcomes,     (* what may come of a message: sent, failed, skipped, spam  *)
  Policies,     (* retention settings, as [Cleaners -> record]: the command *)
                (* line's options set an age, spam and VACUUM of their own  *)
  MaxRows,      (* bound: messages that arrive                              *)
  MaxEvents,    (* bound: arrivals, days, cleanups and retry commands       *)
  MaxUpsets     (* bound: crashes and failed statements                     *)

ASSUME UpkeepAssumption ==
  /\ "sent" \in Outcomes /\ Outcomes \subseteq {"sent", "failed", "skipped", "spam"}
  /\ MaxRows \in Nat /\ MaxEvents \in Nat /\ MaxUpsets \in Nat
  /\ \A k \in Policies : \A p \in {"daemon", "cli"} :
       /\ k[p].maxAge \in Nat /\ k[p].sentAge \in Nat /\ k[p].failedAge \in Nat
       /\ k[p].maxCount \in Nat /\ k[p].minKeep \in Nat /\ k[p].maxSize \in Nat

Ids      == 1 .. MaxRows
Statuses == Outcomes \cup {"pending"}
Cleaners == {"daemon", "cli"}
NotYetMade == MaxEvents + 1
Off      == [at |-> "off", take |-> 0, deleted |-> FALSE]

VARIABLES
  policy,       (* the retention of each cleaner                            *)
  rows,         (* the messages table by id; nth is the order of receipt    *)
  file,         (* size of the database file, in rows                       *)
  today,
  arrived,      (* messages 1 .. arrived are on the stream                  *)
  unsettled,    (* those not acknowledged                                   *)
  seenTo,       (* 1 .. seenTo were read; one that comes again is claimed   *)
  job,          (* the message the daemon has in hand                       *)
  cleaner,      (* how far each process's cleanup is                        *)
  checked,      (* row the command line found retryable, 0 for none         *)
  events,       (* still allowed, as are the upsets                         *)
  upsets,
  (* What the properties remember *)
  sends,        (* how often a message was sent                             *)
  received,     (* the day its first row was made                           *)
  disturbed,    (* messages whose handling a crash or a failed statement    *)
                (* cut, that the operator set back, or that are spam no     *)
                (* more (with other lists)                                  *)
  overlapped    (* two cleanups ran at once                                 *)

upkeepGhosts == <<sends, received, disturbed, overlapped>>
upkeepVars   == <<policy, rows, file, today, arrived, unsettled, seenTo, job, cleaner, checked,
                  events, upsets, upkeepGhosts>>

(* The parts of a cleanup in their order; two of them count, then delete.  *)
Stages     == <<"age", "spam", "count", "size", "vacuum", "off">>
StageNames == {"age", "spam", "count", "count.delete", "size", "size.delete", "vacuum", "off"}

Free == [id |-> 0, at |-> "free", outcome |-> "sent", claimed |-> FALSE]

(* Handled: what is left is the acknowledgement.                           *)
Handled(i) == [id |-> i, at |-> "ack", outcome |-> "sent", claimed |-> FALSE]

UpkeepTypeOK ==
  /\ policy \in Policies
  /\ DOMAIN rows \subseteq 1 .. arrived /\ unsettled \subseteq 1 .. arrived
  /\ \A i \in DOMAIN rows : rows[i].status \in Statuses /\ rows[i].day <= today
  /\ file >= Cardinality(DOMAIN rows) /\ today <= MaxEvents /\ arrived <= MaxRows
  /\ job.id \in unsettled \cup {0} /\ (job.at = "free" <=> job.id = 0)
  /\ \A p \in Cleaners :
       cleaner[p] \in [at : StageNames, take : 0 .. MaxRows, deleted : BOOLEAN]
  /\ checked \in 0 .. arrived /\ seenTo \in 0 .. arrived
  /\ upsets \in 0 .. MaxUpsets

UpkeepInit ==
  /\ policy \in Policies
  /\ rows = << >> /\ file = 0 /\ today = 0 /\ arrived = 0 /\ unsettled = {} /\ seenTo = 0
  /\ job = Free
  /\ cleaner = [p \in Cleaners |-> Off] /\ checked = 0 /\ events = MaxEvents /\ upsets = MaxUpsets
  /\ sends = [i \in Ids |-> 0] /\ received = [i \in Ids |-> NotYetMade]
  /\ disturbed = {} /\ overlapped = FALSE

Upset == upsets > 0 /\ upsets' = upsets - 1
NoUpset == UNCHANGED upsets
Event == events > 0 /\ events' = events - 1

Live == DOMAIN rows
Last == Max({0} \cup {rows[i].nth : i \in Live})

-----------------------------------------------------------------------------
Arrive ==
  /\ Event /\ arrived < MaxRows /\ arrived' = arrived + 1
  /\ unsettled' = unsettled \cup {arrived + 1}
  /\ UNCHANGED <<policy, rows, file, today, seenTo, job, cleaner, checked, upsets, upkeepGhosts>>

NextDay ==
  /\ Event /\ today' = today + 1
  /\ UNCHANGED <<policy, rows, file, arrived, unsettled, seenTo, job, cleaner, checked, upsets,
                 upkeepGhosts>>

(* The daemon's own cleanup is part of the same loop.                      *)
LoopFree == job = Free /\ cleaner["daemon"] = Off

(* The site is in backoff or over its rate: an entry is read and left to   *)
(* be claimed.                                                             *)
PassOver ==
  /\ LoopFree /\ seenTo < arrived /\ seenTo' = seenTo + 1
  /\ UNCHANGED <<policy, events, rows, file, today, arrived, unsettled, job, cleaner, checked,
                 upsets, upkeepGhosts>>

(* The loop takes the next entry of the stream, or claims one it has read. *)
(* What the archive says was sent is only acknowledged; an archive that    *)
(* cannot be asked says no (is_already_sent). Of a claimed entry nothing   *)
(* is skipped: what is not a success has failed.                           *)
TakeEntry(i) ==
  LET saysSent == i \in Live /\ rows[i].status = "sent"
      saysSpam == i \in Live /\ rows[i].status = "spam"
      claimed  == i <= seenTo
  IN  /\ LoopFree /\ i \in unsettled /\ i <= seenTo + 1 /\ seenTo' = IF claimed THEN seenTo ELSE i
      /\ \/ /\ saysSent /\ NoUpset /\ job' = Handled(i) /\ UNCHANGED <<sends, disturbed>>
         \/ \E outcome \in Outcomes :
              /\ claimed => outcome # "skipped"
              /\ IF saysSent THEN Upset ELSE NoUpset
              /\ job' = [id |-> i, at |-> "row", outcome |-> outcome, claimed |-> claimed]
              /\ sends' = [sends EXCEPT ![i] = IF outcome = "sent" THEN @ + 1 ELSE @]
              /\ disturbed' = IF saysSent \/ (saysSpam /\ outcome # "spam")
                              THEN disturbed \cup {i} ELSE disturbed
      /\ UNCHANGED <<policy, events, rows, file, today, arrived, unsettled, cleaner, checked,
                     received, overlapped>>

(* archive_received: a new row is pending; an old one stays as it is.      *)
ArchiveReceived ==
  /\ job.at = "row" /\ job' = [job EXCEPT !.at = "status"]
  /\ rows' = [i \in Live \cup {job.id} |->
                IF i \in Live THEN rows[i]
                ELSE [status |-> "pending", day |-> today, nth |-> Last + 1]]
  /\ file' = IF Cardinality(DOMAIN rows') > file THEN Cardinality(DOMAIN rows') ELSE file
  /\ received' = [received EXCEPT ![job.id] = IF @ = NotYetMade THEN today ELSE @]
  /\ UNCHANGED <<policy, events, today, arrived, unsettled, seenTo, cleaner, checked, upsets, sends,
                 disturbed, overlapped>>

(* update_status; it changes nothing when the row is gone.                 *)
UpdateStatus ==
  /\ job.at = "status" /\ job' = Handled(job.id)
  /\ rows' = IF job.id \in Live THEN [rows EXCEPT ![job.id].status = job.outcome] ELSE rows
  /\ UNCHANGED <<policy, events, file, today, arrived, unsettled, seenTo, cleaner, checked, upsets,
                 upkeepGhosts>>

(* One of the two fails, and with it archive_message: the entry is left to *)
(* be claimed; one that was claimed is acknowledged none the less.         *)
ArchiveFails ==
  /\ job.at \in {"row", "status"} /\ Upset /\ disturbed' = disturbed \cup {job.id}
  /\ job' = IF job.claimed THEN Handled(job.id) ELSE Free
  /\ UNCHANGED <<policy, events, rows, file, today, arrived, unsettled, seenTo, cleaner, checked,
                 sends, received, overlapped>>

(* XACK; if it fails, or archive_message did at a channel's result after   *)
(* the status, the entry will be claimed again.                            *)
Settle ==
  /\ job.at = "ack" /\ job' = Free
  /\ \/ unsettled' = unsettled \ {job.id} /\ NoUpset
     \/ unsettled' = unsettled /\ Upset
  /\ UNCHANGED <<policy, events, rows, file, today, arrived, seenTo, cleaner, checked,
                 upkeepGhosts>>

Die ==
  /\ Upset /\ (job # Free \/ cleaner["daemon"] # Off)
  /\ disturbed' = IF job.at \in {"row", "status"} THEN disturbed \cup {job.id} ELSE disturbed
  /\ job' = Free /\ cleaner' = [cleaner EXCEPT !["daemon"] = Off]
  /\ UNCHANGED <<policy, events, rows, file, today, arrived, unsettled, seenTo, checked, sends,
                 received, overlapped>>

-----------------------------------------------------------------------------
(* cli::retry_message: get_message, then update_status to pending, which   *)
(* may fail.                                                               *)
RetryChecks(i) ==
  /\ Event /\ checked = 0 /\ i \in Live /\ rows[i].status = "failed" /\ checked' = i
  /\ UNCHANGED <<policy, rows, file, today, arrived, unsettled, seenTo, job, cleaner, upsets,
                 upkeepGhosts>>

RetryMarks ==
  /\ checked # 0 /\ checked' = 0
  /\ \/ /\ rows' = IF checked \in Live THEN [rows EXCEPT ![checked].status = "pending"] ELSE rows
        /\ disturbed' = disturbed \cup {checked} /\ NoUpset
     \/ UNCHANGED <<rows, disturbed>> /\ Upset
  /\ UNCHANGED <<policy, events, file, today, arrived, unsettled, seenTo, job, cleaner, sends,
                 received, overlapped>>

-----------------------------------------------------------------------------
(* What applies of a cleanup that has deleted something, or nothing.       *)
Applies(retention, stage, deleted) ==
  CASE stage = "age"    -> retention.maxAge > 0
    [] stage = "spam"   -> retention.spam # "keep"
    [] stage = "count"  -> retention.maxCount > 0
    [] stage = "size"   -> retention.maxSize > 0
    [] stage = "vacuum" -> retention.vacuum /\ deleted
    [] stage = "off"    -> TRUE

StageFrom(retention, n, deleted) ==
  Stages[Min({i \in n .. 6 : Applies(retention, Stages[i], deleted)})]

GoOn(p, n, deleted) ==
  LET stage == StageFrom(policy[p], n, deleted)
  IN  cleaner' = [cleaner EXCEPT ![p] = [at |-> stage, take |-> 0,
                                         deleted |-> deleted /\ stage # "off"]]

(* cleanup_site; a bound: not on an empty archive.                         *)
StartCleanup(p) ==
  /\ Event /\ cleaner[p] = Off /\ Live # {}
  /\ GoOn(p, 1, FALSE)
  /\ overlapped' = (overlapped \/ \E q \in Cleaners : q # p /\ cleaner[q] # Off)
  /\ UNCHANGED <<policy, rows, file, today, arrived, unsettled, seenTo, job, checked, upsets, sends,
                 received, disturbed>>

(* By the loop, when its interval is over and no message is in hand.       *)
DaemonCleans == job = Free /\ StartCleanup("daemon")

(* By a command, at any time, with the retention its options change.       *)
CommandCleans == StartCleanup("cli")

Going(p, from) == cleaner[p].at = from
CleanupFrame == UNCHANGED <<policy, events, today, arrived, unsettled, seenTo, job, checked,
                            upkeepGhosts>>

(* A DELETE of the cleanup, and where it goes on.                          *)
Deletes(p, ids, n) ==
  /\ rows' = [i \in Live \ ids |-> rows[i]]
  /\ GoOn(p, n, cleaner[p].deleted \/ ids \cap Live # {})
  /\ NoUpset /\ UNCHANGED file /\ CleanupFrame

(* A SELECT: so many are to be deleted, or none.                           *)
Wants(p, count, to, n) ==
  /\ IF count = 0 THEN GoOn(p, n, cleaner[p].deleted)
     ELSE cleaner' = [cleaner EXCEPT ![p] = [@ EXCEPT !.at = to, !.take = count]]
  /\ NoUpset /\ UNCHANGED <<rows, file>> /\ CleanupFrame

(* A statement fails and ends the cleanup of the site.                     *)
CleanupFails(p) ==
  /\ cleaner[p].at \notin {"off", "vacuum"} /\ Upset /\ cleaner' = [cleaner EXCEPT ![p] = Off]
  /\ UNCHANGED <<rows, file>> /\ CleanupFrame

Older(i, days) == today - rows[i].day >= days

(* An age of its own, or none.                                             *)
NoFallback(retention, own) == own

(* effective_sent_max_age, effective_failed_max_age: 0 falls back.         *)
EffectiveAge(retention, own) == IF own > 0 THEN own ELSE retention.maxAge

(* delete_by_age: three statements with an age each; nothing at all when   *)
(* the general age is 0, whatever the others say. Spam is left alone.      *)
AgedOut(r) ==
  {i \in Live :
     \/ rows[i].status = "sent"   /\ Older(i, EffectiveAge(r, r.sentAge))
     \/ rows[i].status = "failed" /\ Older(i, EffectiveAge(r, r.failedAge))
     \/ rows[i].status \in {"pending", "skipped"} /\ Older(i, r.maxAge)}

DeleteByAge(p) == Going(p, "age") /\ Deletes(p, AgedOut(policy[p]), 2)

(* delete_spam; Keep and NeverDelete are the same.                         *)
DeleteSpam(p) ==
  /\ Going(p, "spam")
  /\ Deletes(p, {i \in Live : rows[i].status = "spam"
                              /\ (policy[p].spam = "afterDays" => Older(i, policy[p].spamDays))}, 3)

(* delete_by_count: what is over max_messages_per_site and over            *)
(* min_messages_keep.                                                      *)
OverCount(n, limit, keep) ==
  LET max == IF limit > keep THEN limit ELSE keep
  IN  IF n > max THEN n - max ELSE 0

CountRows(p) ==
  /\ Going(p, "count")
  /\ Wants(p, OverCount(Cardinality(Live), policy[p].maxCount, policy[p].minKeep),
           "count.delete", 4)

Finished == {i \in Live : rows[i].status # "pending"}

(* DELETE ... ORDER BY received_at LIMIT n, active rows left out.          *)
OldestFinished(n) ==
  {i \in Finished : Cardinality({j \in Finished : rows[j].nth < rows[i].nth}) < n}

DeleteCounted(p) == Going(p, "count.delete") /\ Deletes(p, OldestFinished(cleaner[p].take), 4)

(* The excess, without the safety buffer.                                  *)
MeasureExcess(p) ==
  /\ Going(p, "size")
  /\ Wants(p, IF file > policy[p].maxSize THEN file - policy[p].maxSize ELSE 0, "size.delete", 5)

(* delete_by_size: the excess of the file over the limit, in rows, at most *)
(* what min_messages_keep leaves.                                          *)
MeasureFile(p) ==
  LET n == Cardinality(Live)
      keep == policy[p].minKeep
      deletable == IF n > keep THEN n - keep ELSE 0
      excess == IF file > policy[p].maxSize THEN file - policy[p].maxSize ELSE 0
  IN  /\ Going(p, "size")
      /\ Wants(p, Min({excess, deletable}),
               "size.delete", 5)

DeleteMeasured(p) == Going(p, "size.delete") /\ Deletes(p, OldestFinished(cleaner[p].take), 5)

(* VACUUM gives the freed pages back; its failure is only noted.           *)
Vacuum(p) ==
  /\ Going(p, "vacuum") /\ GoOn(p, 6, FALSE) /\ UNCHANGED rows
  /\ \/ file' = Cardinality(Live) /\ NoUpset
     \/ file' = file /\ Upset
  /\ CleanupFrame

CleanupStep(p) ==
  \/ CleanupFails(p) \/ DeleteByAge(p) \/ DeleteSpam(p) \/ CountRows(p)
  \/ DeleteCounted(p) \/ MeasureFile(p) \/ DeleteMeasured(p) \/ Vacuum(p)

UpkeepNext ==
  \/ Arrive \/ NextDay \/ PassOver \/ ArchiveReceived \/ UpdateStatus \/ ArchiveFails \/ Settle
  \/ Die \/ RetryMarks
  \/ DaemonCleans \/ CommandCleans
  \/ \E i \in Ids : TakeEntry(i) \/ RetryChecks(i)
  \/ \E p \in Cleaners : CleanupStep(p)

UpkeepSpec == UpkeepInit /\ [][UpkeepNext]_upkeepVars

-----------------------------------------------------------------------------
(* Properties.                                                             *)

(* min_messages_keep, "minimum messages to keep even when over limits": as *)
(* long as no second cleanup runs beside it, neither limit takes the       *)
(* archive below the buffer, although each counts in one statement and     *)
(* deletes in another while rows come and go.                              *)
LimitsKeepBuffer ==
  [][\A p \in Cleaners :
       (/\ cleaner[p].at \in {"count.delete", "size.delete"} /\ ~ overlapped
        /\ rows' # rows /\ cleaner'[p].at # cleaner[p].at)
       => Cardinality(DOMAIN rows') >= policy[p].minKeep
    ]_upkeepVars

(* How long a retention keeps rows of a status at least: for its own age,  *)
(* or the general one where it has none.                                   *)
KeptFor(retention, own) == IF own = 0 THEN retention.maxAge ELSE own

(* The archive is what keeps a message from being sent twice, and cleanup  *)
(* forgets. A message is sent again only when its entry stayed             *)
(* unacknowledged, since its first row, for as long as rows are kept, a    *)
(* limit on rows or size is set, a crash or a failed statement cut its     *)
(* handling, the archive cannot be asked right now, the operator set it    *)
(* back, or its row said spam before it was sent. (A row that was failed   *)
(* before may go with the age of failed ones while it becomes sent, and    *)
(* one that was spam with the age of spam.)                                *)
SentAgainOnlyForgotten ==
  [][\A i \in Ids :
       (sends'[i] > sends[i] /\ sends[i] > 0) =>
         \/ i \in disturbed \/ upsets' < upsets
         \/ \E p \in Cleaners :
              LET r == policy[p]
              IN  \/ r.maxCount > 0 \/ r.maxSize > 0
                  \/ /\ r.maxAge > 0
                     /\ \E own \in {r.sentAge, r.failedAge, 0} :
                          received[i] + KeptFor(r, own) <= today
    ]_upkeepVars
=============================================================================
