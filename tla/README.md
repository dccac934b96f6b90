# A verification model of Geodineum-COMMS

Geodineum-COMMS is a daemon that carries notifications between sites and
people. Sites `XADD` messages onto their own ValKey stream; the daemon reads the
streams as a consumer group, sends each message by email, Telegram or SMS,
archives it in a per-site SQLite file, acknowledges it, and retries the channels
that failed. In the other direction it polls Telegram, writes what operators say
to an inbound stream, and routes it to pipelines, components and web windows.

This directory holds TLA+ modules translated from the Rust sources, the TLC
configurations that check them, and TLAPS proofs. `PROJECT.json` ties every
definition to the lines it models, every property to a mutation of the code
that it catches, and lists the hazards of the code and the disagreements
between code and documents. Paths below are relative to the repository.

## The system

| component | source | state it keeps | modelled by |
|---|---|---|---|
| outbound loop | `src/main.rs` 502-1031 | position in the loop, the batch read, the message in hand | `CommsDispatch` |
| stream consumer | `src/consumer/stream_reader.rs` | the sites it knows; groups and pending lists live in ValKey | `CommsDispatch`, `SiteStreams` |
| site discovery | `src/consumer/site_discovery.rs` | known sites | `SiteStreams` |
| dispatcher | `src/router/dispatcher.rs`, `src/dtap.rs` | none | `Routing`; `CommsDispatch` (outcome of each channel) |
| settings store | `src/settings/store.rs` | cache of each site's settings, without expiry; a count of addressed messages a day | `CommsDispatch` (`cfg`, `cache`), `Routing` (`sentToday`) |
| SQLite archive | `src/persistence/store.rs` | one row per message id, with a status | `CommsDispatch` (`row`), `ArchiveUpkeep` (`rows`) |
| retention | `src/persistence/cleanup.rs`, `retention.rs` | deletes rows | `ArchiveUpkeep` |
| archive backoff | `src/persistence/backoff.rs` | a deadline per site, in memory | `CommsDispatch` (`backoff`) |
| retry manager | `src/retry/manager.rs`, `src/valkey_scan.rs` | a ValKey key per message with failed channels | `CommsDispatch` (`retry`, `due`) |
| rate limiter | `src/main.rs` 46-107 | times of dispatches per site, in a bounded map in memory | `RateLimiter`; `CommsDispatch` (`used`) |
| spam filter | `src/filters/spam.rs` | its lists | `SpamFilter`; in `CommsDispatch` its verdict is the kind of an entry |
| Telegram receiver | `src/inbound/telegram_receiver.rs` | long-poll offset, in memory | `InboundStream`, `CommsInbound` |
| inbound loop, command router | `src/main.rs` 1033-1660, `src/inbound/command_router.rs` | pending list of the inbound group | `InboundStream`, `CommsInbound`, `CommsChat` |
| conversations, reply contexts | `src/inbound/conversation_state.rs` | hashes in ValKey with a time to live | `PollVotes`, `ReplyContexts`, `ChatSessions` |
| web links | `src/inbound/web_link.rs` | code, route and account records in ValKey | `WebLinks` |
| response poller, inference chain | `src/inbound/response_poller.rs`, `inference_chain.rs` | a spawned task per question | `Inference` |
| workflow dispatch | `src/inbound/workflow_dispatch.rs` | none; a stream entry per workflow | `CommsChat` |
| watcher | `src/watch.rs` | cursors, canary, hours of alerts, in one ValKey key | `Watcher` |
| receipts, channels, templates, configuration, command line, SPR, schema registry | the rest of `src/` | little or none | not modelled (see the end) |

How they meet. The outbound loop is one sequential task: read, handle every
entry read, claim idle pending entries, handle those, sweep the due retries,
handle the inbound stream, start again. Nothing in it runs concurrently with
itself. What it interleaves with is everything outside: producers append,
settings are saved, ValKey trims streams and expires keys, SQLite, ValKey and
providers fail, and the process can die between any two external effects. What
survives in each case differs: the stream, the pending list, the retry keys and
the archive stay, and the backoff, the rate window, the settings cache and the
message in hand do not. The hard behaviours are therefore

* the order of send, archive, acknowledgement and retry key, each a call that
  can fail or be the last one before a crash;
* the three paths by which a message is sent (first reading, claim, retry), whose
  guards are written out three times and differ;
* the dedup guard, which trusts a row of SQLite that it may be unable to read;
* the retry sweep, which works on copies taken when it began;
* on the inbound side, the receiver task beside the loop, each with its own idea
  of what was handled (an offset in memory, a pending list in ValKey), and
  handlers of several ValKey calls that a crash has the loop run again;
* whether an entry that was held (backoff, rate limit, lost reply) ever comes
  back, since it is not read again but only claimed;
* one read over the streams of all sites, so that a missing group, or a field
  that does not convert, at one site stops the others;
* an archive the dedup guard trusts and cleanup deletes from, by the daemon and
  by a command at the same time;
* in the operators' chat, a pointer to the alert a word answers, read and deleted
  in separate calls while other daemons move it; a session that reading renews;
* pollers beside the loop that look for their answer among the newest entries of
  a stream everything writes to, against a deadline;
* an hourly watch that saves its state last, and mails through the daemon it
  watches.

What makes each component correct:

* loop and archive: no acknowledgement on the main path before a final row, a
  final row never lost, every entry settled in the end, no unexplained duplicate;
* retry manager: attempts bounded, a failed message scheduled or given up
  knowingly, a message archived as sent not retried;
* settings store: an acknowledged reload is in force;
* spam filter: what it rejects leaves by no path, and configuration never makes it
  weaker;
* rate limiter: never more than the window's allowance, and no refusal without a
  cause, though its map is bounded;
* stream consumer and discovery: what can be read is settled, whatever another
  site does, and what was acknowledged never comes back;
* dispatcher: no recipient entry is sent a message twice for another's failure, and a
  day's addressed messages stay within the cap;
* retention: limits leave the rows they promise to leave, and a message is sent
  again only when the archive forgot it by its rules, or a statement or the daemon
  failed;
* operators' chat: one answer to an alert, a fresh session after a pause or a reset,
  no time-out of an answer that was there, no review past its guard;
* watcher: nothing bad passes its cursor before a message about it was sent, nothing
  is told twice but for a run that did not save or found a job's file unreadable or
  missing, no daily mail is forgotten;
* receiver and inbound loop: nothing an operator sent is lost, nothing repeats
  without a failure, and entries keep their order across crashes;
* web links: the three records of a link agree, a code links one account, an
  unlinked account stays unlinked, and nobody's link is ended or read into by
  somebody else;
* polls: one vote for each time a poll's context is made, the first press.

## The modules

* `EntryDelivery` is an abstract specification. An entry is absent, queued,
  pending, or settled for some cause, once and for all (unless its stream is
  deleted); a message is archived with a final status or not, and stays so;
  settling for a *fenced* cause needs the message archived. `CommsDispatch` and
  `SiteStreams` implement it.
* `RateAllowance` is the other: a count per client, raised by one and only below an
  allowance, which otherwise only falls. `RateLimiter` implements it with its map of
  windows, and `CommsDispatch` with the count it keeps in the limiter's place.
* `CommsDispatch` is the outbound half of the daemon.
* `MCCommsDispatch` gives its constants values for TLC.
* `CommsDispatchProofs` and `CommsGuardProofs`, which extends it, hold its proofs.
* `InboundStream` is the path from Telegram to the inbound loop: receiver,
  stream, consumer group. `WebLinks` and `PollVotes` extend it with the handlers
  of web links and of poll buttons, and `CommsInbound` composes the three.
* `MCCommsInbound` gives its constants values for TLC; `InboundProofs` holds its
  proofs.
* `RateLimiter`, `SiteStreams`, `Routing`, `SpamFilter`, `ArchiveUpkeep` and
  `Watcher` are a component each, and specifications of their own.
* `ReplyContexts`, `ChatSessions` and `Inference` extend `InboundStream` as
  `WebLinks` and `PollVotes` do, and `CommsChat` composes the three into the
  operators' side of the inbound loop.
* `CommsServices` puts these seven specifications (the six and the chat) into one,
  of which one runs in a behaviour; `MCCommsServices` gives it values for TLC.
* `IntakeProofs` holds the proofs about `RateLimiter`, `SiteStreams` and `SpamFilter`;
  `UpkeepProofs` those about `ArchiveUpkeep` and `Watcher`; `RoutingProofs` and
  `ChatProofs` extend their component. `ServicesProofs` carries what they prove over
  to `CommsServices`.

### `CommsDispatch` and the code

Variables. `added`, `delivered`, `pel` and `trimmed` are the streams and their
consumer group; entries are numbered in stream order, and an entry is of one
site and carries one message id, possibly the same as another (producers choose
ids, and a repeat is a retransmission). `retry` is the set of
`{site}:comms:retry:{id}` keys (attempts, entry, failed channels), `cfg` the
version of a site's saved settings, `row` the status column of `messages`.
`phase`, `batch`, `due` and `job` are the daemon's place in its loop: `batch`
the entries of the reply being worked through, `due` the retry states copied by
the sweep, `job` the message in hand with the results of its channels. `cache`,
`backoff` and `used` are its other memory. `sends`, `how` and `gaveUp` record
history for the properties; `budget` and `seen` bound and name the failures.

Actions. One iteration of the loop is `Read`, then the guards of every entry,
`Claim`, the same again, `Sweep`, the retries, `EndLoop`.

| action | code |
|---|---|
| `Read` (three outcomes: done, done with the reply lost, not done) | `read_messages`, `Err` branch at main.rs 786 |
| `Claim` (any set of pending entries is idle) | `claim_pending`; a trimmed entry leaves the pending list here, as XAUTOCLAIM does |
| `Sweep` (any set of keys is due; SCAN may repeat keys) | `get_due_retries`, `scan_keys` |
| `HoldInBackoff`, `SkipDuplicate`, `ArchiveOnly`, `HandleControl`, `HoldRateLimited` | the guards, main.rs 513-606 and 801-846 |
| `Dispatch`, `DispatchError` | `dispatch_filtered` up to the channels, and its error |
| `Send`, `SendSkipped`, `SendFails`, `SendAnswerLost`, `SendsDone` | one channel each, `dispatch_filtered` 195-234 |
| `Archive`, `ArchiveFails` (after 0, 1 or 2 of its writes) | `archive_message` and what the caller does next |
| `Ack` (or its failure, which the code drops) | `ack_message(..).ok()` |
| `Settle`, `SettleFails` | `record_failure` or `clear_retry_state`, as `After` says |
| `RetryRateLimited`, `RetryTrimmed`, `RetryFetchFails`, `RetryError`, `RetryDispatch`, `MarkSent` | the sweep, main.rs 899-1025 |
| `Append`, `SaveSettings`, `Trim`, `BackoffEnds`, `WindowSlides`, `RetryKeyExpires`, `Crash`, `Restart` | producers, ValKey, time, systemd |

The stages of `job` (send, archive, ack, settle, mark) keep every external
effect a step of its own, so that `Crash` falls between any two of them.

Abstractions. Time is choice: a backoff ends, an entry is idle, a retry is due
at any moment. Contents are left out; the spam verdict, the control type and
whether the entry parses are the entry's `kind`. (`parse_message` fails only for
a stream whose site id is invalid, so all entries of such a site are unparsed;
they are read, become pending and are never settled.) Routing picks any of `Routes`,
and a dispatch may be refused as a whole (site disabled, addressed message
refused). One channel is sent or not: partial failure among the recipients of
one channel counts, as in the code, as that channel's outcome. `XREADGROUP`
returns everything unread (the code's COUNT is 100), `XAUTOCLAIM` any subset
(COUNT 10). Entries are trimmed only after they were delivered. The daemon
always has its archive (`message_store` is `Some` when SQLite opens; the
model does not cover a daemon running without it). A lost acknowledgement that
ValKey did execute is not told apart from one it did.

### `CommsInbound` and the code

An update is a record: who sent it (one account has one private chat), and
whether it is a `/link` with a code, an `/unlink`, a question or a press of a
poll's button. `sent` and `confirmed` are Telegram's side; `offset` and `fetched`
the receiver's memory; `stream`, `given` and `unacked` the inbound stream and its
group; `toHandle`, `hand` and `stage` the loop's place. `code`, `route` and `web`
are the three records of web_link.rs, `context` and `claim` a poll's hash,
`relayed` and `votes` what was put on the sites' and producers' streams. `made` says how
often a poll's context was not there and was made; `handled`, `spentBy` and `met` are
history; `trouble` and `ends` are the bounds on failures
and on what the site takes back.

| action | code |
|---|---|
| `Poll`, `Receive`, `Refuse` | `poll_once`: getUpdates, the gate, the write; the offset moves in any case |
| `ReadInbound` (each of its two reads may fail, the second with its reply lost) | main.rs 1042-1098 |
| `TakeUp`, `AckInbound` | the loop over the entries, and XACK with its result dropped |
| `LinkCode` ... `LinkAnswers` | `web_link::link`, a step per call to ValKey |
| `UnlinkWeb` ... `UnlinkForgets` | `web_link::unlink` |
| `AskWeb` ... `AskRelays` | `web_link::resolve`, then the XADD of `web_subscriber` |
| `PressReads`, `PressClaims`, `PressVotes` | `handle_poll_callback` |
| `StopInbound`, `StartInbound` | the daemon dies and is restarted |
| `Person`, `Sites` | people; sites making and ending codes and routes |
| `TrackPoll`, `PollExpires` | `track_callback_context` (HSET and EXPIRE) before every message with the poll's id, the first and those after it; the day's end |

A failed read in these handlers is a record that is not there, and a failed write
is passed over: both are in the model as the code has them. Only the loop writes
`web`, so its value is read from the record instead of a copy. The receiver's
check of a link and its write are one step, since only the receiver writes the
inbound stream. A read returns everything (COUNT is 10). What a person is told,
the hourly allowance (a choice) and the operators' command router are left out:
a question by an account that is not linked is acknowledged and nothing more.

### The services and the code

`CommsServices` holds parts that share no state in the models. What one of them
takes from another it takes as a choice: `SiteStreams` whether an entry is settled
or left, `Routing` and `ArchiveUpkeep` when a message comes back, `Watcher` what
the receipts say. `CommsDispatch` takes the outcome of a channel and the verdict on
spam as choices in the same way, and keeps a count per site where `RateLimiter` keeps
times. That the count stands for the times is proved: both implement `RateAllowance`,
`CommsDispatch` with `used` and `RateLimiter` with the number of admissions in the window
that ends now. (A refusal because the map is full is in `RateLimiter` only.)

| module | actions | code |
|---|---|---|
| `RateLimiter` | `TryAcquire`, `Tick` | `DispatchRateLimiter::try_acquire`: window, pruning, `MAX_TRACKED_SITES`; a window is the set of admissions it holds |
| `SiteStreams` | `Boot`, `Rediscover`, `EnsureGroup` | `initialize_groups`, `maybe_rediscover`, `sync_groups`, `discover_sites` with its two scans |
| | `ReadMessages`, `ClaimPending`, `Handle` | one XREADGROUP over all known streams, XAUTOCLAIM from 0-0, replies that do not convert |
| `Routing` | `Dispatch`, `DispatchChannels`, `Resolve` | a first dispatch or a retry of the failed channels; settings, refusals of addressed messages, `determine_channels` |
| | `TakeChannel`, `SendTo`, `EndChannel`, `EndDispatch` | `dispatch_to_channel` up to its sends, each recipient entry, the channel's result, the day's count |
| `SpamFilter` | `Check` | `with_extra_blocklists` and `check` over words and addresses |
| `ArchiveUpkeep` | `TakeEntry` ... `Settle`, `PassOver` | the daemon's dedup guard, row, status and XACK for a new entry or a claimed one, as far as the archive sees them; an entry left to be claimed |
| | `ArchiveFails`, `Die`, and the failing outcomes of `TakeEntry`, `RetryMarks`, `Settle` | statements that fail: on the main path the entry is not acknowledged, a claimed one is all the same; an archive that cannot be asked says "not sent" |
| | `DaemonCleans`, `CommandCleans`, `DeleteByAge` ... `Vacuum` | `cleanup_site`, a step per statement, by the loop and by `geodineum-comms cleanup` |
| | `RetryChecks`, `RetryMarks` | `geodineum-comms retry` |
| `Watcher` | `Start` ... `Save`, `RunDies` | `watch::run`, a step per part, in its order; the job's status file read, unreadable or missing; the Telegram message taken or not |
| `ReplyContexts` | `Track`, `ContextExpires`; `ReadPointer`, `ReadContext`, `ClearPointer`, `TellComponent` | contexts registered before a dispatch; `resolve_reply` and the callback XADD, a step per call |
| `ChatSessions` | `Touch`, `CreateSession`, `SwitchPipeline`, `RecordMessage`, `ResetSession` | the session of an entry |
| `Inference` | `AskDirect`, `PollOnce`, `CheckDeadline`, `DeliverAnswer`, `LogAnswer` | a question and its spawned poller |
| | `AskStage`, `StageAnswered`, `StageFails`, `GuardVerdict`, `TellResult` | the chain of draft, review and guard |
| `CommsChat` | `RouteCommand`, `RouteUnresolved`, `AskForEngine`, `DispatchWorkflow`, `Reply`, `Reset` | the command router and the loop's arms |

Abstractions. A message in `Routing` is a type, an address, a priority and an
environment, and a recipient is its place in the channel's list, since the code sends
once per entry and compares no two of them; a text in `SpamFilter` is a set of words; in `ArchiveUpkeep` a row has
a day and a place in the order of arrival, and the file's size is the number of
rows it had before its last VACUUM. In `Watcher` time is hours; the heartbeat, the
receipts and the file of one job are changed from outside. The job's failed runs are
numbered, and the failure that stands for an unreadable file has a number of its own for
each day. A success that ends neither a failure nor a silence is left out, and so is what
the daily mail says. In the chat, an update is a word: `Verbs` are the words
`recognize_intent` knows, "status" stands for what is answered on the spot. The
answer of the inference service is "safe" or anything else. A poller's deadline may
pass after any look. An entry counts as settled in `SiteStreams` when its handler
acknowledged it, whatever else it did.

## What the runs check

Every failure, crash and late expiry takes one from `MaxFaults`; provider
refusals, skips, trimming, backoff ends and any length of delay are free.

| run | instance | what it shows |
|---|---|---|
| `dispatch` | 2 entries of one message id, 2 channels, 3 attempts, 1 fault | `TypeOK`; `RetryBounded`; `DuplicatesExplained`; `RetryScheduled`; `SentNotRetried`; `SentIsFinal`; `ImplementsDelivery` |
| `control` | 3 entries (plain, reload, spam) of one site, 1 channel, 1 attempt, 2 faults | `AckFence`; `SpamNeverSent`; `ReloadApplied` |
| `liveness` | an entry that does not parse and a plain one, on two sites, 2 attempts, 1 fault, fairness | `EventuallySettled`; `RetriesEnd` |
| `claim_ack`, `claim_control`, `failed_retried`, `sent_delivered` | 1 entry, at most 1 fault | four statements of the documents that the code does not keep |
| `inbound` | 2 updates from: two accounts sending one code, presses of one button; 1 failure or crash, 1 code or route that ends, a context made at most twice by the poll and again by a claim; fairness | `TypeOK`; `RepeatsExplained`; `InOrder`; `CodeLinksOne`; `VotesExplained`; `FirstPressWins`; `OperatorsHeard` |
| `links` | 3 updates of two accounts, 3 codes for 2 subscribers (two of them for the same), 1 failure or crash | `StraysExplained`; `UnlinkSticks`; `OthersKeepLink`; `NeverAnothersWindow` |
| `services` | one of seven at a time: 3 sites in a map of 2, 5 calls; 2 sites, 2 entries in all, COUNT 1 (with fairness); 2 of 5 messages under 5 configurations; words and lists; 2 rows under 3 pairs of retentions; hours 0 to 3 of 2-hour days with 1 receipt or failed run; 6 scenes of a chat with at most 2 updates, 2 alerts, 3 requests; 1 failure or crash each (upkeep: 2) | see below |
| `daily_mail` | the watch alone | a statement of the documents that the code does not keep |
| `link_takeover` | 3 updates, no failure | a statement of the documents that the code does not keep |

Deadlock is checked in all of them. (`Rests` in `CommsServices` stutters on purpose:
the bounds of every service but the consumer run out.)

* `DuplicatesExplained`: a channel gets a message at most once per stream entry
  plus once per fault. Claims, sweeps, repeated ids and the dedup guard never
  duplicate by themselves.
* `RetryScheduled`: in a quiet state, a row that says failed has a retry key or
  was given up, unless the main loop saw skips beside the failures, a claim
  archived it, or the key was lost to a crash, an outage or lateness. The
  excepted cases are the ones the code does not handle.
* `SentNotRetried`: a row that says sent has no retry key. It is claimed for
  behaviours whose only faults are lost provider answers: a failed DEL leaves
  the key behind in the code. It is claimed for routes of at least one channel,
  too: a site whose last channel was disabled between an entry and its repetition
  has the repetition archived as sent with nothing sent, and the key of the first
  stays. (The proof did not close without the condition.)
* `SentIsFinal`: as long as the archive can be read, sent stays sent.
* `AckFence`: whatever fails or crashes, what the main loop acknowledged as
  archived, spam or duplicate has a row with a final status.
* `SpamNeverSent`: neither the claim path nor a retry sends it.
* `ReloadApplied`: once a reload is acknowledged by the main loop, the cache is
  empty or as new as the save it announces.
* `ImplementsDelivery`: `EntryDelivery` with `fate` computed from the pending
  list and `how`, and `archived` the messages with a final row. The fenced causes
  are those of the main loop; the claim path, dispatch errors, control messages
  and trimming are not fenced, since the code acknowledges them without an
  archived row.
* `EventuallySettled`: no entry that parses stays pending for ever, with an entry
  that never parses pending beside it.
* `RetriesEnd`: every retry key goes away.

* `RepeatsExplained`: a crash can have one update handled twice more, not once:
  the entry in hand stays pending, and the receiver, back at offset 0, may write
  the update again. Without a failure nothing is handled twice.
* `InOrder`: pending entries come before new ones, so first handlings keep the
  stream's order, unless the read of the pending entries failed.
* `OperatorsHeard`: what an operator sent is handled, unless the receiver's write
  of it failed. Telegram forgets an update only after the next poll, and the
  group gives back what was in hand.
* `StraysExplained`: an account on a route has COMMS's record for it, in every state, so
  also wherever a crash leaves `link` and `unlink` (this much is `RouteHasRecord`). A
  read or write that ValKey refuses is passed over by the handlers, and may leave a
  window linked to an account without a record: one for each failure, and nothing done
  later on what it left costs another.
* `UnlinkSticks`: after everything is handled, an account that sent `/unlink` last
  has no record and no route, although a crash replays earlier updates. It is
  claimed for crashes only: a failed acknowledgement or read can have an earlier
  `/link` handled again after it.
* `CodeLinksOne`: excepted are failed reads and writes, and a crash during which the
  window ends the route that was being linked, or before which an older entry's
  acknowledgement had failed: then that entry, of another account, is handled again
  ahead of the one whose link was cut off. (The proof found the second exception;
  TLC needs two troubles for it.)
* `OthersKeepLink`, `NeverAnothersWindow`: the steps of `unlink` and of a question
  never end another account's link and never relay into it, although they act
  on what an earlier step read.
* `VotesExplained`, `FirstPressWins`: a poll's producer is told at most one vote for each
  time the poll's context was made: by the poll, by another message with its id once the
  day was over (conversation_state.rs 268-293), or by the claim of a press that had read
  the context before it expired. HSET keeps a claim that is there, so that sending the
  poll again within its day opens it to nobody. While a context made once lives, the
  vote is the claimed press (`VoteIsClaim`, part of `VotesExplained`), and without
  failures it is the first press. A claim whose XADD fails or is cut off by a crash
  stands without a vote.

Of `services`:

* `ActsAsCounter`, `RefusedForCause`: `RateLimiter` implements `RateAllowance`. A call
  that is let through finds the site's count below the allowance and raises it, and no
  other, by one; pruning, eviction and the re-insertion of a site never give an allowance
  twice. A refusal means the allowance is used or the map is full of sites that were all
  let through within the window.
* `ServicesTypeOK`: the types of all seven.
* `ReadableSettles`: every entry of a stream of readable fields is settled, also when it
  is older than its site's discovery, shared a reply with a binary entry, or waited while
  another site's missing group failed every read.
* `ConsumerDelivers`: `SiteStreams` implements `EntryDelivery`, with `fate` computed from
  the group's counter, its pending list and what was settled. No reply that was lost or
  did not convert, and no group that was ensured again, skips an entry, drops it
  unsettled or brings an acknowledged one back; a stream that is deleted takes its
  entries with it and starts anew.
* `NoSecondCopy`: one copy for a recipient entry of a channel, plus one for each lost
  answer or crash: a recipient who was not reached never costs the others a second copy.
  It says nothing of persons: `filter_recipients` keeps every entry that matches
  (dispatcher.rs 519-532) and the channel sends once per entry, so whoever is on two
  matching entries gets two copies with no fault. It is claimed of a channel that the
  message's list names once. `determine_channels` takes a list as it is written
  (dispatcher.rs 312-326), and the loop tries every place of it, so a rule with
  `telegram` twice sends twice; one of the configurations has such a rule.
* `CapKept`: addressed messages of a day stay within the cap, but for lost answers and
  lost counts, although the count is read before the sends and written after.
* `NeverWeaker`: a filter with configured lists catches everything the built-in
  lists catch.
* `LimitsKeepBuffer`: neither limit takes the archive below `min_messages_keep`,
  although each counts in one statement and deletes in another. Two cleanups at
  once are excepted, and do break it (which takes `MaxEvents = 4`: both count the
  same rows, then both delete).
* `SentAgainOnlyForgotten`: a message that was sent is sent again only after its row
  outlived its age, a limit took it, a crash or a failed statement cut its handling, an
  operator set it back, or its row said spam and a later judgement did not; or when the
  archive cannot be asked at that moment. When `archive_received` or `update_status`
  fails, the main path does not acknowledge (main.rs 694-716, 759): the entry is claimed
  and, with no row that says sent, sent again. The claim path ignores the failure and
  acknowledges (862). `is_already_sent` answers "no" to an SQLite error (store.rs
  201-218). The changed judgement needs an entry that comes back and other lists:
  `delete_spam` takes the old row between `archive_received`, which leaves it as it is,
  and `update_status`, which then finds none. The first pair of retentions has the ages
  that show it.
* `NothingPassedUnsaid`: wherever a run of the watch dies and whatever fails, the saved
  cursor passes a bad receipt only after a Telegram message with its alert was sent. It
  does not say that the message arrived: `telegram` answers false to an error, a time-out
  or a missing bot or chat (watch.rs 370-379), the caller drops the answer (508) and the
  state is saved (515), so those alerts are lost (`lost`), and no run sends them again.
* `SaidOnce`: a receipt or a failed run is told once, and once more for each run that
  ended without saving. A failed run is also told once more for each run that found the
  job's status file unreadable or missing: an unreadable one counts as a failed run of
  its own and overwrites the one that was told (watch.rs 440-443), and a job without a
  file is forgotten (450); the next good reading tells the old failure as new.
* `CanaryJudged`: a daily mail is judged before the next takes its place.
* `AnsweredOnce`: a component gets at most one answer for each time its alert was
  tracked, because the pointer is deleted first. (The price is an answer lost to a
  crash or a failure between the two.)
* `FreshSession`: after a pause or a reset a message goes to a session made for it,
  unless a call failed or a crash fell between the touch and the creation.
* `TimeoutForCause`: a poller that gives up did not have its answer among the newest
  entries at its last look.
* `GuardHolds`: a review is shown only when the guard was asked after the review was
  there, and said "safe" of it.

The bounds. Two entries with one id are the least that make a duplicate, and
with the retry key they share they give the dedup guard, the claim and the sweep
something to disagree about. Three attempts let a retry fail and be recorded
again before it is given up, two channels let a retry narrow. A rate window of
one makes the limiter bite on every second dispatch. One fault reaches every
single failure at every step; the fence run has two, since a failed archive and
a crash in its wake is the interesting pair. On the inbound side two updates are
enough for an order, a repetition and a code held by two; three let an account
take a subscriber over and its previous holder act again. In `services` each part
has the least that makes its hazard happen: a map with one place fewer than sites,
COUNTs of one so that an entry waits behind another, two recipient entries of one
channel, three arrivals, days or cleanups over two rows, time for a second daily mail,
a context made a second time, two alerts for one pointer, and three requests for the chain's three stages with a window of one
newest entry that a single other entry pushes an answer out of.

Fairness. The loop never blocks for ever (every call has an error path) and
systemd restarts it: weak fairness of the daemon's steps. Backoff deadlines
pass and windows slide: weak fairness of each. An entry pending for long enough
is idle whenever `claim_pending` runs, and a retry's time has come whenever the
sweep runs: strong fairness of a claim with that entry and of a sweep with that
key, because both are possible only at their place in the loop. Producers,
crashes and failures are not fair. In `SiteStreams` the loop goes on (weak fairness)
and the intervals of the discovery and of the sweep are over again and again (strong
fairness of the step that finds one over, which is possible only at the loop's top or
end); this presumes a `discovery_interval_secs` other than 0 (the default is 60), since
0 turns re-discovery off (stream_reader.rs 150-155): then a site found late, or a missing
group, waits for a restart, and `ReadableSettles` is not claimed; `ConsumerGoesOn` says the same for behaviours of `CommsServices` in which the
consumer runs. On the inbound side the receiver and the loop
are two tasks, each weakly fair, and the daemon is restarted.

### Where code and documents differ

* `claim_ack`: README.md 54-56 and CONTRACT.md 22-23 promise that XACK follows a
  successful archive. A dispatch error is acknowledged without a row
  (main.rs 769), and the claim path ignores the archive's result (862).
* `claim_control`: CONTRACT.md 249-252 and 231 promise that `settings.reload` and
  `system` are never dispatched; the comment at main.rs 793 that the claim path
  has the main path's guards. It lacks these three.
* `failed_retried`: CONTRACT.md 27-30 promises a retry of a failed channel. When
  another channel was skipped, main.rs 720 clears the retry instead.
* `sent_delivered`: a retry all of whose channels are skipped flips the row to
  sent (main.rs 931), although nothing was delivered.
* `link_takeover`: web_link.rs 193 and CONTRACT.md 76-77 say that linking again ends
  that account's previous link. `link` deletes the previous subscriber's route
  without looking whose it is (196); when another account has taken that
  subscriber over, its link ends.
* `daily_mail`: CONTRACT.md 94-97 and watch.rs 10 say that the watch mails the daily
  summary through the daemon. It is queued with type `system` (watch.rs 481), which
  the daemon's main loop acknowledges without dispatching (main.rs 592-595, and
  CONTRACT.md 231 says so), so the canary ends in an alert every day. Only the claim
  path, which lacks that guard, would let it out.

Smaller ones, found while modelling, which no run states:

* web_link.rs 209-210 says that the account's record goes when the site no longer routes
  it. A read of the route that failed is taken for a route that is gone (213), and the
  record goes too: one failed call ends the link. (`StraysExplained` counts these.)
* main.rs 2024-2026 says that the first press wins and a second is told so. When the
  hash expires between HGETALL and HSETNX (2083), the claim makes it again and the
  second press is a vote too. So is one after the poll was sent again on a later day.
  (`VotesExplained` says that there is one for each time the context was made.)
* A message or a routing rule that names a channel twice has it tried, and each recipient
  on it sent to, twice. A person on two recipient entries that match gets two copies.
* A link that cannot be read is taken for one that is not there (settings/store.rs 53-56,
  web_link.rs 246-254): the message is skipped for good, and a retry gives up the
  channel it owed.
* Alerts of the watch in a Telegram message that was not taken are lost, since the state
  is saved all the same; and a status file that was unreadable once has a failure that
  was told before told again.
* A re-discovery that fails half-way leaves a known site without a group, and reads of
  all sites fail until the next one; the comment at stream_reader.rs 148 says it must
  never take down the loop for known sites.
* `geodineum-comms retry` says a message is queued for retry (main.rs 2423), but
  nothing reads rows that are pending.
* An age for sent rows is ignored when the general age is 0 (cleanup.rs 116), and
  deletion by age does not look at `min_messages_keep`; a cleanup by size without
  VACUUM deletes again each time it runs, since the file does not shrink.
* A text entry that is claimed together with a binary one is never returned, for as
  long as both are pending.
* A failed call, or a crash, between the touch and the creation of a session leaves
  the old session alive or an empty id, where conversation_state.rs 157 says no data
  is lost. Sessions made in the same second share an id.
* The guard's verdict is read from an error text as well as from an answer.
* The pointer is deleted without looking which alert it names by then, so an alert
  raised between the read and the deletion is not answerable by a word.
* A redelivered word that was resolved before its crash falls through to the
  workflows or to the inference service.
* A row that failed before may be deleted by the age of failed rows between
  `archive_received` and `update_status`, and the new status is lost. So may one that
  said spam, by the age of spam, when its entry comes back and is judged clean: the
  message is then sent, no row says so, and it is sent again with the next redelivery.
* A digest hour below three lets a canary be replaced before it is given up
  (`WatchAssumption` excludes it).
* An unknown slash command is asked directly, without its session, when the chain is
  enabled.

## What is proved

Every theorem holds for all values of the constants, so for every number of entries,
sites, channels, accounts, recipients, hours and faults, under the assumptions the
modules name. The assumptions give the constants their types; what they say beyond
that is

* `DispatchAssumption`: entries with one id are of one site, a site's entries parse or
  do not parse together, the window and the attempts are at least one;
* `LinkAssumption`: the two values that stand for no account are no accounts;
* `ChatAssumption`: the words that answer an alert are not the commands;
* `RoutingAssumption`: the three providers are channel names; caps are numbers; lists
  of channels and recipients are what their types say;
* `PollAssumption`: the bound on making a context is a number;
* `SpamAssumption`: the vocabulary is finite;
* `UpkeepAssumption`: ages, limits and the buffer of a retention are numbers;
* `WatchAssumption`: a mail is given up before the next day's digest hour (the code's
  defaults; see the smaller findings).

Each safety proof is an inductive invariant, with one step per action. What the
invariants add to the properties:

The dispatch (`CommsDispatchProofs`, `CommsGuardProofs`).

* `TypeCorrect`: `Spec => []TypeOK`, and `RetriesBounded`: `Spec => []RetryBounded`.
  `TypeOK` alone is not inductive: `used` stays in its window only if a count
  follows a check, and the entry number of a retry is a real entry only if every
  job and copied state is. `TypeInv` adds `HandOK` (a job past idle holds an
  entry), `PointsToOK` (a key with attempts names an entry) and the bound itself,
  which keeps `attempts` inside its type.
* `AckBehindArchive`: `Spec => []AckFence`. The invariant adds `JobFence` (what a
  job at its stage may claim about itself) and `AckReady` (a fenced job waiting to
  acknowledge has its final row already). A final row is never taken back, since
  a failed archive writes pending only over a missing row.
* `DispatchesTakeFromAllowance`: `Spec => Limiter!Spec`, where `Limiter` is
  `RateAllowance` with `used` for its count. First dispatches, claimed ones and retries
  take from one allowance, one each and below it; a crash and the window give back.
* `DeliveryImplemented`: `Spec => ImplementsDelivery`. `PelOK` says a pending
  entry was delivered and not settled, `HoldsPending` that the entries in a
  batch or a job are pending. With these every step of the daemon is a step of
  `EntryDelivery` or leaves `fate` and `archived` unchanged.
* `SpamStays`: `Spec => []SpamNeverSent`. A message all of whose entries are spam is
  never in hand except to be archived or acknowledged (`SpamInHand`), and no retry
  key and no copied state names it (`SpamKeys`, `SpamDue`): those are written only
  after a dispatch.
* `ReloadTakesEffect`: `Spec => []ReloadApplied`. A reload is appended after its
  settings are saved (`SavedFirst`), it is acknowledged only from the step that
  drops the cache (`ControlInHand`), and a cache filled later is filled with what is saved.
* `JobInv` says of the job at each stage how its channels add up to its status and what
  key its message has. The next three rest on it.
* `FailuresRemembered`: `Spec => []RetryScheduled`. Between the archive and the key a
  failed message is remembered by the job in hand (`Answering`); a key is cleared only
  when the row does not say failed (`ClearedRightly`).
* `SentStays`: `Spec => SentIsFinal`. While the archive can be read, a message on its way
  through the main or the claim path does not say sent yet (`FreshJob`).
* `SentNotWaiting`: `Spec => []SentNotRetried`. With faulty providers only, a sent message
  has no key or is about to lose it, and what is in hand or due for a retry does not say
  sent (`WaitInv`).
* `DuplicatesPaidFor`: `Spec => []DuplicatesExplained`. A weight for each message and
  channel: the deliveries, the entries still open, and one for a key, a copied state
  and a job that may still send. No step raises the weight without taking it from the
  faults left (`Pays`), and at the start it is the number of entries (`Charged`).
  `DueInv` relates the copies of a sweep to their keys, so that a double sweep or a
  retry in hand is not counted as a right of its own.

The inbound half (`InboundProofs`).

* `InboundTypeCorrect`: `Spec => []TypeOK`, with `StageFits` (the entry in hand is of the
  kind its stage is a handler for) and `RecordHeld` (a record that was read is there).
* `RepeatsPaidFor`: `Spec => []RepeatsExplained`. Again a weight: times handled, entries
  waiting and whether the receiver has yet to write it, against twice the troubles spent.
* `TakenInOrder`: `Spec => []InOrder`. `Placed` says that the entries behind the one in
  hand were handled before, and those ahead not, but for what came back.
* `OneVote`, `FirstPressIsTheVote`: `VoteIsClaim` (part of `VotesExplained`) and
  `FirstPressWins`. A vote being written is of the press that holds the claim
  (`VoteInv`). Without failures the stream holds the updates as they were sent (`AsSent`)
  and each is done before the next is taken up (`OneByOne`), so that the claim is of the
  first (`FirstInv`). Both are of a context made once; `Pressable` says that a button
  pressed is of a poll whose context was made.
* `VotesAreExplained`: `Spec => []VotesExplained`. `CountInv`: the votes a poll told, the
  one on its way and the claim that its context still offers are together no more than
  the times the context was made. A claim turns the offer into a vote on its way, and a
  context that is made, by the poll or by a claim, raises the bound by what it offers.
* `StraysPaidFor`: `Spec => []StraysExplained`. The windows without a record, together with
  the one that the handler's next write would add to them (`AtRisk`, by what it has read
  or failed to write), grow by one with a failure and not otherwise (`HandlerLoses`).
* `RoutesHaveRecords`, `OthersStayLinked`, `OnesOwnWindow`: `RouteHasRecord` (that without
  a refused call nothing is astray), `OthersKeepLink`, `NeverAnothersWindow`. `LinkInv`
  says of each stage of `link` and `unlink` which of its account's routes may stand;
  `WindowInv` that nobody else gets on the route between the read and what is done on it.
* `UnlinkIsFinal`: `Spec => []UnlinkSticks`. The last update of an account that is not in
  flight is the last that the stream has of it (`LastWritten`), and one whose last done
  update is an unlink has no record unless it is in hand again (`CleanInv`).
* `OneAccountPerCode`: `Spec => []CodeLinksOne`. A code spent but still fresh belongs to an
  entry that is not acknowledged, which is handled before any other that could use it
  (`CodeInv`).

The services (`IntakeProofs`, `RoutingProofs`, `UpkeepProofs`, `ChatProofs`, `ServicesProofs`).

* `WindowNeverOverdrawn`: `LimiterSpec => []AllowanceKept` (in no stretch as long as the
  window is a site let through more often than allowed), and `RefusalsCaused`:
  `LimiterSpec => RefusedForCause`. The invariant says that admissions are ordered in
  time, and that the map holds every admission that still counts (`Complete`): pruning
  and eviction only remove what is out of the window. Then the entry of a site is
  exactly its recent admissions, their number is the distance from the oldest of them,
  and both properties follow.
* `LimiterActsAsCounter`: `LimiterSpec => ActsAsCounter`. What the count says is a set's
  cardinality: an admission adds one element to one site's recent admissions
  (`AcquireAdmits`), a tick only takes elements away (`TickFalls`), and a refusal, a
  pruning or an eviction leaves them as they are (`CountsKept`).
* `SettledStays`: `StreamsSpec => []SettledOnce` (an acknowledged entry is not handed
  out). `StreamsInv`: what is pending or settled of a group was given, a settled entry is
  not pending, and a message in memory is pending; a group that exists is never made
  again with its counter at the start.
* `StreamsDeliver`: `StreamsSpec => ConsumerDelivers`. Under `StreamsInv` the fate of every
  entry is determined, and each step moves a set of entries from one fate to the next,
  deletes a stream's, or leaves all as they are.
* `FilterNeverWeaker`: `SpamSpec => []NeverWeaker`. The score grows with the lists, and one
  finding alone stays below the threshold.
* `OneCopyEach`: `RoutingSpec => []NoSecondCopy`. `MayGet` says which entries of a channel
  may still get a copy by what is left of the dispatch or by the retry it will leave;
  whichever may has none yet that is not paid for (`CopiesOK`). What is left is the end of
  the message's list (`QueueOK`), so that a channel named once does not come again.
* `CapHolds`: `RoutingSpec => []CapKept`. An addressed message has one channel and one
  recipient entry. Those that arrived are the counted, the uncounted, the repeated, and the one in
  hand, which was let in below the cap (`InFlight`, `CapInv`).
* `BufferKept`: `UpkeepSpec => LimitsKeepBuffer`. While no second cleanup has run beside
  it, a cleanup is alone (`Alone`) and what it is to delete and what is to be kept fit
  into the archive (`Room`): between its count and its deletion the daemon only adds
  rows. No two rows have one place in the order of receipt (`RowsOK`), so that the oldest
  `n` are at most `n` (`OldestAreFew`).
* `SentOnceKnown`: `UpkeepSpec => SentAgainOnlyForgotten`. A message that was sent may be
  forgotten (`Forgotten`, which a failed statement or a crash between the send and the
  row makes it), or its row says sent, or it is in hand and its row will (`Remembered`). A
  row that goes without having said spam is one that may be forgotten
  (`DeletedForgotten`): a cleanup is only where its retention has a rule (`ByRule`), and
  no row is younger than its first receipt.
* `ReceiptsAreTold`: `WatchSpec => []NothingPassedUnsaid`. Every bad receipt that a
  state's cursor has passed was told, was in a message Telegram did not take, or is among the
  alerts of the run (`Covered`),
  for the saved state with no alerts and for the run's copy with those it holds.
* `NewsIsSaidOnce`: `WatchSpec => []SaidOnce`. A run's alerts are what its copy has passed
  and the saved state has not (`SayInv`). A failed run
  that the copy no longer remembers counts as the file mislaid.
* `MailIsJudged`: `WatchSpec => []CanaryJudged`. The canary is of the digest day of its
  state, and is judged before that day's successor comes (`MailInv`); this is where
  `WatchAssumption` and the arithmetic of days are needed.
* `AlertsAnsweredOnce`: `ChatSpec => []AnsweredOnce`. An alert is owed one answer while
  the pointer names it or a word is being resolved against it; once the pointer was
  deleted both are owed, for it may have been set again (`Owed`). Answers sent and owed
  never exceed the times an alert was tracked.
* `ReviewsAreGuarded`: `ChatSpec => []GuardHolds`. Entries are only added to the unified
  stream (`AppendKeeps`), and each of the last stages is entered with what it needs: the
  review's answer, the guard's request behind it, its verdict (`GuardInv`).
* `TimeoutsHaveCause`: `ChatSpec => []TimeoutForCause`. An answer that a look did not see
  was added later or lay before the newest entries of that moment (`LookInv`).
* `SessionsAreFresh`: `ChatSpec => []FreshSession`. When a message is taken up the hash, if
  there is one, is no younger than the last message done with (`SessionInv`), so that the
  touch finds a session idle whenever a new one is due.
* `ServicesTypeCorrect`: `ServicesSpec => []ServicesTypeOK`, from the types of the seven,
  each of which needs more than itself: that what is in hand is an entry of the stream,
  that a step's data are there when it is reached.
* `EveryServiceSafe`: every safety property of a service holds of `CommsServices`, since a
  behaviour of it is one of each service's, or a stutter of it (`EachRuns`).

Where a proof needs the first of some numbers (the first rule of a type, the press with
the least number, the last update of an account), it takes a minimal element of a
well-founded relation (`WFMin` and `NatLessThanWellFounded` of the library).

Only model-checked: the liveness properties (`EventuallySettled`, `RetriesEnd`,
`OperatorsHeard`, `ReadableSettles`), since fairness and ENABLED are out of the prover's
reach, and the runs that expect a violation. Every other property of a passing run is
proved.

## What could come next

What `chat_for` answers beside `link` and `unlink`; group mentions in the receiver; a
daemon that runs without its archive.

## Not modelled

Template rendering, the provider clients, receipt signatures, the SPR compressor,
configuration parsing, the command line's output and the schema registry. They are pure
functions of text, cryptography or I/O with no state of their own whose order matters;
their outcome is a choice in the models. Of the modelled parts: the archive's queries
and statistics, the status hash written for the dashboard, the receiver's mention rules
and its backoff, media messages, and the wording of everything that is sent.
