------------------------------- MODULE Watcher -------------------------------
(***************************************************************************)
(* The hourly watch of src/watch.rs: what it reads (the daemon's heartbeat,*)
(* a site's delivery receipts, the status file of a nightly job, the mail  *)
(* log), what it tells over Telegram, and the state it keeps in ValKey     *)
(* between two runs. A run is a process: it loads the state, changes its   *)
(* copy, tells, and saves the copy last. The daily mail it queues is an    *)
(* entry of the daemon's stream. Time is counted in hours.                 *)
(***************************************************************************)
EXTENDS Naturals, Sequences, FiniteSets

CONSTANTS
  HoursPerDay,
  DigestHour,     (* from this hour the day's summary goes out              *)
  GiveUpHours,    (* a daily mail not delivered for longer is an alert      *)
  RepeatHours,    (* a missing heartbeat is said again after longer         *)
  JobHours,       (* a job that has not succeeded for longer is stale       *)
  MaxHours,       (* bound: hours                                           *)
  MaxNews,        (* bound: receipts of the site and failed runs of the job *)
  MaxBreaks       (* bound: failed calls and runs that die                  *)

(* The last mail of a day is judged before the first of the next is sent;  *)
(* the defaults are 5 and 3.                                               *)
ASSUME WatchAssumption ==
  /\ HoursPerDay \in Nat \ {0} /\ DigestHour \in Nat /\ GiveUpHours \in Nat
  /\ GiveUpHours <= DigestHour
  /\ RepeatHours \in Nat /\ JobHours \in Nat /\ MaxHours \in Nat /\ MaxNews \in Nat /\ MaxBreaks \in Nat

VARIABLES
  now,
  alive,          (* the daemon's heartbeat key exists                      *)
  receipts,       (* the site's receipts: "good", or "bad" (not sent)       *)
  failedRun,      (* number of the job's last failed run                    *)
  failing,        (* no run of it has succeeded since                       *)
  lastOk,         (* the hour of its last success                           *)
  mails,          (* what became of each daily mail                         *)
  saved,          (* the watch state in ValKey                              *)
  st,             (* the copy a run works on                                *)
  alerts,         (* what the run has found so far                          *)
  runStep,        (* how far the run is                                     *)
  (* What the properties remember *)
  told,           (* how often a receipt, a failed run was told             *)
  lost,           (* those that were in a message Telegram did not take     *)
  mislaid,        (* runs that found the job's file unreadable or missing   *)
  digests,        (* daily mails queued on a day                            *)
  unsaved,        (* runs that ended without saving                         *)
  breaks

jobFile   == <<failedRun, failing, lastOk>>
worldVars == <<now, alive, receipts, jobFile>>
runVars   == <<st, alerts, runStep>>
saidVars  == <<told, lost, mislaid>>
watchVars == <<worldVars, mails, saved, runVars, saidVars, digests, unsaved, breaks>>

WatchSteps == {"off", "heartbeat", "receipts", "jobs", "canary", "digest", "tell", "save"}

(* looked, from: whether the site has a cursor, and where it was first set;*)
(* canary, canaryAt: the daily mail not judged yet and when it was queued; *)
(* digestDay: the day after the last digest's; hbHour: the hour after that *)
(* of the last heartbeat alert; jobRun: the last failed run told, and      *)
(* staleHour: the hour after that of the alert that the job is stale.      *)
WatchState == [looked : BOOLEAN, from : Nat, cursor : Nat, canary : Nat, canaryAt : Nat,
               digestDay : Nat, hbHour : Nat, jobRun : Nat, staleHour : Nat]

Blank == [looked |-> FALSE, from |-> 0, cursor |-> 0, canary |-> 0, canaryAt |-> 0,
          digestDay |-> 0, hbHour |-> 0, jobRun |-> 0, staleHour |-> 0]

(* What an alert is about: news, or a state of things.                     *)
News  == {"receipt", "job"} \X (1 .. MaxNews)
Items == News \cup ({"heartbeat", "file", "stale", "mail"} \X {0})

WatchTypeOK ==
  /\ now \in Nat /\ alive \in BOOLEAN /\ receipts \in Seq({"good", "bad"})
  /\ failedRun \in Nat /\ failing \in BOOLEAN /\ lastOk \in Nat
  /\ mails \in Seq({"queued", "acked", "mailed"})
  /\ saved \in WatchState /\ st \in WatchState
  /\ saved.cursor <= Len(receipts) /\ st.cursor <= Len(receipts)
  /\ alerts \subseteq Items /\ told \in [News -> Nat] /\ lost \subseteq News
  /\ runStep \in WatchSteps /\ mislaid \in Nat /\ unsaved \in Nat /\ breaks \in Nat

WatchInit ==
  /\ now = 0 /\ alive = TRUE /\ receipts = << >> /\ mails = << >>
  /\ failedRun = 0 /\ failing = FALSE /\ lastOk = 0
  /\ saved = Blank /\ st = Blank /\ alerts = {} /\ runStep = "off"
  /\ told = [i \in News |-> 0] /\ lost = {} /\ mislaid = 0 /\ digests = [d \in 0 .. MaxHours |-> 0]
  /\ unsaved = 0 /\ breaks = MaxBreaks

Break == breaks > 0 /\ breaks' = breaks - 1
NoBreak == UNCHANGED breaks

-----------------------------------------------------------------------------
(* The world around the watch.                                             *)

NextHour ==
  /\ runStep = "off" /\ now < MaxHours /\ now' = now + 1
  /\ UNCHANGED <<alive, receipts, jobFile, mails, saved, runVars, saidVars, digests, unsaved,
                 breaks>>

DaemonStopsOrStarts ==
  /\ Break /\ alive' = ~ alive
  /\ UNCHANGED <<now, receipts, jobFile, mails, saved, runVars, saidVars, digests, unsaved>>

EmitReceipt(kind) ==
  /\ Len(receipts) + failedRun < MaxNews /\ receipts' = Append(receipts, kind)
  /\ UNCHANGED <<now, alive, jobFile, mails, saved, runVars, saidVars, digests, unsaved, breaks>>

(* The job writes its status file; one step of a run reads it, so that it  *)
(* may as well be written between two runs.                                *)
JobFails ==
  /\ runStep = "off" /\ Len(receipts) + failedRun < MaxNews
  /\ failedRun' = failedRun + 1 /\ failing' = TRUE
  /\ UNCHANGED <<now, alive, receipts, lastOk, mails, saved, runVars, saidVars, digests, unsaved,
                 breaks>>

(* It succeeds again; a success that ends neither a failure nor a silence  *)
(* of hours would only begin the next silence later.                       *)
JobSucceeds ==
  /\ runStep = "off" /\ (failing \/ now - lastOk > JobHours)
  /\ failing' = FALSE /\ lastOk' = now
  /\ UNCHANGED <<now, alive, receipts, failedRun, mails, saved, runVars, saidVars, digests, unsaved,
                 breaks>>

(* The daemon's loop takes the entry of a daily mail. Its type is system:  *)
(* acknowledged, not dispatched. Only the claim path, which lacks that     *)
(* guard, mails it, when the first delivery of the entry was lost.         *)
DaemonTakes(c) ==
  /\ alive /\ mails[c] = "queued"
  /\ \/ mails' = [mails EXCEPT ![c] = "acked"] /\ NoBreak
     \/ mails' = [mails EXCEPT ![c] = "mailed"] /\ Break
  /\ UNCHANGED <<worldVars, saved, runVars, saidVars, digests, unsaved>>

-----------------------------------------------------------------------------
At(from, to) == runStep = from /\ runStep' = to
RunFrame == UNCHANGED <<worldVars, saved, told, lost, digests, unsaved>>

(* run: GET of the state.                                                  *)
Start ==
  /\ At("off", "heartbeat") /\ st' = saved /\ alerts' = {}
  /\ NoBreak /\ RunFrame /\ UNCHANGED <<mails, mislaid>>

(* A missing heartbeat, said again only after hours; a failed EXISTS       *)
(* counts as missing.                                                      *)
CheckHeartbeat ==
  /\ At("heartbeat", "receipts") /\ RunFrame /\ UNCHANGED <<mails, mislaid>>
  /\ \E seen \in {alive, FALSE} :
       /\ IF seen = alive THEN NoBreak ELSE Break
       /\ IF seen THEN st' = [st EXCEPT !.hbHour = 0] /\ UNCHANGED alerts
          ELSE IF st.hbHour = 0 \/ now + 1 > st.hbHour + RepeatHours
          THEN st' = [st EXCEPT !.hbHour = now + 1] /\ alerts' = alerts \cup {<<"heartbeat", 0>>}
          ELSE UNCHANGED <<st, alerts>>

BadAfter(cursor, upto) ==
  {<<"receipt", n>> : n \in {m \in (cursor + 1) .. upto : receipts[m] = "bad"}}

(* The cursor goes to the end, the pages are read up to where one fails.   *)
CursorToEnd(upto) == Len(receipts)

(* The cursor goes to the receipt after it.                                *)
CursorPast(upto) == upto + 1

(* The cursor goes to the last receipt that was read.                      *)
CursorAfter(upto) == upto

(* The receipts after the cursor, page by page; a page that fails counts   *)
(* as the last. The first look only sets the cursor.                       *)
ReadReceipts ==
  /\ At("receipts", "jobs") /\ RunFrame /\ UNCHANGED <<mails, mislaid>>
  /\ IF ~ st.looked
     THEN /\ st' = [st EXCEPT !.looked = TRUE, !.cursor = Len(receipts), !.from = Len(receipts)]
          /\ NoBreak /\ UNCHANGED alerts
     ELSE \E upto \in st.cursor .. Len(receipts) :
            /\ IF upto = Len(receipts) THEN NoBreak ELSE Break
            /\ alerts' = alerts \cup BadAfter(st.cursor, upto)
            /\ st' = [st EXCEPT !.cursor = CursorAfter(upto)]

(* The failed run of the file and the alert about it: none when the last   *)
(* run succeeded; for a file that cannot be read a made-up one of the day. *)
NoFailure  == <<0, 0>>
LastRun    == IF failing THEN <<failedRun, <<"job", failedRun>>>> ELSE NoFailure
Unreadable == <<MaxNews + 1 + now \div HoursPerDay, <<"file", 0>>>>

(* The run that was said is not kept.                                      *)
SaidUnmarked(run) == UNCHANGED st /\ alerts' = alerts \cup {run[2]}

(* The last run said is the one kept.                                      *)
SaysRun(run) == st' = [st EXCEPT !.jobRun = run[1]] /\ alerts' = alerts \cup {run[2]}

(* job_alert: a failed run is said once; that there was no success for     *)
(* hours, at most once in a day's hours.                                   *)
JobAlert(run) ==
  LET stale == now - lastOk > JobHours
      again == st.staleHour = 0 \/ now + 1 >= st.staleHour + HoursPerDay
  IN  \/ run # NoFailure /\ run[1] # st.jobRun /\ SaysRun(run)
      \/ run # NoFailure /\ run[1] = st.jobRun /\ UNCHANGED <<st, alerts>>
      \/ /\ run = NoFailure /\ stale /\ again
         /\ st' = [st EXCEPT !.staleHour = now + 1] /\ alerts' = alerts \cup {<<"stale", 0>>}
      \/ run = NoFailure /\ stale /\ ~ again /\ UNCHANGED <<st, alerts>>
      \/ run = NoFailure /\ ~ stale /\ st' = [st EXCEPT !.staleHour = 0] /\ UNCHANGED alerts

(* What was said of a job is forgotten with its file.                      *)
ForgetJob == st' = [st EXCEPT !.jobRun = 0, !.staleHour = 0] /\ UNCHANGED alerts

(* The job's status file: read, or found unreadable or missing; or its     *)
(* directory cannot be read.                                               *)
CheckJobs ==
  /\ At("jobs", "canary") /\ RunFrame /\ UNCHANGED mails
  /\ \/ JobAlert(LastRun) /\ NoBreak /\ UNCHANGED mislaid
     \/ (JobAlert(Unreadable) \/ ForgetJob) /\ Break /\ mislaid' = mislaid + 1
     \/ UNCHANGED <<st, alerts, mislaid>> /\ Break

(* A problem is told and the mail stays to be judged again.                *)
ForgetsNothing(c) == IF mails[c] = "mailed" THEN 0 ELSE c

(* What is left to judge of a daily mail: nothing once it is delivered, or *)
(* once its absence has been an alert.                                     *)
LeftToJudge(c) == IF mails[c] = "mailed" \/ now - st.canaryAt > GiveUpHours THEN 0 ELSE c

(* canary_problem, from the hour after the mail was queued.                *)
JudgeCanary ==
  /\ At("canary", "digest") /\ RunFrame /\ NoBreak /\ UNCHANGED <<mails, mislaid>>
  /\ IF st.canary # 0 /\ now > st.canaryAt
     THEN /\ st' = [st EXCEPT !.canary = LeftToJudge(st.canary)]
          /\ alerts' = IF mails[st.canary] # "mailed" /\ now - st.canaryAt > GiveUpHours
                       THEN alerts \cup {<<"mail", 0>>} ELSE alerts
     ELSE UNCHANGED <<st, alerts>>

Day == now \div HoursPerDay
DigestDue == now % HoursPerDay >= DigestHour /\ st.digestDay # Day + 1

(* The day's mail is queued; the line to Telegram may get lost. When the   *)
(* XADD fails the run ends here, and nothing it found is told or saved.    *)
Digest ==
  /\ runStep = "digest"
  /\ IF ~ DigestDue
     THEN runStep' = "tell" /\ NoBreak /\ UNCHANGED <<mails, st, alerts, digests, unsaved>>
     ELSE \/ /\ runStep' = "tell" /\ NoBreak /\ mails' = Append(mails, "queued")
             /\ st' = [st EXCEPT !.canary = Len(mails) + 1, !.canaryAt = now, !.digestDay = Day + 1]
             /\ digests' = [digests EXCEPT ![Day] = @ + 1] /\ UNCHANGED <<alerts, unsaved>>
          \/ /\ runStep' = "off" /\ Break /\ unsaved' = unsaved + 1
             /\ st' = saved /\ alerts' = {} /\ UNCHANGED <<mails, digests>>
  /\ UNCHANGED <<worldVars, saved, saidVars>>

(* The state is saved before the alerts are told.                          *)
SavesFirst ==
  /\ At("tell", "save") /\ saved' = st /\ NoBreak
  /\ UNCHANGED <<worldVars, mails, st, alerts, saidVars, digests, unsaved>>

(* One Telegram message with all the alerts. Whether Telegram took it is   *)
(* ignored, as is that no bot or chat is configured.                       *)
Tell ==
  /\ At("tell", "save")
  /\ \/ /\ told' = [i \in News |-> IF i \in alerts THEN told[i] + 1 ELSE told[i]]
        /\ UNCHANGED lost
     \/ lost' = lost \cup (alerts \cap News) /\ UNCHANGED told
  /\ NoBreak /\ UNCHANGED <<worldVars, mails, saved, st, alerts, mislaid, digests, unsaved>>

(* SET of the state, the last thing a run does.                            *)
Save ==
  /\ runStep = "save" /\ runStep' = "off" /\ alerts' = {}
  /\ \/ saved' = st /\ NoBreak /\ UNCHANGED <<st, unsaved>>
     \/ saved' = saved /\ st' = saved /\ Break /\ unsaved' = unsaved + 1
  /\ UNCHANGED <<worldVars, mails, saidVars, digests>>

RunDies ==
  /\ runStep # "off" /\ runStep' = "off" /\ Break
  /\ st' = saved /\ alerts' = {} /\ unsaved' = unsaved + 1
  /\ UNCHANGED <<worldVars, mails, saved, saidVars, digests>>

WatchNext ==
  \/ NextHour \/ DaemonStopsOrStarts \/ JobFails \/ JobSucceeds
  \/ \E kind \in {"good", "bad"} : EmitReceipt(kind)
  \/ \E c \in DOMAIN mails : DaemonTakes(c)
  \/ Start \/ CheckHeartbeat \/ ReadReceipts \/ CheckJobs \/ JudgeCanary \/ Digest
  \/ Tell \/ Save \/ RunDies

WatchSpec == WatchInit /\ [][WatchNext]_watchVars

-----------------------------------------------------------------------------
(* Properties.                                                             *)

(* Whatever fails and wherever a run dies, the saved cursor never passes a *)
(* receipt of something that was not delivered before a Telegram message   *)
(* with the alert was sent: the only alerts that are lost are those of a   *)
(* message Telegram did not take, which no run sends again. Only the first *)
(* look passes what is older.                                              *)
NothingPassedUnsaid ==
  saved.looked =>
    \A n \in (saved.from + 1) .. saved.cursor :
      receipts[n] = "bad" => told[<<"receipt", n>>] > 0 \/ <<"receipt", n>> \in lost

(* A bad receipt and a failed run of a job are told once, and a day has    *)
(* one daily mail, but for the runs that ended without saving; a failed    *)
(* run is also told again after a run that found the job's file unreadable *)
(* or missing, as what was said of the job is then overwritten.            *)
SaidOnce ==
  /\ \A i \in News : told[i] <= 1 + unsaved + (IF i[1] = "job" THEN mislaid ELSE 0)
  /\ \A d \in DOMAIN digests : digests[d] <= 1 + unsaved

(* A daily mail is never forgotten: when the next one replaces it in the   *)
(* state, it was found delivered or its absence was an alert, whichever    *)
(* hours the watch ran in.                                                 *)
CanaryJudged == (runStep = "digest" /\ DigestDue) => st.canary = 0

(* "Once a day COMMS mails the operator the per-site summary through its   *)
(* own pipeline": a daily mail the daemon has taken off its stream was     *)
(* mailed.                                                                 *)
DailyMailLeaves == \A c \in DOMAIN mails : mails[c] # "acked"
=============================================================================
