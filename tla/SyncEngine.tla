----------------------------- MODULE SyncEngine -----------------------------
(***************************************************************************)
(* The device from a finished recording to the Hub's "done": the sync task *)
(* (components/net/sync_engine.c), its HTTP client (http_uploader.c), the  *)
(* queue it drains (JobQueue) and as much of the application around them   *)
(* as decides when the queue grows, when a drain starts and what a reset   *)
(* destroys.                                                               *)
(*                                                                         *)
(* While the application is in SYNC the sync task is the only user of the  *)
(* queue: a recording starts in IDLE only, and SYNC is left on SYNC_DONE.  *)
(*                                                                         *)
(* The Hub is what the device can tell of it: it keeps one recording per   *)
(* client_job_id (a second upload is answered with the first) and each     *)
(* ends done or in error.  The network loses requests and answers.         *)
(***************************************************************************)
EXTENDS JobQueue

CONSTANTS
  MaxAttempts,  \* config_sync_max_attempts()
  MaxFaults,    \* bound: failures of the network in a behaviour
  MaxHubErrors, \* bound: recordings the Hub fails to process
  MaxCrashes,   \* bound: resets in a behaviour
  EmptyRecIds   \* whether an accepted upload may come back without its id

ASSUME SyncAssumption ==
  /\ MaxAttempts \in Nat \ {0}
  /\ MaxFaults \in Nat
  /\ MaxHubErrors \in Nat
  /\ MaxCrashes \in Nat
  /\ EmptyRecIds \in BOOLEAN

VARIABLES
  app,          \* the application: off, booting, IDLE, RECORDING.., SYNC
  syncRequest,  \* a SYNC_REQUEST event has been posted and not yet handled
  capture,      \* the capture being recorded, a set of at most one
  pc,           \* where the sync task is
  todo,         \* the part of the current snapshot not yet visited
  current,      \* the job in hand, a set of at most one
  answer,       \* what http_uploader_upload returned for it
  retry,        \* s_retry: no slot, not_before ahead, or not_before passed
  hub,          \* the Hub's recording of each capture
  faults, crashes

syncVars == <<pc, todo, current, answer, retry>>
vars == <<queueVars, app, syncRequest, capture, syncVars, hub, faults, crashes>>

AppStates == {"off", "boot", "idle", "recording", "sync"}
PCs == {"wait", "drain", "connect", "upload", "post", "result", "poll",
        "moveWav", "moveJob", "check"}
Answers == {"none", "fail", "ok", "okNoId"}
HubStates == {"none", "queued", "done", "error"}

TypeOK ==
  /\ QueueTypeOK
  /\ app \in AppStates
  /\ syncRequest \in BOOLEAN
  /\ capture \in SUBSET Captures
  /\ pc \in PCs
  /\ todo \in SUBSET Captures
  /\ current \in SUBSET Captures
  /\ answer \in Answers
  /\ retry \in [Captures -> {"none", "waiting", "ready"}]
  /\ hub \in [Captures -> HubStates]
  /\ faults \in Nat
  /\ crashes \in Nat

NoRetries == [c \in Captures |-> "none"]

Init ==
  /\ QueueInit
  /\ app = "boot"
  /\ syncRequest = FALSE
  /\ capture = {}
  /\ pc = "wait"
  /\ todo = {}
  /\ current = {}
  /\ answer = "none"
  /\ retry = NoRetries
  /\ hub = [c \in Captures |-> "none"]
  /\ faults = 0
  /\ crashes = 0

-----------------------------------------------------------------------------
(* Reset and boot.                                                         *)

ResetVolatile ==
  /\ RamLost
  /\ app' = "off"
  /\ syncRequest' = FALSE
  /\ capture' = {}
  /\ pc' = "wait"
  /\ todo' = {}
  /\ current' = {}
  /\ answer' = "none"
  /\ retry' = NoRetries
  /\ crashes < MaxCrashes
  /\ crashes' = crashes + 1
  /\ UNCHANGED <<hub, faults>>

Crash == app # "off" /\ ResetVolatile /\ UNCHANGED card

PowerOn ==
  /\ app = "off"
  /\ app' = "boot"
  /\ UNCHANGED <<queueVars, syncRequest, capture, syncVars, hub, faults, crashes>>

\* journal_init runs before queue_init and puts interrupted jobs back.
JournalRecover(c) ==
  /\ app = "boot"
  /\ RecoverStuck(c)
  /\ UNCHANGED <<app, syncRequest, capture, syncVars, hub, faults, crashes>>

\* BOOT_COMPLETE takes the application to IDLE; its bridge then asks for a sync.
\* A wake-up by REC goes through RECORDING instead, with no session to record,
\* and comes to IDLE without asking.
FinishBoot ==
  /\ app = "boot"
  /\ Stuck = {}
  /\ QueueInitRam
  /\ app' = "idle"
  /\ syncRequest' \in BOOLEAN
  /\ UNCHANGED <<capture, syncVars, hub, faults, crashes>>

-----------------------------------------------------------------------------
(* Recording.                                                              *)

\* REC in IDLE.  A SYNC_REQUEST still in the event loop is ignored in RECORDING.
StartCapture(c) ==
  /\ app = "idle"
  /\ num[c] = 0
  /\ PrepareCapture(c)
  /\ capture' = {c}
  /\ app' = "recording"
  /\ syncRequest' = FALSE
  /\ UNCHANGED <<syncVars, hub, faults, crashes>>

\* FINALIZING, CONFIRM and back to IDLE, where the bridge asks for a sync.
FinishCapture(c) ==
  /\ app = "recording"
  /\ c \in capture
  /\ Enqueue(c)
  /\ capture' = {}
  /\ app' = "idle"
  /\ syncRequest' = TRUE
  /\ UNCHANGED <<syncVars, hub, faults, crashes>>

\* A short tap or an error: the WAV is removed or stays behind without a .job.
AbandonCapture(c) ==
  /\ app = "recording"
  /\ c \in capture
  /\ wav' \in {wav, [wav EXCEPT ![c] = "none"]}
  /\ capture' = {}
  /\ app' = "idle"
  /\ UNCHANGED <<job, state, attempts, hasRecId, num, ramVars, syncRequest, syncVars,
                 hub, faults, crashes>>

\* The event loop handles SYNC_REQUEST in IDLE; the bridge wakes the sync task.
StartSync ==
  /\ app = "idle"
  /\ syncRequest
  /\ app' = "sync"
  /\ syncRequest' = FALSE
  /\ pc' = "drain"
  /\ UNCHANGED <<queueVars, capture, todo, current, answer, retry, hub, faults, crashes>>

-----------------------------------------------------------------------------
(* sync_engine_drain: the uploads.                                         *)

shell == <<app, syncRequest, capture, crashes>>

\* A mistake: one attempt too many.
ExhaustedLate(c) == state[c] = "error" /\ attempts[c] > MaxAttempts

Exhausted(c) == state[c] = "error" /\ attempts[c] >= MaxAttempts
Eligible(c) == c \in Pending /\ ~Exhausted(c) /\ retry[c] # "waiting"

\* The snapshot is taken before the radio is on.
Snapshot ==
  /\ pc = "drain"
  /\ todo' = Listed(Pending)
  /\ pc' = IF (\E c \in todo' : Eligible(c)) \/ AwaitingHub # {}
           THEN "connect" ELSE "check"
  /\ UNCHANGED <<queueVars, shell, current, answer, retry, hub, faults>>

Connected ==
  /\ pc = "connect"
  /\ pc' = "upload"
  /\ UNCHANGED <<queueVars, shell, todo, current, answer, retry, hub, faults>>

\* No known network in range, or no answer to the health check.
NotConnected ==
  /\ pc = "connect"
  /\ faults < MaxFaults
  /\ faults' = faults + 1
  /\ pc' = "check"
  /\ UNCHANGED <<queueVars, shell, todo, current, answer, retry, hub>>

SkipJob(c) ==
  /\ pc = "upload"
  /\ Oldest(c, todo)
  /\ ~Eligible(c)
  /\ todo' = todo \ {c}
  /\ UNCHANGED <<queueVars, shell, pc, current, answer, retry, hub, faults>>

StartUpload(c) ==
  /\ pc = "upload"
  /\ Oldest(c, todo)
  /\ Eligible(c)
  /\ Mark(c, "uploading")
  /\ todo' = todo \ {c}
  /\ current' = {c}
  /\ pc' = "post"
  /\ UNCHANGED <<shell, answer, retry, hub, faults>>

\* api/recordings.py: the same client_job_id gets the recording it already has.
Ingest(c) == hub' = IF hub[c] = "none" THEN [hub EXCEPT ![c] = "queued"] ELSE hub

\* http_uploader_upload.  A missing WAV is not sent.  A fault loses the request,
\* or its answer after the Hub has stored the recording; the body of an accepted
\* upload may be unreadable, which leaves an empty id.
Post(c) ==
  /\ pc = "post"
  /\ c \in current
  /\ pc' = "result"
  /\ \/ /\ wav[c] # "queue"
        /\ answer' = "fail"
        /\ UNCHANGED <<hub, faults>>
     \/ /\ wav[c] = "queue"
        /\ Ingest(c)
        /\ \/ answer' = "ok" /\ UNCHANGED faults
           \/ /\ faults < MaxFaults
              /\ faults' = faults + 1
              /\ answer' \in {"fail"} \cup (IF EmptyRecIds THEN {"okNoId"} ELSE {})
     \/ /\ wav[c] = "queue"
        /\ faults < MaxFaults
        /\ faults' = faults + 1
        /\ answer' = "fail"
        /\ UNCHANGED hub
  /\ UNCHANGED <<queueVars, shell, todo, current, retry>>

\* A mistake: the job goes back without a slot.
UploadRetriedAtOnce(c) ==
  /\ answer = "fail"
  /\ attempts[c] < MaxAttempts
  /\ retry' = [retry EXCEPT ![c] = "none"]
  /\ Mark(c, "queued")

UploadOk(c) ==
  /\ answer \in {"ok", "okNoId"}
  /\ retry' = [retry EXCEPT ![c] = "none"]
  /\ MarkUploaded(c, answer = "ok")

UploadGivenUp(c) ==
  /\ answer = "fail"
  /\ attempts[c] >= MaxAttempts
  /\ retry' = [retry EXCEPT ![c] = "none"]
  /\ Mark(c, "error")

UploadRetried(c) ==
  /\ answer = "fail"
  /\ attempts[c] < MaxAttempts
  /\ retry' = [retry EXCEPT ![c] = "waiting"]
  /\ Mark(c, "queued")

UploadResult(c) ==
  /\ pc = "result"
  /\ c \in current
  /\ UploadOk(c) \/ UploadGivenUp(c) \/ UploadRetried(c)
  /\ current' = {}
  /\ answer' = "none"
  /\ pc' = "upload"
  /\ UNCHANGED <<shell, todo, hub, faults>>

UploadsDone ==
  /\ pc = "upload"
  /\ todo = {}
  /\ todo' = Listed(Pollable)
  /\ pc' = "poll"
  /\ UNCHANGED <<queueVars, shell, current, answer, retry, hub, faults>>

-----------------------------------------------------------------------------
(* poll_hub_jobs.                                                          *)

PollFails(c) ==
  /\ pc = "poll"
  /\ Oldest(c, todo)
  /\ faults < MaxFaults
  /\ faults' = faults + 1
  /\ todo' = todo \ {c}
  /\ UNCHANGED <<queueVars, shell, pc, current, answer, retry, hub>>

\* A mistake: any answer but an error counts as done.
PollTakenForDone(c) ==
  /\ pc = "poll"
  /\ Oldest(c, todo)
  /\ hub[c] # "error"
  /\ Mark(c, "done")
  /\ todo' = todo \ {c}
  /\ current' = {c}
  /\ pc' = "moveWav"
  /\ UNCHANGED <<shell, answer, retry, hub, faults>>

PollDone(c) ==
  /\ pc = "poll"
  /\ Oldest(c, todo)
  /\ hub[c] = "done"
  /\ Mark(c, "done")
  /\ todo' = todo \ {c}
  /\ current' = {c}
  /\ pc' = "moveWav"
  /\ UNCHANGED <<shell, answer, retry, hub, faults>>

CompleteWav(c) ==
  /\ pc = "moveWav"
  /\ c \in current
  /\ MoveWav(c)
  /\ pc' = "moveJob"
  /\ UNCHANGED <<shell, todo, current, answer, retry, hub, faults>>

CompleteJob(c) ==
  /\ pc = "moveJob"
  /\ c \in current
  /\ MoveJob(c)
  /\ current' = {}
  /\ pc' = "poll"
  /\ UNCHANGED <<shell, todo, answer, retry, hub, faults>>

PollNotDone(c) ==
  /\ pc = "poll"
  /\ Oldest(c, todo)
  /\ \/ hub[c] = "error" /\ Mark(c, "error")
     \/ hub[c] = "queued" /\ Mark(c, "processing")
  /\ todo' = todo \ {c}
  /\ UNCHANGED <<shell, pc, current, answer, retry, hub, faults>>

PollsDone ==
  /\ pc = "poll"
  /\ todo = {}
  /\ pc' = "check"
  /\ UNCHANGED <<queueVars, shell, todo, current, answer, retry, hub, faults>>

-----------------------------------------------------------------------------
(* sync_task: what it does between two drains.                             *)

Backoffs == {c \in Captures : retry[c] = "waiting"}

\* Nothing left that the task counts: SYNC_DONE takes the application to IDLE.
SyncDone ==
  /\ pc = "check"
  /\ Backoffs = {}
  /\ hint = 0
  /\ AwaitingHub = {}
  /\ pc' = "wait"
  /\ todo' = {}
  /\ app' = "idle"
  /\ UNCHANGED <<queueVars, syncRequest, capture, crashes, current, answer, retry, hub, faults>>

\* Sleeps until the first slot falls due.
SleepBackoff ==
  /\ pc = "check"
  /\ \E due \in SUBSET Backoffs :
       /\ due # {}
       /\ retry' = [c \in Captures |-> IF c \in due THEN "ready" ELSE retry[c]]
  /\ pc' = "drain"
  /\ UNCHANGED <<queueVars, shell, todo, current, answer, hub, faults>>

\* Five seconds if the Hub owes an answer, at once if only the hint is positive.
DrainAgain ==
  /\ pc = "check"
  /\ Backoffs = {}
  /\ hint > 0 \/ AwaitingHub # {}
  /\ pc' = "drain"
  /\ UNCHANGED <<queueVars, shell, todo, current, answer, retry, hub, faults>>

-----------------------------------------------------------------------------
(* The surroundings: time, the Hub, the power.                             *)

\* The tick count passes not_before while the task does something else.
BackoffElapses(c) ==
  /\ retry[c] = "waiting"
  /\ retry' = [retry EXCEPT ![c] = "ready"]
  /\ UNCHANGED <<queueVars, shell, pc, todo, current, answer, hub, faults>>

HubErrors == {c \in Captures : hub[c] = "error"}

HubProcesses(c) ==
  /\ hub[c] = "queued"
  /\ \/ hub' = [hub EXCEPT ![c] = "done"]
     \/ /\ Cardinality(HubErrors) < MaxHubErrors
        /\ hub' = [hub EXCEPT ![c] = "error"]
  /\ UNCHANGED <<queueVars, shell, syncVars, faults>>

\* The job whose file the next step of some task rewrites.
AboutToWrite(c) ==
  \/ app = "boot" /\ c \in Stuck
  \/ app = "recording" /\ c \in capture
  \/ pc = "upload" /\ Oldest(c, todo) /\ Eligible(c)
  \/ pc = "result" /\ c \in current
  \/ pc = "poll" /\ Oldest(c, todo)

CrashWhileWriting(c) ==
  /\ app # "off"
  /\ AboutToWrite(c)
  /\ TornWrite(c)
  /\ ResetVolatile

-----------------------------------------------------------------------------

SyncStep ==
  \/ Snapshot \/ Connected \/ NotConnected \/ UploadsDone \/ PollsDone
  \/ SyncDone \/ SleepBackoff \/ DrainAgain
  \/ \E c \in Captures :
       \/ SkipJob(c) \/ StartUpload(c) \/ Post(c) \/ UploadResult(c)
       \/ PollFails(c) \/ PollDone(c) \/ PollNotDone(c)
       \/ CompleteWav(c) \/ CompleteJob(c)

BootStep == PowerOn \/ FinishBoot \/ \E c \in Captures : JournalRecover(c)

EndCapture == \E c \in Captures : FinishCapture(c) \/ AbandonCapture(c)

Next ==
  \/ BootStep
  \/ \E c \in Captures : StartCapture(c)
  \/ EndCapture
  \/ StartSync
  \/ SyncStep
  \/ \E c \in Captures : BackoffElapses(c) \/ HubProcesses(c) \/ CrashWhileWriting(c)
  \/ Crash

Spec == Init /\ [][Next]_vars

\* The tasks run when they can (FreeRTOS never stops scheduling a ready task
\* here), a user lets go of REC, the Hub's worker runs.  The network is only as
\* good as MaxFaults makes it: after that many failures it works.
Fairness ==
  /\ WF_vars(BootStep)
  /\ WF_vars(EndCapture)
  /\ WF_vars(StartSync)
  /\ WF_vars(SyncStep)
  /\ \A c \in Captures : WF_vars(HubProcesses(c))

FairSpec == Spec /\ Fairness

-----------------------------------------------------------------------------
(* Safety.                                                                 *)

\* Two captures never share a file name in /queue, whatever was orphaned there
\* by a crash: queue_prepare_capture would overwrite a recording (queue.c
\* scan_max_seq, queue_prepare_capture).
InQueueDir(c) == wav[c] = "queue" \/ job[c] = "queue"

DistinctNames ==
  \A c, d \in Captures : c # d /\ InQueueDir(c) /\ InQueueDir(d) => num[c] # num[d]

\* A capture that got its .job keeps its recording, and neither file leaves
\* /queue before the Hub has finished with it (spec 01 section 10.3), through
\* lost answers, repeated uploads and resets.
NoCaptureLost ==
  \A c \in Captures :
    /\ job[c] # "none" => wav[c] # "none"
    /\ wav[c] = "sent" \/ job[c] = "sent" => hub[c] = "done"

\* The device believes in an upload only if the Hub has the recording, and in
\* its completion only if the Hub has completed it.
HubHasUploaded ==
  \A c \in Captures : job[c] # "none" =>
    /\ state[c] \in {"uploaded", "processing", "done"} => hub[c] # "none"
    /\ state[c] = "done" => hub[c] = "done"

\* Only a reset in the middle of an upload can carry a job past the limit of
\* attempts, by one each time (sync_engine.c should_skip_job, queue.c queue_mark
\* and queue_recover_stuck_jobs).
AttemptsBounded == \A c \in Captures : attempts[c] <= MaxAttempts + crashes

\* Slots and jobs agree: the task never sleeps for a job that has no upload left
\* to retry, and a job whose upload has failed goes back with a slot, so that it is
\* not tried again at once (sync_engine.c retry_schedule, retry_clear).  A reset
\* empties the slots and puts interrupted jobs back without one.
BackoffIsForRetry ==
  /\ \A c \in Backoffs : state[c] = "queued" /\ attempts[c] \in 1 .. MaxAttempts - 1
  /\ \A c \in Captures :
       state[c] = "queued" /\ attempts[c] > 0 => retry[c] # "none" \/ crashes > 0

\* A job the Hub has confirmed is never uploaded, polled or rewritten again.
DoneIsFinal ==
  [][\A c \in Captures : job[c] # "none" /\ state[c] = "done" =>
       state'[c] = "done" /\ attempts'[c] = attempts[c]]_vars

\* The device keeps the promise of CaptureDelivery: it holds a capture from its
\* .job on, hands it over once, and lets go of it only after the Hub's "done".
Delivery == INSTANCE CaptureDelivery WITH
  device <- [c \in Captures |-> CASE job[c] = "none" -> "none"
                                   [] job[c] = "queue" -> "held"
                                   [] job[c] = "sent" -> "released"],
  server <- hub

KeepsPromise == Delivery!Spec

-----------------------------------------------------------------------------
(* Why the safety properties hold: what is true between any two steps.     *)

\* Which part of the control state each variable belongs to.
Control ==
  /\ app # "sync" => pc = "wait"
  /\ app # "recording" => capture = {}
  /\ pc \in {"wait", "drain", "connect", "upload", "poll", "check"} => current = {}
  /\ \A c, d \in current : c = d
  /\ answer # "none" => pc = "result"

\* A capture without a .job has left no trace anywhere; the first boot finds none.
NotYetQueued ==
  /\ app \in {"off", "boot"} /\ crashes = 0 => \A c \in Captures : job[c] = "none"
  /\ \A c \in Captures : job[c] = "none" =>
       /\ state[c] = "unreadable"
       /\ attempts[c] = 0
       /\ hub[c] = "none"
  /\ \A c \in Captures : num[c] = 0 => job[c] = "none"
  /\ \A c \in capture : job[c] = "none" /\ wav[c] = "queue" /\ num[c] # 0

\* What the task relies on when it comes back to the job in hand.
InHand == \A c \in current :
  /\ job[c] = "queue"
  /\ pc \in {"post", "result"} => state[c] = "uploading" /\ attempts[c] > 0
  /\ pc \in {"moveWav", "moveJob"} => state[c] = "done"
  /\ answer \in {"ok", "okNoId"} => hub[c] # "none"

\* A polling snapshot does not go stale while it is worked through.
ToPoll ==
  pc \in {"poll", "moveWav", "moveJob"} => todo \subseteq AwaitingHub \ current

\* A queued job has an upload left; so has one that a reset has interrupted.
AttemptLeft == \A c \in Captures :
  state[c] = "queued" \/ app \in {"off", "boot"} => attempts[c] < MaxAttempts + crashes

\* s_seq, once it is known, is no smaller than any number in use.
SeqCoversNames == seq # 0 => \A c \in Captures : InQueueDir(c) => num[c] <= seq

IInv ==
  /\ TypeOK
  /\ Control
  /\ NotYetQueued
  /\ InHand
  /\ ToPoll
  /\ HubHasUploaded
  /\ NoCaptureLost
  /\ AttemptsBounded
  /\ AttemptLeft
  /\ BackoffIsForRetry
  /\ SeqCoversNames
  /\ DistinctNames

-----------------------------------------------------------------------------
(* Liveness.                                                               *)

\* The device goes on syncing.  A SYNC_REQUEST that reaches the event loop in
\* RECORDING is ignored, so it may rest in IDLE with a full queue (AutoSync).
KeepsSyncing == []<>(app = "sync")

\* A capture ends in /sent or, after MaxAttempts uploads, stays in /queue as an
\* error.  A reset may leave it unreadable, or done and not moved, and an accepted
\* upload whose answer had no id is never polled.
Settled(c) ==
  \/ job[c] = "sent"
  \/ Exhausted(c)
  \/ crashes > 0 /\ state[c] \in {"unreadable", "done"}
  \/ c \in AwaitingHub \ Pollable

\* Jobs that were given up fill the whole listing before it comes to c.
Crowded(c) == Cardinality({d \in Pending : Exhausted(d) /\ num[d] < num[c]}) >= ListMax

\* Every queued capture settles, whatever the network loses and however short the
\* listing is, unless jobs that were given up keep it out of every listing
\* (sync_engine.c sync_engine_drain, queue.c queue_list_pending).
EveryCaptureSettles ==
  KeepsSyncing => \A c \in Captures : job[c] = "queue" ~> Settled(c) \/ Crowded(c)

\* When nothing is counted as pending the drain ends once the Hub has answered,
\* unless the power goes first or an upload without an id is awaited for ever.
SyncEndsWhenNothingPending ==
  (app = "sync" /\ hint = 0) ~> app \in {"idle", "off"} \/ AwaitingHub # Pollable

-----------------------------------------------------------------------------
(* What the documents say and the code does not do.                        *)

\* roadmap.md: a drain ends with SYNC_DONE.
SyncEnds == app = "sync" ~> app = "idle"

\* roadmap.md: a sync follows by itself whenever the queue has something to send.
AutoSync == (app = "idle" /\ Pending # {}) ~> app = "sync"

\* roadmap.md, "Sem starvation": every queued capture gets its turn.  The listing
\* stops at ListMax jobs, given up or not, and those given up are only skipped
\* later (queue.c queue_list_pending, sync_engine.c should_skip_job).
NoStarvation ==
  KeepsSyncing => \A c \in Captures : job[c] = "queue" ~> Settled(c)

\* Spec 01 section 9.3: the boot recovers the state of every job.
RecoveredJobsReadable ==
  app = "idle" => \A c \in Captures : job[c] = "queue" => state[c] # "unreadable"
=============================================================================
