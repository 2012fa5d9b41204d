----------------------------- MODULE HubPipeline -----------------------------
(***************************************************************************)
(* The Hub from an upload to the tasks in Todoist: the handlers of POST    *)
(* /v1/recordings (app/api/recordings.py), the jobs table and the table of *)
(* Todoist keys (app/models/db.py), the one worker (app/worker/queue.py)   *)
(* that takes a job through the pipeline (app/worker/pipeline.py), the     *)
(* audio files and their retention (app/services/audio_retention.py).      *)
(*                                                                         *)
(* Handlers interleave with each other and with the worker at every await. *)
(* Each db function is one transaction and one step.  The process may stop *)
(* between any two steps; the tables, the files and Todoist stay.          *)
(*                                                                         *)
(* The recording_id a handler draws is new, so a recording bears the name  *)
(* of the request that made it.                                            *)
(***************************************************************************)
EXTENDS Integers, Sequences, FiniteSets

CONSTANTS
  Clients,         \* (device_id, client_job_id) pairs
  Posts,           \* the uploads that arrive, repeated ones included
  Plans,           \* what the LLM may answer: how many subtasks each task has
  TodoistDedupes,  \* whether Todoist honours X-Request-Id
  TodoistRefuses,  \* whether every call to Todoist fails (a revoked token)
  RetainZero,      \* retain_audio_days = 0
  MaxFaults,       \* bound: failures of Whisper, the LLM, Todoist or the disk
  MaxCrashes       \* bound: stops of the process

ASSUME HubAssumption ==
  /\ IsFiniteSet(Posts)
  /\ Plans \subseteq Seq(Nat) \ {<<>>}
  /\ TodoistDedupes \in BOOLEAN
  /\ TodoistRefuses \in BOOLEAN
  /\ RetainZero \in BOOLEAN
  /\ MaxFaults \in Nat
  /\ MaxCrashes \in Nat

VARIABLES
  handler,      \* where the handler of each request is
  client,       \* whose capture the request uploads
  answer,       \* the recording named in its answer
  audio,        \* the recordings whose WAV is in audio_dir
  status, transcript, llm, created,   \* columns of jobs; created: how many tasks
  received,     \* received_at, 0 without a row
  keys,         \* todoist_task_keys of each recording
  worker,       \* where the worker is
  inHand,       \* the job it processes, a set of at most one
  plan, item,   \* its structured result, and the task or subtask it is at
  made,         \* how often Todoist has made the task of each key
  madeFrom,     \* the plans that the tasks of a recording were taken from
  lost,         \* creations whose answer never became a key
  faults, crashes

jobs == <<status, transcript, llm, created, received, keys>>
requests == <<handler, client, answer>>
progress == <<plan, item>>
todoist == <<made, madeFrom, lost>>
vars == <<requests, audio, jobs, worker, inHand, progress, todoist, faults, crashes>>

NoRec == "no recording"
NoPlan == <<>>
EmptyPlan == <<0>>      \* one task that says the transcript was empty
AllPlans == Plans \cup {EmptyPlan}

\* Subtask 0 of a task is the task itself: its key has no third part.
Items(p) == UNION {{i} \X (0 .. p[i]) : i \in 1 .. Len(p)}
AllItems == UNION {Items(p) : p \in AllPlans}
NoItem == <<0, 0>>

InFlight == {"transcribing", "structuring", "creating"}
Statuses == {"absent", "queued", "done", "error"} \cup InFlight
WorkerSteps == {"transcribe", "structure", "llm", "begin", "task", "send", "putKey", "created",
                "finish", "retain", "failed"}

TypeOK ==
  /\ handler \in [Posts -> {"unsent", "body", "answered", "refused"}]
  /\ client \in [Posts -> Clients]
  /\ answer \in [Posts -> Posts \cup {NoRec}]
  /\ audio \in SUBSET Posts
  /\ status \in [Posts -> Statuses]
  /\ transcript \in [Posts -> {"null", "text", "empty"}]
  /\ llm \in [Posts -> Plans \cup {NoPlan}]
  /\ created \in [Posts -> Nat]
  /\ received \in [Posts -> Nat]
  /\ keys \in [Posts -> SUBSET AllItems]
  /\ worker \in {"down", "reset", "claim"} \cup WorkerSteps
  /\ inHand \in SUBSET Posts
  /\ plan \in AllPlans \cup {NoPlan}
  /\ item \in AllItems \cup {NoItem}
  /\ made \in [Posts -> [AllItems -> Nat]]
  /\ madeFrom \in [Posts -> SUBSET AllPlans]
  /\ lost \in [Posts -> [AllItems -> Nat]]
  /\ faults \in Nat
  /\ crashes \in Nat

Init ==
  /\ handler = [p \in Posts |-> "unsent"]
  /\ client \in [Posts -> Clients]
  /\ answer = [p \in Posts |-> NoRec]
  /\ audio = {}
  /\ status = [p \in Posts |-> "absent"]
  /\ transcript = [p \in Posts |-> "null"]
  /\ llm = [p \in Posts |-> NoPlan]
  /\ created = [p \in Posts |-> 0]
  /\ received = [p \in Posts |-> 0]
  /\ keys = [p \in Posts |-> {}]
  /\ worker = "down"
  /\ inHand = {}
  /\ plan = NoPlan
  /\ item = NoItem
  /\ made = [p \in Posts |-> [i \in AllItems |-> 0]]
  /\ madeFrom = [p \in Posts |-> {}]
  /\ lost = [p \in Posts |-> [i \in AllItems |-> 0]]
  /\ faults = 0
  /\ crashes = 0

SetStatus(r, s) == status' = [status EXCEPT ![r] = s]
Fault == faults < MaxFaults /\ faults' = faults + 1

-----------------------------------------------------------------------------
(* POST /v1/recordings.                                                    *)

Rows == {r \in Posts : status[r] # "absent"}
RowOf(c) == {r \in Rows : client[r] = c}

AnswerWith(p, r) ==
  /\ handler' = [handler EXCEPT ![p] = "answered"]
  /\ answer' = [answer EXCEPT ![p] = r]
  /\ UNCHANGED client

\* The capture is known: the handler answers with its recording.
PostKnown(p) ==
  /\ worker # "down"
  /\ handler[p] = "unsent"
  /\ \E r \in RowOf(client[p]) : AnswerWith(p, r)
  /\ UNCHANGED <<audio, jobs, worker, inHand, progress, todoist, faults, crashes>>

\* It is not, or not yet: the handler opens a WAV of its own and reads the body.
PostNew(p) ==
  /\ worker # "down"
  /\ handler[p] = "unsent"
  /\ RowOf(client[p]) = {}
  /\ handler' = [handler EXCEPT ![p] = "body"]
  /\ audio' = audio \cup {p}
  /\ UNCHANGED <<client, answer, jobs, worker, inHand, progress, todoist, faults, crashes>>

\* An empty body, one above the limit, or a failing disk, which leaves a part.
PostRefused(p) ==
  /\ handler[p] = "body"
  /\ Fault
  /\ handler' = [handler EXCEPT ![p] = "refused"]
  /\ audio' \in {audio, audio \ {p}}
  /\ UNCHANGED <<client, answer, jobs, worker, inHand, progress, todoist, crashes>>

\* received_at counts seconds: a job is as late as the last one, or later.
ReceivedNow(p) == \E t \in 1 .. Cardinality(Posts) :
  /\ \A r \in Posts : received[r] <= t
  /\ \E r \in Posts : received[r] \in {t - 1, t}
  /\ received' = [received EXCEPT ![p] = t]

\* A mistake: only the look-up at the start keeps a second row away.
PostInsertedUnchecked(p) ==
  /\ handler[p] = "body"
  /\ SetStatus(p, "queued")
  /\ ReceivedNow(p)
  /\ AnswerWith(p, p)
  /\ UNCHANGED <<audio, transcript, llm, created, keys, worker, inHand, progress, todoist,
                 faults, crashes>>

PostInserted(p) ==
  /\ handler[p] = "body"
  /\ RowOf(client[p]) = {}
  /\ SetStatus(p, "queued")
  /\ ReceivedNow(p)
  /\ AnswerWith(p, p)
  /\ UNCHANGED <<audio, transcript, llm, created, keys, worker, inHand, progress, todoist,
                 faults, crashes>>

\* UNIQUE(device_id, client_job_id) fails: another handler was faster.
PostBeaten(p) ==
  /\ handler[p] = "body"
  /\ \E r \in RowOf(client[p]) : AnswerWith(p, r)
  /\ audio' = audio \ {p}
  /\ UNCHANGED <<jobs, worker, inHand, progress, todoist, faults, crashes>>

-----------------------------------------------------------------------------
(* The worker's loop.                                                      *)

StartHub ==
  /\ worker = "down"
  /\ worker' = "reset"
  /\ UNCHANGED <<requests, audio, jobs, inHand, progress, todoist, faults, crashes>>

\* Mistakes: some interrupted jobs are forgotten; finished ones are taken up.
ResetStuckForgetful ==
  /\ worker = "reset"
  /\ status' = [r \in Posts |-> IF status[r] \in {"transcribing", "creating"} THEN "queued"
                                ELSE status[r]]
  /\ worker' = "claim"
  /\ UNCHANGED <<requests, audio, transcript, llm, created, received, keys, inHand, progress,
                 todoist, faults, crashes>>

ResetAll ==
  /\ worker = "reset"
  /\ status' = [r \in Posts |-> IF status[r] # "absent" THEN "queued" ELSE status[r]]
  /\ worker' = "claim"
  /\ UNCHANGED <<requests, audio, transcript, llm, created, received, keys, inHand, progress,
                 todoist, faults, crashes>>

ResetStuck ==
  /\ worker = "reset"
  /\ status' = [r \in Posts |-> IF status[r] \in InFlight THEN "queued" ELSE status[r]]
  /\ worker' = "claim"
  /\ UNCHANGED <<requests, audio, transcript, llm, created, received, keys, inHand, progress,
                 todoist, faults, crashes>>

\* claim_next_queued: the oldest queued job; recording ids, which are drawn at
\* random, decide between jobs of the same second.
Claim(r) ==
  /\ worker = "claim"
  /\ status[r] = "queued"
  /\ \A q \in Posts : status[q] = "queued" => received[r] <= received[q]
  /\ SetStatus(r, "transcribing")
  /\ inHand' = {r}
  /\ worker' = "transcribe"
  /\ UNCHANGED <<requests, audio, transcript, llm, created, received, keys, progress, todoist,
                 faults, crashes>>

\* process_job returns.
Release ==
  /\ worker' = "claim"
  /\ inHand' = {}
  /\ plan' = NoPlan
  /\ item' = NoItem

\* Its except clause.  A job that has tasks, or is about to have some, is tried
\* again; the attempts it counts are never read.
Fail(r) ==
  /\ worker = "failed"
  /\ r \in inHand
  /\ SetStatus(r, IF created[r] > 0 \/ status[r] = "creating" THEN "queued" ELSE "error")
  /\ Release
  /\ UNCHANGED <<requests, audio, transcript, llm, created, received, keys, todoist, faults,
                 crashes>>

-----------------------------------------------------------------------------
(* The pipeline.                                                           *)

Transcribe(r) ==
  /\ worker = "transcribe"
  /\ r \in inHand
  /\ \/ /\ transcript[r] # "null"
        /\ worker' = "structure"
        /\ UNCHANGED <<transcript, faults>>
     \/ /\ transcript[r] = "null" /\ r \in audio
        /\ \E heard \in {"text", "empty"} : transcript' = [transcript EXCEPT ![r] = heard]
        /\ worker' = "structure"
        /\ UNCHANGED faults
     \/ /\ transcript[r] = "null"
        /\ IF r \in audio THEN Fault ELSE UNCHANGED faults
        /\ worker' = "failed"
        /\ UNCHANGED transcript
  /\ UNCHANGED <<requests, audio, status, llm, created, received, keys, inHand, progress,
                 todoist, crashes>>

\* _load_structured: a stored answer is used again, and nothing is asked about
\* an empty transcript.
Structure(r) ==
  /\ worker = "structure"
  /\ r \in inHand
  /\ IF llm[r] # NoPlan \/ transcript[r] = "empty"
     THEN /\ plan' = IF llm[r] # NoPlan THEN llm[r] ELSE EmptyPlan
          /\ worker' = "begin"
          /\ UNCHANGED status
     ELSE /\ SetStatus(r, "structuring")
          /\ worker' = "llm"
          /\ UNCHANGED plan
  /\ UNCHANGED <<requests, audio, transcript, llm, created, received, keys, inHand, item,
                 todoist, faults, crashes>>

\* A mistake: the answer is used but not stored.
AskLLMUnsaved(r) ==
  /\ worker = "llm"
  /\ r \in inHand
  /\ plan' \in Plans
  /\ worker' = "begin"
  /\ UNCHANGED <<requests, audio, status, transcript, llm, created, received, keys, inHand,
                 item, todoist, faults, crashes>>

AskLLM(r) ==
  /\ worker = "llm"
  /\ r \in inHand
  /\ \/ /\ plan' \in Plans
        /\ llm' = [llm EXCEPT ![r] = plan']
        /\ worker' = "begin"
        /\ UNCHANGED faults
     \/ /\ Fault
        /\ worker' = "failed"
        /\ UNCHANGED <<llm, plan>>
  /\ UNCHANGED <<requests, audio, status, transcript, created, received, keys, inHand, item,
                 todoist, crashes>>

\* Where the next task starts, or the end of the loop.
GoToTask(done) ==
  IF done < Len(plan)
  THEN worker' = "task" /\ item' = <<done + 1, 0>>
  ELSE worker' = "finish" /\ item' = NoItem

Begin(r) ==
  /\ worker = "begin"
  /\ r \in inHand
  /\ SetStatus(r, "creating")
  /\ GoToTask(created[r])
  /\ UNCHANGED <<requests, audio, transcript, llm, created, received, keys, inHand, plan,
                 todoist, faults, crashes>>

\* create_task_idempotent: a key that is stored needs no call.  A mistake: the
\* table is not looked at.
FindKeyNever(r) ==
  /\ worker = "task"
  /\ r \in inHand
  /\ worker' = "send"
  /\ UNCHANGED <<requests, audio, jobs, inHand, progress, todoist, faults, crashes>>

FindKey(r) ==
  /\ worker = "task"
  /\ r \in inHand
  /\ worker' = IF item \in keys[r] THEN "created" ELSE "send"
  /\ UNCHANGED <<requests, audio, jobs, inHand, progress, todoist, faults, crashes>>

\* Todoist makes the task, unless it recognizes the key and says what it made.
Make(r) ==
  IF TodoistDedupes /\ made[r][item] > 0
  THEN UNCHANGED <<made, madeFrom>>
  ELSE /\ made' = [made EXCEPT ![r][item] = @ + 1]
       /\ madeFrom' = [madeFrom EXCEPT ![r] = @ \cup {plan}]

LoseAnswer(r) == lost' = [lost EXCEPT ![r][item] = @ + 1]

Send(r) ==
  /\ worker = "send"
  /\ r \in inHand
  /\ \/ ~TodoistRefuses /\ Make(r) /\ worker' = "putKey" /\ UNCHANGED <<lost, faults>>
     \/ ~TodoistRefuses /\ Fault /\ Make(r) /\ LoseAnswer(r) /\ worker' = "failed"
     \/ /\ IF TodoistRefuses THEN UNCHANGED faults ELSE Fault
        /\ worker' = "failed"
        /\ UNCHANGED todoist
  /\ UNCHANGED <<requests, audio, jobs, inHand, progress, crashes>>

PutKey(r) ==
  /\ worker = "putKey"
  /\ r \in inHand
  /\ keys' = [keys EXCEPT ![r] = @ \cup {item}]
  /\ worker' = "created"
  /\ UNCHANGED <<requests, audio, status, transcript, llm, created, received, inHand, progress,
                 todoist, faults, crashes>>

\* A mistake: the task is recorded before its subtasks.
TaskCreatedEarly(r) ==
  /\ worker = "created"
  /\ r \in inHand
  /\ created' = IF item[2] = 0 THEN [created EXCEPT ![r] = @ + 1] ELSE created
  /\ IF item[2] < plan[item[1]]
     THEN worker' = "task" /\ item' = <<item[1], item[2] + 1>>
     ELSE GoToTask(item[1])
  /\ UNCHANGED <<requests, audio, status, transcript, llm, received, keys, inHand, plan,
                 todoist, faults, crashes>>

\* The next subtask, or append_created_task and the next task.
TaskCreated(r) ==
  /\ worker = "created"
  /\ r \in inHand
  /\ IF item[2] < plan[item[1]]
     THEN /\ worker' = "task" /\ item' = <<item[1], item[2] + 1>>
          /\ UNCHANGED created
     ELSE /\ created' = [created EXCEPT ![r] = @ + 1]
          /\ GoToTask(item[1])
  /\ UNCHANGED <<requests, audio, status, transcript, llm, received, keys, inHand, plan,
                 todoist, faults, crashes>>

\* set_done.
Finish(r) ==
  /\ worker = "finish"
  /\ r \in inHand
  /\ SetStatus(r, "done")
  /\ IF RetainZero THEN worker' = "retain" /\ UNCHANGED <<inHand, progress>> ELSE Release
  /\ UNCHANGED <<requests, audio, transcript, llm, created, received, keys, todoist, faults,
                 crashes>>

\* after_job_done: the WAV goes at once.  Its removal may fail, and so may the
\* update of the row that follows it.
Retain(r) ==
  /\ worker = "retain"
  /\ r \in inHand
  /\ \/ /\ audio' = audio \ {r}
        /\ Release
        /\ UNCHANGED faults
     \/ /\ r \in audio
        /\ Fault
        /\ audio' \in {audio, audio \ {r}}
        /\ worker' = "failed"
        /\ UNCHANGED <<inHand, progress>>
  /\ UNCHANGED <<requests, jobs, todoist, crashes>>

-----------------------------------------------------------------------------
(* Retention and the process.                                              *)

\* A mistake: what is old enough goes, whether its job is done or not.
PurgeOld(r) ==
  /\ worker # "down"
  /\ ~RetainZero
  /\ r \in Rows \cap audio
  /\ audio' = audio \ {r}
  /\ UNCHANGED <<requests, jobs, worker, inHand, progress, todoist, faults, crashes>>

\* purge_expired, once a day and at the start.
Purge(r) ==
  /\ worker # "down"
  /\ ~RetainZero
  /\ r \in audio
  /\ status[r] = "done"
  /\ audio' = audio \ {r}
  /\ UNCHANGED <<requests, jobs, worker, inHand, progress, todoist, faults, crashes>>

\* The process stops.  A handler is gone, and the WAV it was writing stays.
Crash ==
  /\ worker # "down"
  /\ crashes < MaxCrashes
  /\ crashes' = crashes + 1
  /\ worker' = "down"
  /\ inHand' = {}
  /\ plan' = NoPlan
  /\ item' = NoItem
  /\ handler' = [p \in Posts |-> IF handler[p] = "body" THEN "refused" ELSE handler[p]]
  /\ IF worker = "putKey" THEN \E r \in inHand : LoseAnswer(r) ELSE UNCHANGED lost
  /\ UNCHANGED <<client, answer, audio, jobs, made, madeFrom, faults>>

Handlers ==
  \E p \in Posts : PostKnown(p) \/ PostNew(p) \/ PostRefused(p) \/ PostInserted(p) \/ PostBeaten(p)

WorkerStep ==
  \/ ResetStuck
  \/ \E r \in Posts :
       \/ Claim(r) \/ Fail(r)
       \/ Transcribe(r) \/ Structure(r) \/ AskLLM(r) \/ Begin(r) \/ FindKey(r) \/ Send(r)
       \/ PutKey(r) \/ TaskCreated(r) \/ Finish(r) \/ Retain(r)

Next ==
  \/ Handlers
  \/ StartHub
  \/ WorkerStep
  \/ \E r \in Posts : Purge(r)
  \/ Crash

Spec == Init /\ [][Next]_vars

\* The container is restarted whenever it stops, and the event loop runs the
\* worker whenever it has something to do.
FairSpec == Spec /\ WF_vars(StartHub) /\ WF_vars(WorkerStep)

-----------------------------------------------------------------------------
(* Safety.                                                                 *)

\* All uploads of one capture are answered with one recording, which exists,
\* however their handlers interleave (recordings.py create_recording).
AnswersAgree ==
  \A p, q \in Posts : handler[p] = "answered" /\ handler[q] = "answered" =>
    /\ answer[p] \in RowOf(client[p])
    /\ client[p] = client[q] => answer[p] = answer[q]

\* A job that has not been transcribed has its WAV: neither a second upload nor
\* the retention takes it away (recordings.py, audio_retention.py).
AudioWhileNeeded ==
  \A r \in Rows : status[r] # "error" /\ transcript[r] = "null" => r \in audio

\* Todoist gets a task twice only if it ignores X-Request-Id and a first answer
\* was lost on the way to todoist_task_keys (todoist_idempotency.py).
DuplicatesNeedALoss ==
  \A r \in Posts, i \in AllItems :
    made[r][i] <= IF TodoistDedupes THEN 1 ELSE 1 + lost[r][i]

\* The plan a recording has settled on.
PlanOf(r) == IF llm[r] # NoPlan THEN llm[r] ELSE EmptyPlan

\* A job that is done has every task and every subtask of its plan in Todoist,
\* through failures, retries and restarts (pipeline.py _create_todoist_tasks).
DoneIsComplete ==
  \A r \in Posts : status[r] = "done" =>
    /\ created[r] = Len(PlanOf(r))
    /\ \A i \in Items(PlanOf(r)) : made[r][i] > 0

\* No two answers of the LLM are mixed: a key means one task forever
\* (pipeline.py _load_structured).
OnePlan == \A r \in Posts : madeFrom[r] \subseteq {PlanOf(r)}

\* Between two claims no job is left in a state that nobody takes it out of
\* (db.py reset_stuck_jobs).
InFlightIsInHand ==
  worker \notin {"down", "reset"} => \A r \in Posts : status[r] \in InFlight => r \in inHand

\* What becomes of each capture.  Without immediate retention the Hub is a
\* HubService: it accepts a capture once and ends it once.
ServerOf(c) ==
  IF RowOf(c) = {} THEN "none"
  ELSE IF \A r \in RowOf(c) : status[r] = "done" THEN "done"
  ELSE IF \A r \in RowOf(c) : status[r] = "error" THEN "error" ELSE "queued"

Server == [c \in Clients |-> ServerOf(c)]

Service == INSTANCE HubService WITH server <- Server

IsHubService == Service!Spec

-----------------------------------------------------------------------------
(* Why the safety properties hold: what is true between any two steps.     *)

\* A handler that has not inserted its row has none, and holds its WAV; a
\* capture has one row, which its uploads are answered with.
UploadRows ==
  /\ \A p \in Posts : handler[p] \in {"unsent", "body"} => p \notin Rows
  /\ \A p \in Posts : handler[p] = "body" => p \in audio
  /\ \A p \in Posts : handler[p] = "answered" => answer[p] \in RowOf(client[p])
  /\ \A q, r \in Rows : client[q] = client[r] => q = r

WorkerHoldsOne ==
  /\ inHand # {} <=> worker \in WorkerSteps
  /\ \A q, r \in inHand : q = r

StatusInHand == \A r \in inHand :
  /\ worker \in {"transcribe", "structure"} => status[r] = "transcribing"
  /\ worker = "llm" => status[r] = "structuring"
  /\ worker = "begin" => status[r] \in {"transcribing", "structuring"}
  /\ worker \in {"task", "send", "putKey", "created", "finish"} => status[r] = "creating"
  /\ worker = "retain" => status[r] = "done" /\ RetainZero
  /\ worker = "failed" => status[r] \in InFlight \/ (status[r] = "done" /\ RetainZero)

\* Once asked about, a recording has its plan for good.
Asked(r) == llm[r] # NoPlan \/ transcript[r] = "empty"

Asking ==
  /\ \A r \in Posts : llm[r] # NoPlan => transcript[r] = "text"
  /\ \A r \in inHand :
       /\ worker = "structure" => transcript[r] # "null"
       /\ worker = "llm" => transcript[r] = "text" /\ llm[r] = NoPlan
       /\ worker \in {"begin", "task", "send", "putKey", "created", "finish"} =>
            Asked(r) /\ plan = PlanOf(r)

\* The worker goes through the plan in order, and nothing is made out of order.
MadeInOrder ==
  /\ \A r \in Posts : ~Asked(r) => created[r] = 0 /\ madeFrom[r] = {}
  /\ \A r \in Posts : created[r] <= Len(PlanOf(r))
  /\ \A r \in Posts : \A i \in Items(PlanOf(r)) : i[1] <= created[r] => made[r][i] > 0
  /\ \A r \in Posts : \A i \in keys[r] : made[r][i] > 0

ItemInHand == \A r \in inHand :
  /\ worker \in {"task", "send", "putKey", "created"} =>
       /\ item \in Items(plan)
       /\ item[1] = created[r] + 1
       /\ \A i \in Items(plan) : i[1] = item[1] /\ i[2] < item[2] => made[r][i] > 0
  /\ worker = "send" => item \notin keys[r]
  /\ worker \in {"putKey", "created"} => made[r][item] > 0
  /\ worker = "finish" => created[r] = Len(plan)

\* Every task that Todoist has made is accounted for: by its key, by an answer
\* that was lost, or by the one that the worker is about to store.
AboutToStore(r, i) == worker = "putKey" /\ r \in inHand /\ i = item

TasksAccounted == \A r \in Posts, i \in AllItems :
  /\ TodoistDedupes => made[r][i] <= 1
  /\ made[r][i] <= lost[r][i] + 1
  /\ ~TodoistDedupes /\ i \notin keys[r] /\ ~AboutToStore(r, i) => made[r][i] <= lost[r][i]

IInv ==
  /\ TypeOK
  /\ UploadRows
  /\ WorkerHoldsOne
  /\ StatusInHand
  /\ InFlightIsInHand
  /\ AudioWhileNeeded
  /\ Asking
  /\ OnePlan
  /\ MadeInOrder
  /\ ItemInHand
  /\ DoneIsComplete
  /\ TasksAccounted

-----------------------------------------------------------------------------
(* Liveness.                                                               *)

\* Every recording ends, done or in error, whatever fails meanwhile.
EveryRecordingEnds ==
  \A r \in Posts : r \in Rows ~> status[r] \in {"done", "error"}

-----------------------------------------------------------------------------
(* What the documents say and the code does not do.                        *)

\* Spec 02: a restart in the middle of a job duplicates no task.
NoTaskTwice == \A r \in Posts, i \in AllItems : made[r][i] <= 1

\* Spec 02 section 10.5: a permanent refusal ends the job in error.
RefusalEnds == \A r \in Posts : status[r] = "creating" ~> status[r] \in {"done", "error"}
=============================================================================
