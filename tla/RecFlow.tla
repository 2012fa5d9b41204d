------------------------------ MODULE RecFlow ------------------------------
(***************************************************************************)
(* A recording from REC pressed to the job in the queue: the button's task *)
(* (main/rec_button.c), the state machine and its bridge on the event loop *)
(* (state_machine.c, app_main.c), the session counters (rec_session.c) and *)
(* the worker (rec_worker.c), over the AudioPath.                          *)
(*                                                                         *)
(* events is the queue of the event loop; one handler is one step.  A      *)
(* STATE_CHANGED event is represented by the state it carries.             *)
(***************************************************************************)
EXTENDS AudioPath, AppStates, FiniteSets

CONSTANTS
  Boots,      \* the events app_main may post at the end of the boot
  WorkCap,    \* WORKER_QUEUE_LEN
  EventCap    \* the room in the event loop's queue

ASSUME RecAssumption ==
  /\ Boots \subseteq {"BOOT_COMPLETE", "REC_PRESS", "PROVISION_REQUEST"}
  /\ {WorkCap, EventCap} \subseteq Nat \ {0}

VARIABLES
  state,        \* s_state
  events,
  prevState,    \* s_prev_state of the bridge
  confirmTimer, \* s_confirm_timer is armed
  stable,       \* the button as its task sees it, debounced
  presses,
  age,          \* the time since s_press_us: none if that is 0, else as its limits divide it
  maxSent,      \* s_max_sent
  session,      \* s_session_id
  cancelled,    \* s_cancelled_id
  workQueue,    \* s_work_queue, commands named for the states that send them
  dropped,      \* a command found it full
  mySession,    \* the session the worker serves
  again,        \* it has begun a recording in the middle of one, or one session a second time
  job,          \* s_cap_job_id and s_cap_wav_path, 0 when empty
  prepared,     \* s_seq: captures prepared so far
  saved,        \* the jobs in the capture queue
  syncing       \* sync_engine_trigger has been called, SYNC_DONE not yet posted

loop == <<state, events, prevState, confirmTimer>>
button == <<stable, presses, age, maxSent, session, cancelled>>
work == <<mySession, again, job, prepared, saved>>
vars == <<audioVars, loop, button, workQueue, dropped, work, syncing>>

Events ==
  {"BOOT_COMPLETE", "REC_PRESS", "PROVISION_REQUEST", "REC_RELEASE", "RECORD_MAX", "REC_DISCARD",
   "FINALIZE_DONE", "CONFIRM_DONE", "SYNC_REQUEST", "SYNC_DONE", "ERROR"}
Commands == {"RECORDING", "FINALIZING", "CONFIRM"}
Jobs == [job : Wavs, wav : Wavs, session : Sessions]

TypeOK ==
  /\ AudioTypeOK
  /\ state \in States /\ prevState \in States
  /\ events \in Seq(Events \cup States)
  /\ confirmTimer \in BOOLEAN /\ stable \in BOOLEAN /\ maxSent \in BOOLEAN
  /\ age \in {"none", "short", "long", "max"}
  /\ presses \in Sessions /\ session \in Sessions /\ cancelled \in Sessions
  /\ workQueue \in Seq(Commands) /\ Len(workQueue) <= WorkCap
  /\ mySession \in Sessions
  /\ dropped \in BOOLEAN /\ again \in BOOLEAN /\ syncing \in BOOLEAN
  /\ job \in Wavs \cup {0} /\ prepared \in Wavs \cup {0}
  /\ saved \subseteq Jobs

\* The button's task reads its pin when it first runs: REC may be down or up by then,
\* whatever caused the boot.
Init ==
  /\ AudioInit
  /\ state = "BOOT" /\ prevState = "BOOT"
  /\ \E boot \in Boots : events = <<boot>>
  /\ stable \in BOOLEAN
  /\ confirmTimer = FALSE /\ syncing = FALSE
  /\ age = "none" /\ maxSent = FALSE
  /\ presses = 0 /\ session = 0 /\ cancelled = 0 /\ mySession = 0 /\ again = FALSE
  /\ workQueue = <<>> /\ dropped = FALSE
  /\ job = 0 /\ prepared = 0
  /\ saved = {}

\* state_machine_post_event
Post(event) == events' = Append(events, event) /\ UNCHANGED <<state, prevState, confirmTimer>>

\* Of a recording that the worker has begun something still runs or is open.
Recording == captureRun \/ capturing \/ writing \/ file # 0

\* rec_session_active
Active(s) == s # 0 /\ s = session /\ s # cancelled

-----------------------------------------------------------------------------
(* The event loop.                                                         *)

\* transition_to, with the timer that on_state_enter starts and on_state_exit stops.
Transition(next) ==
  /\ events # <<>>
  /\ <<state, Head(events), next>> \in Transitions
  /\ state' = next
  /\ confirmTimer' = (next = "CONFIRM")
  /\ events' = Append(Tail(events), next)
  /\ UNCHANGED <<audioVars, prevState, button, workQueue, dropped, work, syncing>>

Ignore ==
  /\ events # <<>>
  /\ Head(events) \notin States
  /\ \A next \in States : <<state, Head(events), next>> \notin Transitions
  /\ events' = Tail(events)
  /\ UNCHANGED <<audioVars, state, prevState, confirmTimer, button, workQueue, dropped, work, syncing>>

\* rec_worker_on_state_changed
Command(s) ==
  IF s \notin Commands THEN UNCHANGED <<workQueue, dropped>>
  ELSE IF Len(workQueue) < WorkCap THEN workQueue' = Append(workQueue, s) /\ UNCHANGED dropped
  ELSE dropped' = TRUE /\ UNCHANGED workQueue

\* A mistake: IDLE starts a sync at once as well.
BridgeTriggersInIdle(s) ==
  /\ events # <<>>
  /\ Head(events) = s
  /\ Command(s)
  /\ syncing' = (syncing \/ s \in {"SYNC", "IDLE"})
  /\ events' = Tail(events) \o
       IF s = "IDLE" /\ prevState \in {"CONFIRM", "BOOT"} THEN <<"SYNC_REQUEST">> ELSE <<>>
  /\ prevState' = s
  /\ UNCHANGED <<audioVars, state, confirmTimer, button, work>>

\* taskhog_state_bridge
Bridge(s) ==
  /\ events # <<>>
  /\ Head(events) = s
  /\ Command(s)
  /\ syncing' = (syncing \/ s = "SYNC")
  /\ events' = Tail(events) \o
       IF s = "IDLE" /\ prevState \in {"CONFIRM", "BOOT"} THEN <<"SYNC_REQUEST">> ELSE <<>>
  /\ prevState' = s
  /\ UNCHANGED <<audioVars, state, confirmTimer, button, work>>

ConfirmTimer ==
  /\ confirmTimer
  /\ confirmTimer' = FALSE
  /\ events' = Append(events, "CONFIRM_DONE")
  /\ UNCHANGED <<audioVars, state, prevState, button, workQueue, dropped, work, syncing>>

\* The sync task has drained the queue.
SyncFinishes ==
  /\ syncing
  /\ syncing' = FALSE
  /\ Post("SYNC_DONE")
  /\ UNCHANGED <<audioVars, button, workQueue, dropped, work>>

-----------------------------------------------------------------------------
(* The button's task, when it is not busy with a tap.                      *)

\* A mistake: the limit of the last recording still counts as announced.
PressStillMax ==
  /\ todo["button"] = <<>>
  /\ ~stable /\ stable' = TRUE
  /\ presses + faults < MaxPresses /\ presses' = presses + 1
  /\ IF state = "IDLE"
     THEN session' = session + 1 /\ age' = "short" /\ Post("REC_PRESS")
     ELSE UNCHANGED <<session, age, loop>>
  /\ UNCHANGED <<audioVars, maxSent, cancelled, workQueue, dropped, work, syncing>>

\* A mistake: REC counts in every state.
PressAnywhere ==
  /\ todo["button"] = <<>>
  /\ ~stable /\ stable' = TRUE
  /\ presses + faults < MaxPresses /\ presses' = presses + 1
  /\ session' = session + 1
  /\ age' = "short"
  /\ maxSent' = FALSE
  /\ Post("REC_PRESS")
  /\ UNCHANGED <<audioVars, cancelled, workQueue, dropped, work, syncing>>

Press ==
  /\ todo["button"] = <<>>
  /\ ~stable /\ stable' = TRUE
  /\ presses + faults < MaxPresses /\ presses' = presses + 1
  /\ IF state = "IDLE"
     THEN /\ session' = session + 1
          /\ age' = "short"
          /\ maxSent' = FALSE
          /\ Post("REC_PRESS")
     ELSE UNCHANGED <<session, age, maxSent, loop>>
  /\ UNCHANGED <<audioVars, cancelled, workQueue, dropped, work, syncing>>

Release ==
  /\ todo["button"] = <<>>
  /\ stable /\ stable' = FALSE
  /\ \/ state = "RECORDING" /\ age # "short" /\ Post("REC_RELEASE")
     \/ state # "RECORDING" /\ UNCHANGED loop
  /\ UNCHANGED <<audioVars, presses, age, maxSent, session, cancelled, workQueue, dropped, work, syncing>>

\* A mistake: the worker is not told.
TapUncancelled ==
  /\ todo["button"] = <<>>
  /\ state = "RECORDING" /\ age = "short"
  /\ stable /\ stable' = FALSE
  /\ Go("button", <<"stop", "abort", "discard">>)
  /\ UNCHANGED <<capture, ring, captured, writer, faults, loop, presses, age, maxSent, session,
                 cancelled, workQueue, dropped, work, syncing>>

\* A mistake: the state machine is not told.
TapUnannounced ==
  /\ todo["button"] = <<>>
  /\ state = "RECORDING" /\ age = "short"
  /\ stable /\ stable' = FALSE
  /\ cancelled' = session
  /\ Go("button", <<"stop", "abort">>)
  /\ UNCHANGED <<capture, ring, captured, writer, faults, loop, presses, age, maxSent, session,
                 workQueue, dropped, work, syncing>>

\* Released within half a second of the press.
Tap ==
  /\ todo["button"] = <<>>
  /\ state = "RECORDING" /\ age = "short"
  /\ stable /\ stable' = FALSE
  /\ cancelled' = session
  /\ Go("button", <<"stop", "abort", "discard">>)
  /\ UNCHANGED <<capture, ring, captured, writer, faults, loop, presses, age, maxSent, session,
                 workQueue, dropped, work, syncing>>

Discard ==
  /\ At("button", "discard")
  /\ Return("button")
  /\ Post("REC_DISCARD")
  /\ UNCHANGED <<capture, ring, captured, writer, faults, button, workQueue, dropped, work, syncing>>

TimePasses ==
  /\ \/ age = "short" /\ age' = "long"
     \/ age = "long" /\ age' = "max"
  /\ UNCHANGED <<audioVars, loop, stable, presses, maxSent, session, cancelled, workQueue, dropped,
                 work, syncing>>

\* A mistake: the limit is announced at every poll.
RecordMaxEveryPoll ==
  /\ todo["button"] = <<>>
  /\ state = "RECORDING" /\ age = "max"
  /\ Post("RECORD_MAX")
  /\ UNCHANGED <<audioVars, button, workQueue, dropped, work, syncing>>

RecordMax ==
  /\ todo["button"] = <<>>
  /\ state = "RECORDING" /\ age = "max" /\ ~maxSent
  /\ maxSent' = TRUE
  /\ Post("RECORD_MAX")
  /\ UNCHANGED <<audioVars, stable, presses, age, session, cancelled, workQueue, dropped, work, syncing>>

-----------------------------------------------------------------------------
(* The worker.                                                             *)

\* handle_recording, handle_finalizing and handle_confirm, which only beeps.
Handler(command) ==
  CASE command = "RECORDING" ->
         <<"prepare", "check", "open", "checkOpen", "capture", "checkCapture">>
    [] command = "FINALIZING" -> <<"stop", "finalize", "enqueue">>
    [] OTHER -> <<>>

WorkerTakes ==
  /\ todo["worker"] = <<>>
  /\ workQueue # <<>>
  /\ workQueue' = Tail(workQueue)
  /\ Go("worker", Handler(Head(workQueue)))
  /\ UNCHANGED <<capture, ring, captured, writer, faults, loop, button, dropped, work, syncing>>

\* The worker posts ERROR and gives up the command.
Failed ==
  /\ At("worker", "error")
  /\ Return("worker")
  /\ Post("ERROR")
  /\ UNCHANGED <<capture, ring, captured, writer, faults, button, workQueue, dropped, work, syncing>>

\* A mistake: the number of the capture is not advanced.
PrepareSame ==
  /\ At("worker", "prepare")
  /\ mySession' = session
  /\ again' = (again \/ (Active(session) /\ (Recording \/ session = mySession)))
  /\ \/ NoFault /\ ~Active(session) /\ Go("worker", <<>>) /\ job' = 0
     \/ NoFault /\ Active(session) /\ Return("worker") /\ job' = prepared + 1
  /\ UNCHANGED <<capture, ring, captured, writer, loop, button, prepared, workQueue, dropped, saved, syncing>>

\* The card is looked at before the session.
Prepare ==
  /\ At("worker", "prepare")
  /\ mySession' = session
  /\ again' = (again \/ (Active(session) /\ (Recording \/ session = mySession)))
  /\ \/ Fault /\ Go("worker", <<"error">>) /\ job' = 0 /\ UNCHANGED prepared
     \/ NoFault /\ ~Active(session) /\ Go("worker", <<>>) /\ job' = 0 /\ UNCHANGED prepared
     \/ NoFault /\ Active(session) /\ Return("worker") /\ prepared' = prepared + 1 /\ job' = prepared'
  /\ UNCHANGED <<capture, ring, captured, writer, loop, button, workQueue, dropped, saved, syncing>>

\* A look at the session after each slow call, and what undoes that call.
Check(call, undo) ==
  /\ At("worker", call)
  /\ IF Active(mySession) THEN Return("worker") ELSE Go("worker", undo)
  /\ UNCHANGED <<capture, ring, captured, writer, faults, loop, button, workQueue, dropped, work,
                 syncing>>

Enqueue ==
  /\ At("worker", "enqueue")
  /\ \/ /\ job # 0 /\ path # 0
        /\ NoFault
        /\ saved' = saved \cup {[job |-> job, wav |-> path, session |-> mySession]}
        /\ job' = 0
        /\ Post("FINALIZE_DONE")
     \/ /\ job # 0 /\ path # 0
        /\ Fault
        /\ UNCHANGED <<saved, job>>
        /\ Post("ERROR")
     \/ /\ job = 0 \/ path = 0
        /\ NoFault
        /\ job' = 0
        /\ UNCHANGED saved
        /\ Post("FINALIZE_DONE")
  /\ Return("worker")
  /\ UNCHANGED <<capture, ring, captured, writer, button, workQueue, dropped, mySession, again,
                 prepared, syncing>>

\* A failure uses up one of the presses; this only bounds the model.
Bounded == presses' + faults' <= MaxPresses

GiveUp == <<"abort", "error">>

\* The calls of AudioPath.
WorkerCalls ==
  /\ \/ CaptureStart("worker", GiveUp)
     \/ CaptureRun("worker")
     \/ OpenWav("worker", job, <<"error">>)
     \/ SpawnWriter("worker")
     \/ Finalize("worker", GiveUp)
     \/ Finalized("worker", GiveUp)
     \/ CaptureStop("worker") \/ CaptureStopped("worker") \/ Abort("worker") \/ Aborted("worker")
  /\ UNCHANGED <<loop, button, workQueue, dropped, work, syncing>>

ButtonCalls ==
  /\ CaptureStop("button") \/ CaptureStopped("button") \/ Abort("button") \/ Aborted("button")
  /\ UNCHANGED <<loop, button, workQueue, dropped, work, syncing>>
  /\ Bounded

AudioTask ==
  /\ AudioReads(mySession) \/ AudioEnds(mySession)
  /\ UNCHANGED <<loop, button, workQueue, dropped, work, syncing>>

WriterTask ==
  /\ WriterWrites \/ WriterFinishes \/ WriterFails
  /\ UNCHANGED <<loop, button, workQueue, dropped, work, syncing>>
  /\ Bounded

-----------------------------------------------------------------------------

EventLoop ==
  \/ \E s \in States : Transition(s) \/ Bridge(s)
  \/ Ignore

Worker ==
  /\ \/ WorkerTakes \/ Prepare \/ Enqueue \/ Failed
     \/ Check("check", <<>>)
     \/ Check("checkOpen", <<"abort", "stop">>)
     \/ Check("checkCapture", <<"stop", "abort">>)
     \/ WorkerCalls
  /\ Bounded

ButtonTask == ButtonCalls \/ Discard \/ RecordMax

Next ==
  \/ EventLoop \/ ConfirmTimer \/ SyncFinishes
  \/ Press \/ Release \/ Tap \/ TimePasses
  \/ ButtonTask \/ Worker \/ AudioTask \/ WriterTask

Spec == Init /\ [][Next]_vars

\* Every task runs when it can, and time passes.  Nobody has to touch the button.
FairSpec ==
  /\ Spec
  /\ WF_vars(EventLoop) /\ WF_vars(ConfirmTimer) /\ WF_vars(SyncFinishes)
  /\ WF_vars(ButtonTask) /\ WF_vars(Worker) /\ WF_vars(AudioTask) /\ WF_vars(WriterTask)
  /\ WF_vars(TimePasses)

-----------------------------------------------------------------------------
(* Safety.                                                                 *)

\* Nothing is under way.
Quiet == events = <<>> /\ workQueue = <<>> /\ \A t \in Tasks : todo[t] = <<>>

Heard == captureRun /\ capturing /\ codec /\ writing

\* No event or command is left that could repair a RECORDING that does not
\* record: once a press has settled, the microphone runs and a WAV is open.
\* The worker's silent returns (rec_worker.c:72-91) must all be for a tap.
PressIsHeard ==
  Quiet /\ state = "RECORDING" /\ session # 0 /\ faults = 0 /\ ~dropped => Heard

\* Outside RECORDING the microphone is off, in whatever order the tap of the
\* button and the worker that is still starting call stop and abort
\* (rec_button.c:61-68, rec_worker.c:98-115); and the sync task and tk_audio
\* never run together (spec 01 section 6), though no code compares the two:
\* only the order of the events keeps them apart.  It does so as long as no
\* WORK_RECORDING is stale: one that a tap has left in the worker's queue
\* serves a later press while the recording before it is open, fails there,
\* and its ERROR lets the application run ahead of the worker.  Several of them
\* let it run so far ahead that one serves a press whose REC_PRESS SYNC has
\* ignored, and then nothing stops the microphone; so a press that has been
\* taken back is the last one, or the run is regular.
GoldenRule ==
  /\ faults = 0 /\ ~again => ~(syncing /\ capturing)
  /\ Quiet /\ state # "RECORDING" /\ ~dropped
     /\ (cancelled \in {0, session} \/ (faults = 0 /\ ~again)) =>
       /\ ~captureRun /\ ~capturing /\ ~codec
       /\ faults = 0 => ~writing /\ file = 0

VoiceOf(j) == {wav[j.wav][i] : i \in DOMAIN wav[j.wav]}

\* How much of a sequence is x.
Count(s, x) == Cardinality({i \in DOMAIN s : s[i] = x})

\* What is said in one saved recording is heard in no other (the ring and the
\* WAV's path are shared by all of them), and every chunk that tk_audio has put
\* into the ring for it is in its WAV: stopping loses no tail (audio_capture_stop
\* before the finalize, rec_worker.c:120-122, and the drain of tk_writer,
\* wav_writer.c:83).  A write that fails then ends the writer, and the recording
\* is saved without its tail, which the next one begins with.
SavedIsWhole ==
  faults = 0 /\ ~again =>
    \A j \in saved :
      /\ \A k \in saved : k.session \in VoiceOf(j) => k.session = j.session
      /\ Count(wav[j.wav], j.session) = captured[j.session]

\* A session gives at most one job, and no two jobs share a name or a WAV
\* (rec_worker.c:35-36 keeps one pair of names for all commands); a press that
\* rec_session_cancel has taken back gives none.  A WORK_RECORDING that a tap
\* has left behind and that serves a later press breaks this
\* (rec_worker.c:63-115).
SavedOnce ==
  faults = 0 /\ ~again =>
    /\ \A j, k \in saved :
         j.wav = k.wav \/ j.job = k.job \/ j.session = k.session => j = k
    /\ \A j \in saved : j.session # cancelled

\* "Saved" is shown only for a recording that is in the queue, and it is the
\* last one pressed (FINALIZE_DONE, rec_worker.c:133-157).
ConfirmMeansSaved ==
  state = "CONFIRM" /\ faults = 0 /\ ~again => \E j \in saved : j.session = session

\* No event of something earlier ends a state.  ERROR ends a recording only
\* after a failure of the card or codec, or a stale WORK_RECORDING;
\* SYNC is left when the sync task has finished and for the SYNC_DONE of this
\* sync, not for an ERROR of the worker or the SYNC_DONE of an earlier one
\* (state_machine.c:156, 167-172).  SyncEngine relies on this.
NothingStaleEnds ==
  [][/\ state = "RECORDING" /\ state' = "FINALIZING" /\ Head(events) = "ERROR"
          => faults > 0 \/ again \/ session = 0
     /\ state = "SYNC" /\ state' # "SYNC" /\ faults = 0 /\ ~again
          => Head(events) = "SYNC_DONE" /\ ~syncing /\ prevState = "SYNC"]_vars

\* The handlers post to the queue of their own loop and wait for room without
\* limit (state_machine.c:109, app_main.c:114), so it must never be full.
LoopHasRoom == Len(events) <= EventCap

-----------------------------------------------------------------------------
(* Liveness.                                                               *)

\* A press always leads back to IDLE, by itself if REC is never released (the
\* limit of 120 s), unless the worker's queue has refused a command.
Home == session # 0 /\ state # "IDLE" ~> state = "IDLE" \/ dropped

-----------------------------------------------------------------------------
(* What the documents say and the code does not do.                        *)

\* Spec 01 section 5: REC wakes the device straight into a recording.
RecordingIsHeard == Quiet /\ state = "RECORDING" => Heard

\* Spec 01 section 8.3: a tap is discarded, so a saved WAV holds nothing said
\* under another press.
SavedIsOwn == \A j \in saved : VoiceOf(j) \subseteq {j.session}

\* Spec 01 section 6, the golden rule: recording and sync never at once.
NeverTogether == faults = 0 => ~(syncing /\ capturing)
=============================================================================
