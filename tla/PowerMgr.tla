------------------------------ MODULE PowerMgr ------------------------------
(***************************************************************************)
(* Deep sleep and waking up (power/power_mgr.c, board/board_power.c,       *)
(* main/app_main.c, storage/sdcard.c): the boot and what it does for each  *)
(* cause of the wake-up, the timer that puts an idle device to sleep, and  *)
(* the steps that sleep takes while the other tasks still run.             *)
(*                                                                         *)
(* events is the queue of the event loop, as in RecFlow; the recording     *)
(* and the sync are as short as their events allow.                        *)
(***************************************************************************)
EXTENDS Clock, AppStates

CONSTANTS
  MaxBoots,     \* wake-ups, resets and times the power comes back
  MaxPresses

ASSUME PowerAssumption == MaxBoots \in Nat /\ MaxPresses \in Nat

VARIABLES
  phase,        \* off, init, decide, run, asleep
  wake,         \* s_wake
  usb, held,    \* the cable, and REC
  card,         \* one is in the slot
  mounted,      \* s_mounted
  rails,        \* of EPD and audio, those switched on
  latch,        \* GPIO17 is held high through a deep sleep
  state,        \* s_state
  events,
  prevState,    \* s_prev_state of the bridge
  confirmTimer,
  idleTimer,    \* s_idle_sleep_timer: stopped, armed, or due at any moment
  going,        \* the steps to sleep that are left to power_mgr_enter_deep_sleep
  work,         \* s_work_queue
  syncing,      \* sync_engine_trigger has been called, SYNC_DONE not yet posted
  pending,      \* there are jobs to upload or to poll for
  postponed,    \* the last look at the cable has put sleep off
  boots, presses, powered

hardware == <<usb, held, card, latch>>
loop == <<state, events, prevState, confirmTimer>>
tasks == <<work, syncing, pending>>
counts == <<boots, presses, powered>>
vars == <<clockVars, phase, wake, hardware, mounted, rails, loop, idleTimer, going, tasks,
          postponed, counts>>

Causes == {"cold", "usb", "rec_ext0", "rtc_int", "timer", "other"}
Steps == <<"drop", "unmount", "rails", "latch", "start">>
Remaining == {SubSeq(Steps, i, 5) : i \in 1..6}
Events ==
  {"BOOT_COMPLETE", "REC_PRESS", "PROVISION_REQUEST", "REC_RELEASE", "FINALIZE_DONE", "CONFIRM_DONE",
   "SYNC_REQUEST", "SYNC_DONE", "ERROR"}

TypeOK ==
  /\ ClockTypeOK
  /\ phase \in {"off", "init", "decide", "run", "asleep"}
  /\ wake \in Causes
  /\ usb \in BOOLEAN /\ held \in BOOLEAN /\ card \in BOOLEAN /\ mounted \in BOOLEAN
  /\ latch \in BOOLEAN /\ confirmTimer \in BOOLEAN /\ syncing \in BOOLEAN
  /\ pending \in BOOLEAN /\ postponed \in BOOLEAN
  /\ idleTimer \in {"stopped", "armed", "due"}
  /\ rails \subseteq {"epd", "audio"}
  /\ state \in States /\ prevState \in States
  /\ events \in Seq(Events \cup States)
  /\ going \in Remaining
  /\ work \in Seq({"RECORDING", "FINALIZING"})
  /\ boots \in 0..MaxBoots /\ presses \in 0..MaxPresses /\ powered \in Nat

\* What a reset leaves: RAM is as the program is loaded.
Loaded ==
  /\ mounted' = FALSE
  /\ state' = "BOOT" /\ prevState' = "BOOT" /\ events' = <<>> /\ confirmTimer' = FALSE
  /\ idleTimer' = "stopped" /\ going' = <<>>
  /\ work' = <<>> /\ syncing' = FALSE /\ postponed' = FALSE

Init ==
  /\ ClockInit
  /\ phase = "off" /\ wake = "cold"
  /\ usb \in BOOLEAN /\ held = FALSE /\ card \in BOOLEAN
  /\ mounted = FALSE /\ rails = {} /\ latch = FALSE
  /\ state = "BOOT" /\ prevState = "BOOT" /\ events = <<>> /\ confirmTimer = FALSE
  /\ idleTimer = "stopped" /\ going = <<>>
  /\ work = <<>> /\ syncing = FALSE /\ pending \in BOOLEAN /\ postponed = FALSE
  /\ boots = 0 /\ presses = 0 /\ powered = 1

Post(event) == events' = Append(events, event) /\ UNCHANGED <<state, prevState, confirmTimer>>

-----------------------------------------------------------------------------
(* Boot.                                                                   *)

\* map_wake_cause
MapWake(raw) ==
  CASE raw = "ext0" -> "rec_ext0"
    [] raw = "ext1" -> "rtc_int"
    [] raw = "timer" -> "timer"
    [] raw = "undefined" -> IF usb THEN "usb" ELSE "cold"
    [] OTHER -> "other"

\* board_power_init, state_machine_init and power_mgr_init.
Start(raw) ==
  /\ boots < MaxBoots /\ boots' = boots + 1
  /\ phase' = "init" /\ wake' = MapWake(raw)
  /\ rails' = {} /\ latch' = FALSE
  /\ Loaded
  /\ UNCHANGED <<usb, held, card, pending, presses, powered>>

\* The system clock keeps the time through everything else.
PowerOn ==
  /\ phase = "off" /\ Start("undefined")
  /\ sys' = Epoch
  /\ UNCHANGED <<now, chip, stopped, rtcValid, captures>>

\* What power_mgr_configure_wake_sources has enabled; at this commit nothing
\* sets the alarm that would pull RTC_INT down.  Without the latch GPIO17
\* falls, and with it the supply of the board.
WakeUp ==
  /\ phase = "asleep" /\ latch
  /\ \/ held /\ Start("ext0")
     \/ Start("timer")
  /\ UNCHANGED clockVars

\* A panic or the watchdog; ESP_ERROR_CHECK after a failed init.
Reset == phase \in {"init", "decide", "run"} /\ Start("undefined") /\ UNCHANGED clockVars

\* init_all_stubs, with the e-paper's rail and the codec's, then the time.
InitDone ==
  /\ phase = "init" /\ card
  /\ phase' = "decide"
  /\ mounted' = TRUE /\ rails' = {"epd", "audio"}
  /\ ClockBoots
  /\ UNCHANGED <<wake, hardware, loop, idleTimer, going, tasks, postponed, counts>>

\* sdcard_init fails, and app_main does not go on without it.
InitFails == phase = "init" /\ ~card /\ Start("undefined") /\ UNCHANGED clockVars

\* A mistake: a wake-up by the timer is only for uploads that are due.
BootActionNeverSyncs ==
  CASE wake \in {"cold", "usb"} -> IF held THEN "PROVISION_REQUEST" ELSE "BOOT_COMPLETE"
    [] wake = "rec_ext0" -> IF held THEN "REC_PRESS" ELSE "BOOT_COMPLETE"
    [] wake \in {"rtc_int", "timer"} -> "sleep"
    [] OTHER -> "BOOT_COMPLETE"

\* power_mgr_boot_action, named for what app_main then posts.
BootAction ==
  CASE wake \in {"cold", "usb"} -> IF held THEN "PROVISION_REQUEST" ELSE "BOOT_COMPLETE"
    [] wake = "rec_ext0" -> IF held THEN "REC_PRESS" ELSE "BOOT_COMPLETE"
    [] wake \in {"rtc_int", "timer"} -> IF pending THEN "BOOT_COMPLETE" ELSE "sleep"
    [] OTHER -> "BOOT_COMPLETE"

Decide ==
  /\ phase = "decide" /\ going = <<>>
  /\ IF BootAction = "sleep"
     THEN going' = Steps /\ UNCHANGED <<phase, loop>>
     ELSE phase' = "run" /\ Post(BootAction) /\ UNCHANGED going
  /\ UNCHANGED <<clockVars, wake, hardware, mounted, rails, idleTimer, tasks, postponed, counts>>

-----------------------------------------------------------------------------
(* The event loop.                                                         *)

Transition(next) ==
  /\ phase = "run" /\ events # <<>>
  /\ <<state, Head(events), next>> \in Transitions
  /\ state' = next
  /\ confirmTimer' = (next = "CONFIRM")
  /\ events' = Append(Tail(events), next)
  /\ UNCHANGED <<clockVars, phase, wake, hardware, mounted, rails, prevState, idleTimer, going,
                 tasks, postponed, counts>>

Ignore ==
  /\ phase = "run" /\ events # <<>>
  /\ Head(events) \notin States
  /\ \A next \in States : <<state, Head(events), next>> \notin Transitions
  /\ events' = Tail(events)
  /\ UNCHANGED <<clockVars, phase, wake, hardware, mounted, rails, state, prevState, confirmTimer,
                 idleTimer, going, tasks, postponed, counts>>

\* A mistake: the timer is not stopped again.
IdleSleepUncancelled(s) ==
  IF s # "IDLE" THEN UNCHANGED <<idleTimer, postponed>>
  ELSE idleTimer' = (IF usb THEN idleTimer ELSE "armed") /\ postponed' = usb

\* A mistake: a sync does not count as idleness.
IdleSleepNotAfterSync(s) ==
  IF s # "IDLE" \/ prevState = "SYNC" THEN idleTimer' = "stopped" /\ UNCHANGED postponed
  ELSE idleTimer' = (IF usb THEN idleTimer ELSE "armed") /\ postponed' = usb

\* power_mgr_arm_idle_sleep, which does nothing while the cable is in, and
\* power_mgr_cancel_idle_sleep.
IdleSleep(s) ==
  IF s # "IDLE" THEN idleTimer' = "stopped" /\ UNCHANGED postponed
  ELSE idleTimer' = (IF usb THEN idleTimer ELSE "armed") /\ postponed' = usb

\* A mistake: the boot does not look for work.
FollowConfirm(s) == IF s = "IDLE" /\ prevState = "CONFIRM" THEN <<"SYNC_REQUEST">> ELSE <<>>

Follow(s) ==
  IF s = "IDLE" /\ prevState \in {"CONFIRM", "BOOT"} THEN <<"SYNC_REQUEST">> ELSE <<>>

\* taskhog_state_bridge.  No event leads to SAFE_OFF.
Bridge(s) ==
  /\ phase = "run" /\ events # <<>> /\ Head(events) = s
  /\ work' = IF s \in {"RECORDING", "FINALIZING"} THEN Append(work, s) ELSE work
  /\ IdleSleep(s)
  /\ syncing' = (syncing \/ s = "SYNC")
  /\ events' = Tail(events) \o Follow(s)
  /\ prevState' = s
  /\ UNCHANGED <<clockVars, phase, wake, hardware, mounted, rails, state, confirmTimer, going,
                 pending, counts>>

ConfirmTimer ==
  /\ phase = "run" /\ confirmTimer
  /\ confirmTimer' = FALSE /\ events' = Append(events, "CONFIRM_DONE")
  /\ UNCHANGED <<clockVars, phase, wake, hardware, mounted, rails, state, prevState, idleTimer,
                 going, tasks, postponed, counts>>

-----------------------------------------------------------------------------
(* The other tasks.                                                        *)

\* on_rec_press; a press in another state than IDLE has no effect here.
Press ==
  /\ ~held /\ presses < MaxPresses
  /\ held' = TRUE /\ presses' = presses + 1
  /\ IF phase = "run" /\ state = "IDLE" THEN Post("REC_PRESS") ELSE UNCHANGED loop
  /\ UNCHANGED <<clockVars, phase, wake, usb, card, latch, mounted, rails, idleTimer, going, tasks,
                 postponed, boots, powered>>

\* on_rec_release after half a second; a tap is a matter of RecFlow.  A press
\* wakes a sleeping device before it can end.
Release ==
  /\ held /\ held' = FALSE
  /\ ~(phase = "asleep" /\ latch)
  /\ IF phase = "run" /\ state = "RECORDING" THEN Post("REC_RELEASE") ELSE UNCHANGED loop
  /\ UNCHANGED <<clockVars, phase, wake, usb, card, latch, mounted, rails, idleTimer, going, tasks,
                 postponed, counts>>

\* The worker, as far as the number of the capture.
Record ==
  /\ phase = "run" /\ work # <<>> /\ Head(work) = "RECORDING"
  /\ work' = Tail(work)
  /\ \/ ~mounted /\ Post("ERROR") /\ UNCHANGED clockVars
     \/ mounted /\ DrawId(powered) /\ UNCHANGED loop
  /\ UNCHANGED <<phase, wake, hardware, mounted, rails, idleTimer, going, syncing, pending, postponed,
                 counts>>

Finalize ==
  /\ phase = "run" /\ work # <<>> /\ Head(work) = "FINALIZING"
  /\ work' = Tail(work)
  /\ \/ ~mounted /\ Post("ERROR") /\ UNCHANGED pending
     \/ mounted /\ Post("FINALIZE_DONE") /\ pending' = TRUE
  /\ UNCHANGED <<clockVars, phase, wake, hardware, mounted, rails, idleTimer, going, syncing,
                 postponed, counts>>

\* The sync task, whatever became of the jobs.
SyncFinishes ==
  /\ phase = "run" /\ syncing
  /\ syncing' = FALSE /\ Post("SYNC_DONE")
  /\ pending' \in {pending, FALSE}
  /\ UNCHANGED <<clockVars, phase, wake, hardware, mounted, rails, idleTimer, going, work, postponed,
                 counts>>

\* The seconds of the timer pass.  The event loop has then handled what was in
\* its queue when the timer was armed; what comes now races the timer.
IdleTimePasses ==
  /\ phase = "run" /\ idleTimer = "armed" /\ events = <<>>
  /\ idleTimer' = "due"
  /\ UNCHANGED <<clockVars, phase, wake, hardware, mounted, rails, loop, going, tasks, postponed,
                 counts>>

\* A mistake: the steps begin again.
IdleTimerFiresAgain ==
  /\ phase = "run" /\ idleTimer = "due"
  /\ idleTimer' = "stopped"
  /\ IF usb THEN postponed' = TRUE /\ UNCHANGED going
     ELSE going' = going \o Steps /\ UNCHANGED postponed
  /\ UNCHANGED <<clockVars, phase, wake, hardware, mounted, rails, loop, tasks, counts>>

\* idle_sleep_timer_cb and power_mgr_request_sleep
IdleTimerFires ==
  /\ phase = "run" /\ idleTimer = "due" /\ going = <<>>
  /\ idleTimer' = "stopped"
  /\ IF usb THEN postponed' = TRUE /\ UNCHANGED going
     ELSE going' = Steps /\ UNCHANGED postponed
  /\ UNCHANGED <<clockVars, phase, wake, hardware, mounted, rails, loop, tasks, counts>>

-----------------------------------------------------------------------------
(* power_mgr_enter_deep_sleep, in the timer's task or in app_main.         *)

\* A mistake: the supply is not latched, as it was before decision 004.
GoUnlatched(step) ==
  /\ going # <<>> /\ Head(going) = step
  /\ going' = Tail(going)
  /\ mounted' = (mounted /\ step # "unmount")
  /\ rails' = IF step = "rails" THEN {} ELSE rails
  /\ phase' = IF step = "start" THEN "asleep" ELSE phase
  /\ UNCHANGED <<clockVars, wake, hardware, loop, idleTimer, tasks, postponed, counts>>

\* A mistake: the card stays mounted.
GoMounted(step) ==
  /\ going # <<>> /\ Head(going) = step
  /\ going' = Tail(going)
  /\ rails' = IF step = "rails" THEN {} ELSE rails
  /\ latch' = (latch \/ step = "latch")
  /\ phase' = IF step = "start" THEN "asleep" ELSE phase
  /\ UNCHANGED <<clockVars, wake, usb, held, card, mounted, loop, idleTimer, tasks, postponed, counts>>

\* Wi-Fi is dropped; the journal is flushed and the card unmounted; EPD and
\* audio are switched off; GPIO17 is latched; the wake-up sources are set and
\* the CPU stops.
Go(step) ==
  /\ going # <<>> /\ Head(going) = step
  /\ going' = Tail(going)
  /\ mounted' = (mounted /\ step # "unmount")
  /\ rails' = IF step = "rails" THEN {} ELSE rails
  /\ latch' = (latch \/ step = "latch")
  /\ phase' = IF step = "start" THEN "asleep" ELSE phase
  /\ UNCHANGED <<clockVars, wake, usb, held, card, loop, idleTimer, tasks, postponed, counts>>

-----------------------------------------------------------------------------
(* The surroundings.                                                       *)

Plug ==
  /\ usb' = ~usb
  /\ UNCHANGED <<clockVars, phase, wake, held, card, latch, mounted, rails, loop, idleTimer, going,
                 tasks, postponed, counts>>

\* PWR, or the battery taken out, which stops the clock as well.
PowerFails ==
  /\ phase # "off" /\ boots < MaxBoots
  /\ phase' = "off" /\ powered' = powered + 1
  /\ ClockLosesPower \/ UNCHANGED clockVars
  /\ latch' = FALSE /\ rails' = {}
  /\ Loaded
  /\ UNCHANGED <<wake, usb, held, card, pending, boots, presses>>

\* Three hours: none of the tasks is under way for that long.
TimePasses ==
  /\ phase \in {"off", "asleep"} \/ (phase = "run" /\ state \in {"IDLE", "PROVISION"} /\ events = <<>>)
  /\ going = <<>> /\ Tick
  /\ UNCHANGED <<phase, wake, hardware, mounted, rails, loop, idleTimer, going, tasks, postponed, counts>>

Boot == PowerOn \/ WakeUp \/ InitDone \/ InitFails \/ Decide
EventLoop == (\E s \in States : Transition(s) \/ Bridge(s)) \/ Ignore
Worker == Record \/ Finalize
Timers == ConfirmTimer \/ IdleTimePasses \/ IdleTimerFires \/ \E i \in 1..5 : Go(Steps[i])
Surroundings == Reset \/ Press \/ Release \/ Plug \/ PowerFails \/ TimePasses

Next == Boot \/ EventLoop \/ Worker \/ SyncFinishes \/ Timers \/ Surroundings

Spec == Init /\ [][Next]_vars

\* The boot and each task go on when they can, and one task runs the timers;
\* a sleeping device is woken by its timer at the latest.
FairSpec ==
  /\ Spec
  /\ WF_vars(Boot) /\ WF_vars(EventLoop) /\ WF_vars(Worker) /\ WF_vars(SyncFinishes)
  /\ WF_vars(Timers)

-----------------------------------------------------------------------------
(* Safety.                                                                 *)

\* A sleeping device can be woken by REC, since its supply is latched
\* (decision 004), and has neither a mounted card nor a display under power
\* (PRD section 5.5), whatever the tasks did while it went to sleep.
AsleepIsSafe == phase = "asleep" => latch /\ ~mounted /\ "epd" \notin rails

\* The idle timer does not look at the state: it is stopped by the bridge
\* (app_main.c:102), which hears of a state later than the state machine.  Sleep
\* begins with a recording or a sync under way only in that interval.
SleepCutsOnlyTheUnheard ==
  [][phase = "run" /\ going = <<>> /\ going' # <<>> =>
       state = "IDLE" \/ \E i \in DOMAIN events : events[i] = state]_vars

\* The client_job_id is the key of the upload's idempotency, so the Hub takes
\* two captures of one id for one.  Two share it only if the clock was not
\* valid for either and the power went off between them (queue.c:165).
IdsApart ==
  \A c, d \in captures :
    c # d /\ c.id = d.id => ~c.valid /\ ~d.valid /\ c.boot # d.boot

\* rtc_valid tells the Hub to believe the time.  It is then not in the future,
\* and not older than the firmware, less the two hours of rtc_refresh_if_stale
\* (pcf85063.c:196).
ValidIsPlausible ==
  \A c \in captures : c.valid =>
    c.id.at \in (TimeOf[BuildTime] - 2 * Hour)..TimeOf[c.real]

-----------------------------------------------------------------------------
(* Liveness.                                                               *)

\* PRD RF-20: without the cable an idle device goes to sleep - unless the
\* cable was in when the timer was to be armed or fired (power_mgr.c:182-217),
\* after which nothing arms it again in IDLE.
IdleSleeps ==
  phase = "run" /\ state = "IDLE" /\ ~usb
    ~> phase # "run" \/ state # "IDLE" \/ usb \/ postponed

\* A device that its timer wakes with jobs in the queue comes to a sync, or to
\* the recording that was asked for first (spec 01 section 5, step 5).
NapFindsWork ==
  phase = "decide" /\ wake = "timer" /\ pending
    ~> syncing \/ state = "RECORDING" \/ phase \in {"init", "off"}
=============================================================================
