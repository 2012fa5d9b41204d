# TLA+ models of Taskhog

Taskhog turns a spoken note into tasks in Todoist. A push-to-talk device (ESP32-S3,
`taskhog-fw/`, C and FreeRTOS) records a WAV on its microSD card and queues it. When it can
it uploads the queue to a home server, the Hub (`taskhog-hub/`, Python, FastAPI, SQLite),
which transcribes the audio, lets an LLM turn the text into a plan of tasks and subtasks, and
creates them in Todoist. Both sides may stop at any moment, and the network and every service
behind the Hub may fail. What makes the system correct is that a capture is neither lost nor
done twice in spite of that. These modules say so precisely, TLC checks it on small instances,
and TLAPS proves the safety part of both sides for every value of the constants.

## Inventory

| Part | State | Operations | What is hard |
|---|---|---|---|
| Capture queue (`storage/queue.c`) | `qNNNN.wav`/`.job` files in `/queue` and `/sent`; in RAM `s_seq`, `s_pending_hint`, `s_ram` | prepare, enqueue, mark, mark_uploaded, complete, recover, init, listings of 16 ids | power loss inside a write; RAM and card drifting apart; numbers used again; a full snapshot |
| Journal (`storage/journal.c`) | `QUEUE.JNL`, written, never read | recovery of interrupted jobs at boot | it recovers only what it can read |
| Sync engine (`net/sync_engine.c`) | backoff slots, a notification, locals of the drain | trigger, drain, poll, sleep | lost answers, retries and their limit, when a drain ends, resets in any step |
| HTTP client (`net/http_uploader.c`) | none | health, upload, poll | an answer lost after the Hub has acted |
| Wi-Fi station (`net/wifi_sta.c`, `wifi_profiles.c`) | event bits, `s_connected`, `s_retry`, the icon | load profiles, scan, connect, drop; the driver's events | stale bits, a handler that reconnects by itself, a time-out with retries under way |
| State machine and bridge (`main/state_machine.c`, `app_main.c`) | `s_state`, `s_prev_state`, the event loop's queue | events, STATE_CHANGED | events that arrive in a state that ignores them |
| Recording flow (`main/rec_button.c`, `rec_worker.c`, `rec_session.c`) | session counters, the worker's queue of 4 | press, release, start, finalize, discard | three tasks racing over one recording |
| Audio ring and WAV writer (`audio/`) | ring indices, the open file, run flags | I2S task writes, writer task reads, finalize, abort | overruns; two stops at once; time-outs of the semaphores |
| Power manager (`power/power_mgr.c`, `board/board_power.c`) | wake-up cause, idle timer, supply latch | arm, cancel, sleep, boot action | the timer against REC, sleep under running tasks |
| Clock (`rtc/pcf85063.c`, the ids of `queue.c`) | the chip, its bit OS, the system clock | set, get, refresh if stale | a chip that was set long ago, is slow or has lost its power |
| Display (`ui/screens.c`, `widgets.c`, `framebuffer.c`, `epaper_drv.c`, `power/battery.c`) | a queue of two states, the frame buffer, the panel | announce, draw, refresh | a panel that is busy for seconds while states change; what fits on 200 by 200 pixels |
| Upload handler (`app/api/recordings.py`) | a WAV per request, rows of `jobs` | POST and GET of recordings | two uploads of one capture at once; failure half-way |
| Worker and pipeline (`app/worker/`) | the job in hand, `jobs` columns | reset, claim, transcribe, structure, create, done | restarts and failures between any two steps; retries without limit |
| Idempotency store (`services/todoist_idempotency.py`) | `todoist_task_keys` | look up, call, store | a stop between the call and the store |
| Retention (`services/audio_retention.py`) | the WAV files | after a job, daily purge | removing what is still needed; failing after "done" |
| Structuring (`services/structuring.py`, `llm/`) | the messages of one request | extract the object, ask again | braces and quotes in strings, fences, retries |
| Routing and Todoist cache (`services/confidence.py`, `todoist_cache.py`, `api/admin.py`) | `todoist_cache` | refresh by three callers, route, label | a cache replaced while a job reads it, projects that have gone |
| Status, configuration | none | reports | nothing |
| Codec, provisioning, OTA, sensors | hardware | drivers, stubs | nothing TLC could say more about than a test |

How the parts meet: the button task, the worker and the sync task talk to the application
through its event loop; the worker and the sync task share the queue (one mutex around every
function of `queue.c`); device and Hub exchange `POST /v1/recordings`,
`GET /v1/recordings/{id}` and `GET /v1/health`; on the Hub, handlers and the worker share the
database and the audio directory, and interleave at every `await`.

## Modules

| Module | What it is |
|---|---|
| `JobQueue` | The card and the queue's RAM, and the operations of `queue.c` as actions. |
| `SyncEngine` | Composes `JobQueue` with the sync task, the application around it, the Hub as the device sees it, the network and the resets. Properties, the inductive invariant, fairness. |
| `CaptureDelivery` | What a device with its Hub promises of a capture. `SyncEngine` implements it. |
| `SyncEngineProofs` | Theorems about `SyncEngine`. |
| `HubPipeline` | Upload handlers, database, worker, pipeline, Todoist, retention and stops of the Hub. |
| `HubService` | What the Hub promises: one recording per capture, ended once. `HubPipeline` implements it. |
| `HubPipelineProofs` | Theorems about `HubPipeline`. |
| `AudioPath` | `tk_audio`, the ring, `tk_writer`, and the calls that start and stop them from two other tasks. |
| `RecFlow` | A recording from REC to the job in the queue: button task, event loop, state machine, bridge and worker, over `AudioPath`. |
| `RecFlowProofs` | Theorems about `RecFlow` and `AudioPath`. |
| `RingBuffer`, `BoundedFifo` | The ring of `AudioPath` with its indices, byte by byte, and the bounded queue it implements. |
| `RingProofs` | Theorems about `RingBuffer`. |
| `AppStates` | The table of the state machine, for the modules that need no more of it. |
| `Clock` | The RTC, the system clock and the ids drawn from it. |
| `PowerMgr` | Boot, wake-up, idle timer and deep sleep, over `Clock` and `AppStates`. |
| `PowerProofs` | Theorems about `PowerMgr` and `Clock`. |
| `WifiSta` | Profiles, scan, connection, drop, and the handler of the driver's events. |
| `WifiProofs` | Theorems about `WifiSta`. |
| `Battery`, `Framebuffer`, `Screens` | The battery's percentage, the picture and its layout, and the task that draws it. |
| `ScreensProofs` | Theorems about these three. |
| `Structuring` | What the Hub takes for the JSON object in the LLM's answer, and a grammar to compare it with. |
| `HubRouting` | One job of the Hub with the Todoist cache, its refreshers and a user who edits projects; the decision where a task goes. |
| `RoutingProofs` | Theorems about `HubRouting`. |
| `MC...` | Instances for TLC: plans, calendars, profiles, accounts. |

Several definitions are introduced by the words "A mistake". They are wrong variants of the
definition after them, the kind of slip that would be easy to make in that piece of code; no
action uses them. Each property was tried against one, to see that the property notices.

### JobQueue

A capture is its `client_job_id`. `wav[c]` and `job[c]` say where its two files are, `num[c]`
is the NNNN in their names, and `state`, `attempts`, `hasRecId` are the fields of the `.job`
that decide anything, as `read_job_file` would return them; `state[c] = "unreadable"` is a file
it cannot parse. `seq`, `hint` and `ram` are the variables of the same role in `queue.c`.

Every public function takes the mutex, so it is one step. Two exceptions matter. The power can
fail inside `write_job_file`, which truncates the file and rewrites it (`TornWrite`), and
`queue_complete` renames two files, one after the other, with a reset possible in between
(`MoveWav`, `MoveJob`). A rename onto an existing name fails (FatFs refuses it), which happens
because numbers start again when `/queue` was empty at a boot.

The functions that act on an existing job begin with `find_job_by_id` and do nothing if it
fails. Their callers have read the job immediately before, and nobody else writes in SYNC, so
that branch is the guard `Found`. Listings return the oldest `ListMax` matching files:
`readdir` gives the order of creation, a freed directory entry being reused is not modelled.
When it finds none `queue_list_pending` falls back to the ids in `s_ram`, whose states it reads
from the same files: with a card that can be read that finds nothing more, so it is left out. The
card is taken to work while it is mounted: `queue_get` finds the job that `queue_mark` has just
written (`sync_engine.c:254`), and an `fopen` for writing succeeds. Where either fails the code
goes on with the `.job` as it was, and mostly without looking at the result; that is left to the plan.
What a write cut off by the power leaves behind is modelled (`TornWrite`).

### SyncEngine

`pc` follows `sync_task` and `sync_engine_drain`:

| `pc` | Code | Actions |
|---|---|---|
| `wait` | `ulTaskNotifyTake` | `StartSync` wakes it |
| `drain` | snapshot, eligible count | `Snapshot` |
| `connect` | Wi-Fi and health | `Connected`, `NotConnected` |
| `upload` | the loop over the snapshot | `SkipJob`, `StartUpload`, `UploadsDone` |
| `post` | `http_uploader_upload` | `Post` |
| `result` | its three outcomes | `UploadResult` = `UploadOk`, `UploadGivenUp` or `UploadRetried` |
| `poll` | `poll_hub_jobs` | `PollFails`, `PollDone`, `PollNotDone`, `PollsDone` |
| `moveWav`, `moveJob` | `queue_complete` | `CompleteWav`, `CompleteJob` |
| `check` | the loop of `sync_task` | `SyncDone`, `SleepBackoff`, `DrainAgain` |

`todo` is the rest of the snapshot, `current` the job in hand, `retry[c]` the backoff slot: none,
not yet due, or due. Sixteen slots are enough for a snapshot of sixteen, because a job keeps its
slot only while it is queued and the snapshot takes the oldest; the branch "table full" is not
reached. The length of a delay is left out, its end is `BackoffElapses` (`retry_ready` finds it
over) or `SleepBackoff`.

Around the task: `app` is the application's state with BOOT, IDLE, SYNC, and RECORDING standing
for RECORDING, FINALIZING and CONFIRM; `syncRequest` is a SYNC_REQUEST on its way through the
event loop. A boot after a wake-up by REC passes through RECORDING without a session and reaches
IDLE without a request, which is why `FinishBoot` may leave it unset. `Crash` is a reset, a
brown-out or deep sleep at any step, `CrashWhileWriting` the same inside a write. Deep sleep is
entered from IDLE only; as a reset it is one of the `MaxCrashes`.

The Hub keeps one recording per capture and answers a repeated upload with it (`Ingest`); its
recordings end done or in error (`HubProcesses`). Those are the promises of `HubService`, which
`HubPipeline` is shown to keep. The device's stays in terms of `client_job_id`: two captures
drawing the same id are not modelled.

### HubPipeline

A request for an upload is an element of `Posts`, and the recording it makes bears its name
(`new_recording_id` draws a fresh one). `handler`, `client` and `answer` are the request's; the
columns of `jobs` are `status`, `transcript`, `llm`, `created` and `received`; `keys` is
`todoist_task_keys`; `audio` the WAV files. `worker`, `inHand`, `plan` and `item` are the
coroutine of the worker. `made`, `madeFrom` and `lost` record what Todoist did and which answers
were lost; the code does not read them.

An upload is two steps, look-up and open (`PostKnown` or `PostNew`) and insert (`PostInserted`,
or `PostBeaten` when the UNIQUE constraint refuses the row). In between, other handlers and the
worker run. `received_at` counts seconds, so two rows may have the same. `process_job` is one
step per database transaction or external call; `Fail` is its except clause. The worker's code
runs partly in threads: a step boundary in the model is a superset of the places where the event
loop may switch. `Crash` stops the process at any of them and also stands for a graceful stop,
which cancels the worker at an await.

A plan is the number of subtasks of each task; an item `<<i, j>>` is subtask `j` of task `i`, or
the task itself for `j = 0`, which is exactly what an idempotency key names. `TodoistDedupes`
says whether Todoist honours `X-Request-Id` (external: its behaviour is taken from what
`services/todoist.py` and spec 02 section 10.5 expect), `TodoistRefuses` whether it refuses every
call. Age is abstracted: `Purge` may remove the WAV of any finished job at any time.

Assumed: database writes do not fail, a 200 of Todoist carries an id, random recording ids do not
collide, the clock does not run backwards while the Hub is up. A 422 for bad metadata changes
nothing and is left out.

### AudioPath and RecFlow

`todo[t]` is the program counter of the two tasks that start and stop a recording, the worker and
the button's: the calls it still has to make, in the order of its source. A call that waits in
the middle is two steps, the second of which replaces the first at the head of `todo[t]`:

| Call | Code | Actions |
|---|---|---|
| `capture`, `run` | `audio_capture_start`, before and after the codec is on | `CaptureStart`, `CaptureRun` |
| `stop`, `stopped` | `audio_capture_stop`, before and after the semaphore | `CaptureStop`, `CaptureStopped` |
| `open`, `spawn` | `wav_writer_session_start_with_path`, the WAV and the task | `OpenWav`, `SpawnWriter` |
| `finalize`, `finalized` | `wav_writer_session_finalize` | `Finalize`, `Finalized` |
| `abort`, `aborted` | `wav_writer_session_abort` | `Abort`, `Aborted` |
| `prepare`, `check`, `checkOpen`, `checkCapture` | `handle_recording` and its looks at the session | `Prepare`, `Check` |
| `enqueue`, `error` | the end of `handle_finalizing`, the error path | `Enqueue`, `Failed` |
| `discard` | REC_DISCARD, after the tap's stop and abort | `Discard` |

Two of the three looks at the session before the WAV is opened (after the prepare and after the
beep) have nothing between them that changes the state, and are one `Check`. The handle of a task
is cleared together with the semaphore it gives; the instructions between the two are not a step.

A chunk of audio is the number of the session it was spoken in, a WAV the sequence of its chunks.
A chunk that finds the ring full is dropped whole. `captured` counts the chunks that went into the
ring; `dropped` and `again` are history variables, read by properties only: the worker's queue has
refused a command; a WORK_RECORDING was stale, that is, it has begun a recording for an active
session in the middle of another, or for a session that had been served. That happens when a
command left over from a tap reads the session of a later press (`Prepare`).

`events` is the queue of the event loop. The state machine's handler and the bridge handle
different events, so a handler is a step. A STATE_CHANGED event is the state it carries, because
`esp_event_post` copies it: the bridge sees every state, in order, however late. `age` is the time
since `s_press_us`: short (under 0.5 s), long, or max (120 s and more); a wake-up by REC leaves it
at none, which counts as very long ago, as in the code. At first the button may be seen up or
down after any boot: `rec_button_task` reads the pin when it begins, so the press that woke the device
may be over by then, and REC may be held at any other boot. `SyncFinishes` stands for the whole sync
task, `saved` for the capture queue: both are the business of `SyncEngine`. `SyncEngine` takes for
granted that SYNC is left by SYNC_DONE; `NothingStaleEnds` confirms it while the card and the codec
work. After a failure an ERROR can be read in a state it was not meant for: it takes FINALIZING to
IDLE with a WORK_FINALIZING still to be served, and from there the worker runs behind the
application. A stale WORK_RECORDING has the same effect without a failure: it finds the WAV of the
recording before it open. Properties that such an ERROR breaks say `faults = 0` and `~again`. Among
them is the first half of the golden rule, see the table of differences below. The second half, that
the microphone is off outside RECORDING, survives failures and stale commands, but not every
heap of them. With four failures, and commands that are stale because of them, the application can
run so far ahead of the worker that a SYNC_REQUEST is taken in CONFIRM, the CONFIRM_DONE behind it
ends the CONFIRM of a later recording, and its SYNC_REQUEST finds itself behind the REC_DISCARD of a
tap; the REC_PRESS of the next press is then ignored in SYNC, while the RECORDING that the tap has
left in the worker's queue serves that very press, and the microphone stays on in IDLE until the
next recording ends. TLC, led along it, goes this way in `RecFlow` with the worker's queue of
four, twelve presses, four failures and nine events, far beyond what a run reaches unled. Hence
`GoldenRule` asks that the press taken back last is the last press, or that the run is regular; in
the run's bounds it holds without that. `SavedIsWhole` needs `faults = 0` for a
reason of its own: a write that fails ends the writer, the recording is saved without its tail, and
the tail is still in the ring, where the next recording begins with it.

### RingBuffer

`AudioPath` has the ring as a sequence of chunks; this module justifies it. The variables are the
fields of `audio_ring_t`; a call is `WriteBegins` or `ReadBegins`, which takes the lock, one step
for each byte, and an end, which gives it back. `BoundedFifo` sees a call at its end:
`Contents` is what the callers may know while one is under way. The memory is not cleared by
`audio_ring_init`, so `Init` allows any bytes. `audio_ring_available` reads `count` without the
lock; a word is read whole, and the caller only decides whether to read again, so it is no
action. The counter of overruns wraps at `Wrap`. `audio_ring_deinit` is called by nobody while a
task runs.

### Clock and PowerMgr

`Clock` counts in moments, three hours apart. `chip` is the moment the RTC counts, `Registers` its
bytes at that moment, with the bit OS, and `Read` what `rtc_get` and `mktime` make of them;
`ClockBoots` is `pcf85063_init`, `rtc_refresh_if_stale` and `rtc_sync_system_time`. `Built` is the chip after the
refresh. `DrawId` gives a
capture its `client_job_id`, with one random byte, and its `rtc_valid`. Nothing calls `rtc_set`
but the refresh: `time_sync.c` is an empty stub. The transfers on the bus succeed. If
`rtc_sync_system_time` failed, `rtc_valid` would stay true with the system clock in 1970
(`app_main.c:156`), and `ValidIsPlausible` would not hold.

`PowerMgr` has the boot (`PowerOn`, `WakeUp`, `Reset`, then `InitDone` or `InitFails`, then
`Decide`, which posts what `power_mgr_boot_action` says), the event loop with the table of
`AppStates`, the bridge, which arms and stops the idle timer, the timer's own task (`IdleTimerFires`)
and the steps of `power_mgr_enter_deep_sleep` (`Go`), between which the other tasks run. A sync and a
recording are as short as their events. `postponed` remembers, for the properties only, that the
cable put sleep off.

What the model shows beside its properties: sleep put off by the cable is not armed again while
the device stays in IDLE (`power_mgr.c:182-217`), which `IdleSleeps` excepts; a missing card is a
boot that ends in a restart, again and again, where spec 01:135 has an error screen;
`rtc_alarm_clear_flag` is not reached (`power_mgr.c:169-170`); BATTERY_LOW and PROVISION_DONE are
posted by nobody. Deep sleep is off by default in `sdkconfig`; the model is of a build with it on, and
with `SKIP_ON_USB`. The gates of `m0_*.c` are not called.

### WifiSta

The driver is external: `link` is its state, `inbox` the events on their way to `on_event`.
`Disconnected` and `GotIp` are the two branches of the handler, `Retry` the part that connects
again. `pc` follows `wifi_sta_connect` in the sync task; a failure, that of `esp_wifi_set_config` among them, leaves
everything as it is and returns to `rest`. `Drop` is `wifi_sta_drop`, whose disconnection reaches the same handler.
`Parsed` has the entries of `wifi.cfg` the parser takes, with what the stack held where a key is
missing (`wifi_profiles.c:83`): the driver refuses that key. Two assumptions on time: to join a
network takes longer than the statement after `esp_wifi_disconnect`, and a scan takes longer than
the handling of the events before it.

### Battery, Framebuffer and Screens

`Battery` is the curve of `battery.c`. A text or a picture is, in `Framebuffer`, the box it blackens:
the metrics of `assets_fonts.c` and the smallest box around the ink of each picture in
`assets_images.c`, taken from their bytes. `Flush` is the buffer as the panel gets it, under the three
knobs of `epaper_cfg.h`.

In `Screens`, the event loop announces each change of state in steps (`Announce`, `Drain` once per
waiting state, `Send`), and `tk_ui` receives, draws with the battery and the count of that moment,
and refreshes; the panel is what no reset changes. The pending hint changes in FINALIZING and SYNC
only, as the worker and the sync task do; a WORK_RECORDING left over from a tap could also enqueue
in IDLE (`RecFlow` has it), and the screen would then show the old count. The screen of BOOT is
drawn by nobody, as no event announces it, and network icons are redrawn only with the next
state; both differ from `docs/design/epaper-ui-spec.md`. `wait_busy` has no limit
(`epaper_drv.c:69`): the model takes the panel to answer. SAFE_OFF, OTA and the end of PROVISION are
never reached, as nobody posts their events.

### Structuring and HubRouting

A text is a short sequence of the characters that matter: braces, the quote, the backslash, three
backticks, anything else. `ReadChar` is one turn of the scanner of `extract_json_object`. `Objects`
is a grammar of objects as far as braces and strings go, independent of the scanner:
`ExtractionIsRight` compares the two on every text the LLM may answer.

`HubRouting` is one job, with its transcript, from the LLM to done; `HubPipeline` has many jobs and
their answers lost. `account` is what the user's Todoist holds, `cache` the Hub's picture of it,
`refresh[w]` a refresher, the hourly loop (whose first turn is the lifespan's) or the admin endpoint,
each of which fetches projects and labels and stores them in two transactions. `RouteTask` is
`route_task` over `Resolve`; ratios are in percent and qualities in hundredths of it, so that the
products are exact. `lists` is what this turn of the job has read of the cache, `route` where its task
goes, `made` the tasks in Todoist, `record` the column `created_tasks`. `gone` says that a task's
project has been deleted under it.

Todoist is external: it refuses a project or a parent it does not have, a deleted project takes its
tasks along, and it accepts a subtask whose `project_id` is not its parent's. A parent found under
its key when a job is taken up again is told the project of the new routing
(`todoist_idempotency.py:60`), so what is recorded may differ from where it is; `RecordIsTrue`
excepts exactly this (`hit`). A project named "Inbox" is left out of the prompt but not of the
routing. A parent deleted before its subtasks are made makes the job try for ever, which
`JobEnds` excepts (`gone`).

## What the runs check

All passing runs allow the system to rest (`CHECK_DEADLOCK FALSE`): a device in IDLE with
nothing to do, a Hub whose uploads have all been answered.

| Run | Bounds | Shows |
|---|---|---|
| `device` | 2 captures, RAM index and listing of 1, 2 attempts, 2 network faults, 1 Hub error, 2 resets, empty ids | the safety properties, refinement of `CaptureDelivery`; every queued capture ends unless captures that were given up fill the listing; a drain ends when nothing is counted |
| `hub_safety` | 3 uploads of up to 2 captures, plans `<<1>>` and `<<0,0>>`, 1 fault, 2 stops, no de-duplication | the safety properties, refinement of `HubService` |
| `hub_live` | 2 uploads of 1 capture, 3 faults, 2 stops, `retain_audio_days = 0` | every recording ends, also when a done job runs again |
| `rec_flow` | 3 presses, or 2 and a fault, 1 chunk each, ring of 1 chunk, worker's queue of 3 (4 in the code), cold boot and wake-up by REC | all safety properties, a bound on the event loop's queue, every press leads back to IDLE |
| `ring` | 3 bytes, calls of up to 4, two values of a byte, resets at any moment | the ring is a bounded queue |
| `power` | 2 boots, 2 presses, 5 moments (2 after 2000, 3 around a new year), one random byte | a sleeping device is safe, ids and times are what the Hub takes them for, an idle device sleeps and wakes to work |
| `wifi` | 3 drains, 8 losses, 5 retries as in the code, 2 profiles of 3, 5 files, 5 scans | flag, icon and radio agree, no success from old bits, retries end |
| `screens` | 6 changes of state, queue of 2, unknown, one-digit and three-digit battery, counts of one and two digits | the screen left standing is true, the layout fits, the panel catches up |
| `hub_routing` | 2 accounts, 2 plans, texts of up to 6 characters, 1 retry, 1 edit, 1 fault, 1 stop | the object is found, records are true, the job ends |

Why they are large enough: two captures are what it takes for names to collide, for one job to
fill a listing of one as sixteen fill the code's, and for one job's failure to stand in another's
way, in safety and in liveness, which one run checks together; a limit of two
attempts has a first, a last and, with a reset, one too many; two resets let a recovery be
interrupted and let a number be used again after `/queue` was empty. On the Hub, two uploads race
for one capture while a third is a different one, the two plans have a task with a subtask and
two tasks, so both kinds of resume happen, and two stops interrupt a resume. In a recording three
sessions are one to leave a command behind, one whose recording is open when that command is served,
and one that meets what comes of it; one chunk and a ring of one let a chunk be left behind, be
drained and find the ring full. A worker's queue of three can be full after three presses, as the
code's four can after four. A fault takes the place of a press (`Bounded`), because a worker that
has failed is behind the application already. With three presses at most six events wait in the
loop (`EventCap`), one more than with two; its queue holds 32. A ring of three
bytes wraps within one call and overruns in a call of four. Two boots are one to draw an id and
one to draw it again. Six losses end the five retries of one connection, and two more are left for another; the
third drain meets what the two before have left. Six changes take the display from boot through a
recording and a sync. In routing, an edit makes the better project appear or go, between any two
steps of a job and of two refreshers. A count may have eight digits before it meets another
element, which is beyond what a card can hold; that the layout fits up to there is proved.
`Counts` and the grammar are small because `LayoutFits` and `ExtractionIsRight` speak of each
reachable screen and text by itself; both are proved for any.

The bounds `MaxFaults`, `MaxHubErrors` and `MaxCrashes` count events in a behaviour and guard
the actions that make them happen. In the liveness runs they also say "eventually the network
works": a network that fails for ever refutes any progress, and rightly.

The safety properties, each with the slip it would catch, are stated above their definitions. The
ones a reviewer should read first: `KeepsPromise` and `IsHubService` (a capture is handed over
once and let go of only after "done"), `AttemptsBounded`, `DistinctNames`, `DuplicatesNeedALoss`
(Todoist gets a task twice only if an answer was lost and Todoist ignores the key),
`DoneIsComplete` and `OnePlan`, `SavedIsWhole` (a WAV is what was heard in its session, and nothing
of another), `GoldenRule` (sync and microphone never together while no command is stale, no
microphone at rest), `NothingStaleEnds`
(a recording and a sync end by what was meant for them), `SleepCutsOnlyTheUnheard`, `OnlineIsUp`,
`ScreenIsTrue` and `RecordIsTrue`. The inductive invariants, the type invariants of the device, the
Hub, the ring and the display, `HubHasUploaded`, `DoneIsFinal` and `InFlightIsInHand` are proved for
every instance and no longer checked in a run.

### Fairness

Device (`Fairness`): the boot, the end of a recording, the event loop's handling of SYNC_REQUEST
and the sync task go on when they can. FreeRTOS schedules a ready task, and each of these is one.
The Hub processes each recording it holds. Nothing is assumed of `StartCapture`, of resets, or of
faults. `EveryCaptureSettles` has the premise that the application goes to SYNC again and again,
because the code does not guarantee it (`AutoSync` below). An accepted upload whose body cannot be
read leaves a job that counts as awaiting the Hub but, having no id, is not listed for polling, and
the drain waits for it for ever: `EveryCaptureSettles` counts that job as settled,
`SyncEndsWhenNothingPending` excepts the drain. `EveryCaptureSettles` has one exception more,
`Crowded`: a job that was given up stays in `/queue` in ERROR and keeps its place in the listing,
which skips it only later, so that as many of them as the listing has places keep every later job
out of it. Without the exception the property is `NoStarvation`, which the code does not keep.

Hub (`FairSpec`): the container is started again when it stops (`docker-compose` restart policy),
and the event loop runs the worker. Handlers need no fairness.

Recording (`FairSpec`): each task, the event loop, the timer of CONFIRM and the sync task go on when
they can, and time passes. Nobody has to press or release REC: the limit of 120 s is what ends a
recording then.

Power (`FairSpec`): boot, event loop, worker, sync and the timers' task go on when they can, a
sleeping device is woken by its timer at the latest. Neither the cable nor REC is ever assumed.

Wi-Fi (`FairSpec`): an attempt of the driver ends, one way or the other, and the handler runs. Nothing
is assumed of the sync task.

Display (`FairSpec`): the event loop and `tk_ui` run, the panel comes to the end of a refresh. The
number of changes is bounded, so the states do come to rest.

Routing (`FairSpec`): the worker and the hourly loop go on. Nobody need ever call the admin endpoint,
and a container that was stopped is started again, which the loop's first turn is.

## Where documents and code differ

Each of these statements of a document or comment is a definition, and TLC finds a behaviour of the
code that differs. The first three are runs. To see another, add its definition to the `.cfg` in the
last column in place of its properties.

| Statement | The document says | The code does | See it with |
|---|---|---|---|
| `SyncEnds` | a drain ends with SYNC_DONE (roadmap) | the hint is lowered only for a job in QUEUED or ERROR, but the drain has marked it UPLOADING, so after one upload the loop never ends | run `device_sync_ends` |
| `RecordingIsHeard` | a wake-up by REC goes straight into a recording (spec 01, 5) | REC_PRESS is posted without a session, so the worker takes it for a cancelled tap and records nothing; nor does the limit of 120 s apply | run `rec_fast` |
| `NoStarvation` | no starvation, as the drain goes by a snapshot (roadmap:275) | `queue_list_pending` stops at 16 jobs in QUEUED or ERROR, those that were given up included; 16 of them starve every later job | run `device_starves`, with a listing of 1 |
| `AutoSync` | sync follows when the queue has something to send (roadmap) | a SYNC_REQUEST behind a REC_PRESS is ignored and not repeated | PROPERTY, `MCSyncEngine.cfg` |
| `RecoveredJobsReadable` | boot recovers the real state of the queue (spec 01, 9.3) | a torn `.job` stays unreadable, the journal is not replayed | INVARIANT, `MCSyncEngine.cfg` |
| `NoTaskTwice` | no task twice after a restart (spec 02) | the key is stored after the call | INVARIANT, `MCHubSafety.cfg` |
| `RefusalEnds` | a permanent 4xx ends in `error` (spec 02, 10.5) | it is requeued without limit | PROPERTY, `MCHubLive.cfg` with `TodoistRefuses = TRUE` |
| `SavedIsOwn` | a tap is discarded (spec 01, 8.3) | a tap released while the codec is switched on leaves audio in the ring, which the next recording's WAV begins with | INVARIANT, `MCRecFlow.cfg` |
| `NeverTogether` | recording and sync never at once, the golden rule (spec 01, 6) | a press, a tap and two more presses with a slow worker: the WORK_RECORDING of the tap finds the second press's WAV open, its ERROR ends FINALIZING early, and the application is in SYNC while the worker records the third press | INVARIANT, `MCRecFlow.cfg` |
| `OnDemand` | Wi-Fi is on only on demand (spec 01:312) | `wifi_sta_drop` disconnects, and the handler of that very event connects again | INVARIANT, `MCWifiSta.cfg` |

## What is proved

### The device

`SyncEngineProofs`, for any finite set of captures and any value of the other constants, from
`QueueAssumption` and `SyncAssumption` (finite `Captures`, positive limits):

* `TypeCorrect`, `NothingLost`, `UploadsAreReal`, `AttemptsLimited`, `SleepsOnlyToRetry`,
  `NamesAreDistinct`: the invariants of `device`;
* `DoneStaysDone`: the action property `DoneIsFinal`;
* `PromiseKept`: `Spec => Delivery!Spec`, the refinement.

None of the invariants is inductive by itself. That the device lets go of a capture only when
the Hub is done needs, at the rename, that the job in hand has been marked done, and that needs,
at the poll, that the rest of the snapshot still consists of jobs that wait for the Hub. That
the attempts stay bounded needs that a queued job has one left, also one that the recovery has
just put back. That the task does not upload again at once, which is said of runs
without a reset, needs that the recovery of the first boot finds no job it could put back without a
slot (`NotYetQueued`). That names differ needs that `s_seq` covers every name in `/queue` once it is
known. `IInv` is the conjunction of these facts, in the last part of `SyncEngine`: `Control` (which
variables are idle where), `NotYetQueued`, `InHand`, `ToPoll`, `AttemptLeft`, `SeqCoversNames`
and the invariants themselves. TLC checks it too.

The proof has one lemma per action that changes the queue or the job in hand (`...Preserves`).
The actions that only move the task's control share one lemma: `Quiet` says what they leave
alone, `QuietPreserves` that this is enough. `StepEffect` sums up what a step may do to a job,
from which the refinement and `DoneIsFinal` follow.

### The Hub

`HubPipelineProofs`, for any finite set of uploads, any captures, any plans with at least one
task, and any number of faults and stops, from `HubAssumption`:

* `TypeCorrect`, `UploadsAgree`, `AudioIsKept`, `DuplicatesAreLosses`, `DoneMeansAllTasks`,
  `PlansAreNotMixed`, `NoJobIsStranded`: the invariants of `hub_safety`;
* `ServiceKept`: with `~RetainZero`, `Spec => IsHubService`, the refinement. With
  `retain_audio_days = 0` it does not hold: a failing removal of the WAV is inside the `try` of
  `process_job`, whose except clause then puts the done job back into the queue.

The inductive invariant `IInv` is the last part of `HubPipeline`. Beside the properties it has
`UploadRows` (rows belong to uploads that were inserted, one for a capture: the worker never makes
or removes a row), `WorkerHoldsOne` and `StatusInHand` (what the worker's place says about the job
in hand and about every other), `Asking` (nothing is made before the LLM's answer is stored, so
the plan may change only until then), `ItemInHand` and `MadeInOrder` (the worker goes through
the plan in order and everything before its place is made), and `TasksAccounted` (each creation
of an item is accounted for by its key, by a lost answer, or by being the one whose key is about
to be stored). `DoneIsComplete` follows from the order, `OnePlan` from `Asking`, and
`DuplicatesNeedALoss` from the accounting.

The proof has one lemma per action (`...Preserves`). What an action leaves alone keeps the parts
that speak of it only, by `WorkQuiet`, `RequestsQuiet`, `RecordsQuiet`, `AccountsQuiet` and
`DoneQuiet`. `SendEffect` is the creation of an item, with its three outcomes; `ServiceStep` maps every step to one of `HubService` or to a
stutter.

### The ring and the display

`RingProofs`, for any capacity, set of bytes and length of calls, from `RingAssumption`:
`TypeCorrect`, and `RingIsFifo`, `Spec => IsFifo`, the refinement of `BoundedFifo`. The type
invariant is not enough: it must be strengthened by what ties the ends to the count, that `head`
is `count` slots after `tail`. With it a byte written goes behind the last one held and a byte
read is the first; the modular arithmetic of the two indices is in lemmas of its own, since
the solver has little of it.

`ScreensProofs`, for any length of the queue, any voltages, counts of up to eight digits and any
number of changes, from `ScreensAssumption`: `TypeCorrect`; `ScreenStaysTrue`, by an invariant that
says which state the panel will come to show from what is posted, announced, queued and drawn,
whichever of them is the last; `LayoutAlwaysFits`, that no element of a screen leaves the panel or
covers another; `PercentRises`, that a higher voltage never shows less; and `PanelShowsThePicture`,
that under every setting of the knobs the panel gets the picture, turned or mirrored as they say.

A layout is a sequence of boxes whose sizes depend on a percentage and a count. The proof never
enumerates them: `Band` says that the boxes of one element lie apart, inside the panel and between
two heights, `Together` puts a band under another, `Beside` and `Wider` compare the boxes of one
line by the numbers of their digits (`HasDigits`), and each screen is then a few bands from top to
bottom. `MaxCount` is where it ends: a FAT directory holds fewer files than that.

### Sleep, clock and ids

`PowerProofs`, for any number of boots and presses, any random bytes and any calendar, from
`PowerAssumption` and `ClockAssumption`:

* `PowerTypes`, `SleepIsSafe`, `IdsTellApart`, `ValidTimesArePlausible`: the invariants of `power`;
* `SleepComesToIdle`: the action property `SleepCutsOnlyTheUnheard`.

`ClockAssumption` is what a calendar is: moments three hours apart, in order, in two stretches
(before and after the year 2000, which the chip's two digits cannot tell from each other), the
build in the second, today not before it (the build's `__TIME__` is the local time of the build
machine and is read as BRT, so this takes the firmware to be built in the zone it runs in, or west of
it), and so few that a clock that starts again in 1970 does
not reach the build. Without the last a device that ran for decades without a valid clock would
draw ids that look valid; the code has the same horizon.

`PowerInv` strengthens them by `GoesInOrder` (which of the steps to sleep have been taken, from
the one that is next), `LastNamed` (the last state on the event queue is the machine's, or the
bridge has heard of it), `TimerIsOfIdle` (a timer that runs was armed for IDLE), `ChipKeepsTime`
(a chip that did not stop is not ahead of the time, and system clock and flag agree with it) and
`CapturesPast` (how far each capture lies back, by each of the two clocks). Two captures with one
id cannot both be of this boot because `CapturesPast` fixes the difference of their times.

### The station

`WifiProofs`, for any profiles, anything in the air, any number of drains, losses and retries, from
`WifiAssumption`: `StationTypes`, `FlagIsTrue` (`FlagTellsTheLink`) and `SuccessIsOfThisCall` (the
action property `OnlineIsUp`). `FlagTellsTheLink` speaks of an empty queue of events; inductive is
`EventsTellTheLink`, that the last event on its way says whether the link is up. `BitIsOfThisCall`
says of the bit what `OnlineIsUp` says of the step that reads it. That the chosen network is one of
the profiles needs the choice's loop as a function over the sequence (`LeastOfNat` and what follows).

### Routing

`RoutingProofs`, for any accounts, plans, answers, and any number of retries, edits, faults and
stops, from `RoutingAssumption` and `StructuringAssumption`: `RoutingTypes`, `RecordsAreTrue`
(`RecordIsTrue`) and `ExtractionsAreRight` (`ExtractionIsRight`).

`RoutingInv` has `AsksOnce`, `AtTask` and `WithParent` (what the worker's place says of the task in
hand and of the lists it was routed by), and `MadeByRoute` and `RecordByRoute`: what is in Todoist
and in the record is what `RouteTask` gives for the lists seen then. From these two `RecordIsTrue`
follows, whatever lists a later turn reads.

`ExtractionIsRight` needs nothing of the behaviour but that an answer is a text of at most `MaxText`
characters, which `RoutingAssumption` says of `Raws`; `MaxText` is any number. It holds because the
scanner, which knows a depth and two flags, follows a grammar, which knows what is nested in what:

* `ScanTurns` and `GrammarTurns`: the recursive functions `Scanned`, `StringBodies` and `Members` are
  defined for every length and do what their equations say (`ScanExists`, `GrammarExists`);
* `Cut` and its forms `CutFirst`, `CutPair`, `CutEnds`: where a part of a text falls in two. With them
  `BodyTurns`, `PieceTurns` and `MemberTurns` restate the grammar by positions in one fixed text;
* `InsideString`: read from inside a string, the body of one is what leaves the scanner in the string
  without having taken it out on the way;
* `OutsideString`: read from outside, what an object may hold is what brings the scanner back outside
  and to its depth, without having gone below it (`Level`). One way takes the grammar's first part
  off; the other finds where the part that begins here must end, as the first return to the depth;
* `FirstEndIsObject`: so from a brace the first closing brace at depth zero ends an object, and no
  shorter or longer part is one; `ExtractIsRight` adds the fences and the two modes.

Each of these inductions is over the length. The induction theorems of the library cannot be used
here, as they are about an operator; instead each goes by the set of the lengths for which the
statement holds: a set of naturals that has `n` whenever it has all below `n` has them all, or the
rest would have a least (`LeastOfNat`, `AllNaturals`).

### Recording

`RecFlowProofs`, for any number of presses and faults, any size of the ring and any length of the
worker's queue, from `AudioAssumption` and `RecAssumption`:

* `RecTypes`, `JobsAreSavedOnce`, `ConfirmIsTrue`, `PressesAreHeard`, `RecordingsAreWhole`: the
  invariants of `rec_flow` of the same content, `PressIsHeard` and `SavedIsWhole` among them;
* `GoldenRuleHolds` (`GoldenRule`): sync and microphone never together, and nothing left on outside
  RECORDING, with failures as well;
* `NothingStale`: the action property `NothingStaleEnds`;
* `OnlyPressesOwe`, `LoopBacklog` and `LoopHasItsRoom` (`LoopHasRoom`): how much can wait in the
  event loop's queue, with failures and stale commands as well, counted from any quiet moment on.

Nothing in the code says that these hold: there is no lock around a recording, and no task waits
for another except for a semaphore in the middle of a call. What keeps them is the order of events
and commands, and the proof is about that order. It has five inductive invariants: `RecInv`, three
more for what is heard, what is whole and what is left on, and an account of the events.

`RecInv` is `Basics`, which always holds, and `Regular`, which holds as long as no call fails and no
command is served twice (`Regularly`). `Basics` has the types; `Staged`, that the calls a task still
has to make are one of a few sequences, each with a name (`ToPrepare`, `UndoCapture`, `Stopping`,
`TapAbort`, ...), so that the rest of the proof speaks of stages and not of sequences; and `Owed`, an
account of the presses, each of which owes one capture. `Regular` says

* of the loop (`LoopShape`, `Told`, `Timers`): which events can be on their way in which state, and
  in which order. An event of something earlier is there only while it is ignored;
* of a tap (`TapShape`): it belongs to the last press, which does not end in another way;
* of the hand-over (`FinalizingShape`, `ConfirmShape`, `Rests`): one FINALIZING is on its way at a time,
  and when the state machine leaves it the worker has nothing more to do with the recording;
* of the audio path (`Plain`, `MicOwned`, `FileOwned`, `WorkShape`): a microphone that is on, or a
  WAV that is open, has somebody who will end it: the press that is still active, one that is
  about to be served, the worker in one of its undoing stages, or the tap;
* of the queue (`SavedShape`): whose the saved jobs are.

That `again` and `faults` never fall back to FALSE and 0 is what makes the condition usable:
`StaysRegular` argues backwards, from a regular state to the one before it.

`PressIsHeard` allows stale commands, so it cannot rest on `Regular`. `HeardShape` needs instead that
the RECORDING of a press is behind every FINALIZING that is left from before (`OldEnds`), and follows
the press from there through each of the worker's stages (`Served`, `UnderWay`) until it is heard or
an event that ends it is on its way. A refused command breaks `OldEnds`, hence `~dropped`.

`SavedIsWhole` needs `WholeShape`: what has been heard in the session that is served is divided between
the ring and the WAV that is being made (`TapeShape`), the ring holds nothing of a saved session
(`RingShape`), nothing has been heard of a session before its microphone is on (`FreshShape`), and a
WAV that is saved is not written again (`SavedWavs`).

The second half of `GoldenRule` has to hold in runs that are not regular, where nothing says whose a
microphone is. `GoldShape` asks less: that somebody will end it, whoever began it. While tk_audio runs
a FINALIZING is on its way to the worker, or the press may still go on (it is not taken back, or none
has been and the state is RECORDING), or a task is in a stage that stops it (`MicLeft`, and `FileLeft`
for the WAV as long as nothing has failed). The codec is off if tk_audio is not told to run and nobody
is about to tell it or to stop it (`CodecOff`). As long as no press has been taken back every RECORDING
that is not yet over, as an event, a command or in the worker's hands, has a FINALIZING behind it once
the state is another (`NoTap`); somebody has still to end FINALIZING (`Finishes`); and in a regular
run a press begins when the worker is done with the one before (`NewRests`).

The state machine and the bridge run in the event loop and post into its queue, with no limit on
the wait: were it full, nobody would be left to empty it. `Debts` counts what waits and all it may
still lead to. An event that leads to two counts for two (`Heavy`), a command for what the worker
will post for it (`Toil`), the worker, the state, the confirm timer, the sync and the button for what
they still owe (`Due`, `Pending`, `Held`). The loop pays for what it posts with what it takes
(`LoopPays`), so its part of the account (`Running`) does not grow by its steps. The other tasks pay
with what they still owed (`StepPays`), the worker at each of its calls (`DueFalls`), and only a press
adds: two for REC_PRESS, one for its release or for the REC_DISCARD of a tap, and one for the maximum
length. The account does not ask how regular a run is: it needs only the types and stages of `Basics`.

The proofs have one lemma for each action, or group of actions, and part of the invariant:
`...Basics`, `...Owned`, `Heard...`, `Whole...`, `...Gold`, `...Pays`.

### Only model-checked

The liveness properties, which depend on fairness and are out of the prover's reach:
`EveryCaptureSettles`, `SyncEndsWhenNothingPending`, `EveryRecordingEnds`, `Home`, `IdleSleeps`,
`NapFindsWork`, `RetriesEnd`, `Settles` and `JobEnds`. Every invariant and action property of a passing
run is stated by a theorem.

`LoopHasItsRoom` does not count the presses of the whole run. Whenever nothing waits for the loop, for
the worker or for the button's calls (`Quiet`; the state may be any, a recording or a sync may go
on), five events at most are still owed, and from then on four with each press. With `4k + 5` places
there is room for `k` presses after any such moment, however many came before: six for the code's
32. It says nothing of seven presses without a quiet moment between them, which nothing in the code
forbids: as `on_rec_press` wants the state to be IDLE, the loop must have gone through each of them
before the next, so these would have to be presses that follow each other, six times in a row, before
the worker has served the commands of the last.

One number is TLC's alone. `rec_flow` finds `LoopHasRoom` with six places for its three presses, where
the account, from the start, has 15: it also counts what is still to be posted, and at most a part of
that ever waits at the same time.

## Not modelled

The parts with status `not_modelled` in `PROJECT.json`, for the reasons given there: stubs and
bring-up tests. Of the parts that are `partly`: `QUEUE.JNL`, which is written and never read; multipart
framing and TLS; the WAV header, the beeps and failures of allocation; the I2C bus and the vendored
codec driver; the prompt's wording and the Whisper model; `routing_eval.py`, an offline tool; the
reports of `status.py`. Of the modelled parts: the contents of audio, texts and messages, logging,
the order of keys in JSON, the bits inside a glyph, the register sequences of the panel, the number
of seconds anything takes.

## Plan

Order by what the system's promise depends on most:

1. `JobQueue`, `SyncEngine`, `CaptureDelivery` with proofs - done.
2. `HubPipeline`, `HubService` with proofs - done.
3. `AudioPath`, `RecFlow` with proofs - done.
4. `RingBuffer`, `BoundedFifo` with proofs - done.
5. `Clock`, `PowerMgr`, `WifiSta` with proofs - done.
6. `Battery`, `Framebuffer`, `Screens` with proofs - done.
7. `Structuring`, `HubRouting` with proofs - done.
8. `Delivery`: device and Hub composed end to end, from capture to tasks, over `SyncEngine` and
   `HubPipeline` in place of the abstract Hub; today the two meet in `HubService`, whose promises
   `SyncEngine` takes for its Hub.
9. Reads and writes of a mounted card that fail, in `JobQueue` and its callers.
