------------------------------- MODULE Screens -------------------------------
(***************************************************************************)
(* The screen (ui/screens.c, ui/widgets.c): the event loop announces every *)
(* change of state (app_main.c, taskhog_state_bridge), tk_ui draws it and  *)
(* waits for the e-paper, which takes longer than several changes.         *)
(*                                                                         *)
(* The recording worker and the sync task are here only by the pending     *)
(* hint they change: the worker before it posts FINALIZE_DONE, the sync    *)
(* task before it posts SYNC_DONE.                                         *)
(***************************************************************************)
EXTENDS AppStates, Battery, Framebuffer

CONSTANTS
  QueueLen,     \* UI_QUEUE_LEN
  Voltages,     \* what the battery may be measured at
  Counts,       \* values of the pending hint
  MaxChanges    \* bound: changes of state

\* A directory of a FAT file system has 65,536 entries; a number of eight digits
\* is more than the jobs it can hold.
MaxCount == 99999999

ASSUME ScreensAssumption ==
  /\ QueueLen \in Nat \ {0} /\ MaxChanges \in Nat
  /\ Voltages \subseteq Nat /\ Counts \subseteq 0 .. MaxCount /\ Counts # {}

VARIABLES
  state,        \* s_state
  posted,       \* STATE_CHANGED events in the loop's queue
  announcing,   \* screens_on_state_changed: rest, drain or send, and its argument
  hint,         \* queue_pending_hint()
  uiQueue,      \* s_ui_queue
  ui,           \* tk_ui: wait, draw, refresh
  visible,      \* s_visible_state
  canvas,       \* the framebuffer: the screen drawn last and the status it shows
  panel,        \* what the e-paper shows, which no reset changes
  changes

loop == <<state, posted, announcing, changes>>
display == <<ui, visible, canvas, panel>>
vars == <<loop, hint, uiQueue, display>>

ScreenNames == {"splash", "home", "recording", "saved", "sync"}

\* render_for_state
ScreenOf(s) ==
  CASE s = "BOOT" -> "splash"
    [] s \in {"RECORDING", "FINALIZING"} -> "recording"
    [] s = "CONFIRM" -> "saved"
    [] s = "SYNC" -> "sync"
    [] OTHER -> "home"

Drawn == [screen : ScreenNames \cup {"blank"},
          battery : [valid : BOOLEAN, percent : 0 .. 100], count : Counts]

TypeOK ==
  /\ state \in States /\ visible \in States
  /\ posted \in Seq(States) /\ uiQueue \in Seq(States) /\ Len(uiQueue) <= QueueLen
  /\ announcing \in [at : {"rest", "drain", "send"}, arg : States]
  /\ hint \in Counts
  /\ ui \in {"wait", "draw", "refresh"}
  /\ canvas \in Drawn /\ panel \in [screen : ScreenNames, count : Counts]
  /\ changes \in 0 .. MaxChanges

Init ==
  /\ state = "BOOT" /\ posted = <<>> /\ announcing = [at |-> "rest", arg |-> "BOOT"]
  /\ hint \in Counts
  /\ uiQueue = <<>> /\ ui = "wait" /\ visible = "BOOT"
  /\ panel \in [screen : ScreenNames, count : Counts]
  /\ canvas = [screen |-> "blank", battery |-> [valid |-> FALSE, percent |-> 0], count |-> hint]
  /\ changes = 0

-----------------------------------------------------------------------------
(* The layout of each screen, as the boxes of its elements; of a text only *)
(* the number of its characters counts.                                    *)

\* The number of digits of a percentage or a count.
Tens == <<10, 100, 1000, 10000, 100000, 1000000, 10000000, 100000000>>
Digits(n) == CHOOSE d \in 1 .. 8 : n < Tens[d] /\ (d > 1 => Tens[d-1] <= n)

STATUS_Y == 6
FOOTER_Y == 178
MASCOT_Y == 26

BatteryBox(right) == Picture(g_img_batt, right - g_img_batt.size, STATUS_Y)

WifiBox(right) == Picture(g_img_wifi, right - g_img_wifi.size, STATUS_Y)

ClockBox == Text(g_font_sm, 8, STATUS_Y, 5)      \* HH:MM

\* A mistake: the icons do not make room for the percentage.
StatusBarFixed(battery) ==
  LET digits == Digits(battery.percent) + 1
  IN  <<ClockBox, BatteryBox(192), WifiBox(192 - (g_img_batt.size + 5))>>
      \o (IF battery.valid THEN <<TextRight(g_font_sm, 192, STATUS_Y, digits)>> ELSE <<>>)

\* widget_status_bar: the clock, the percentage if it is known, battery and Wi-Fi.
StatusBar(battery) ==
  LET digits == Digits(battery.percent) + 1
      right  == IF battery.valid THEN 192 - (TextWidth(g_font_sm, digits) + 4) ELSE 192
  IN  <<ClockBox, BatteryBox(right), WifiBox(right - (g_img_batt.size + 5))>>
      \o (IF battery.valid THEN <<TextRight(g_font_sm, 192, STATUS_Y, digits)>> ELSE <<>>)

Footer(length) == <<TextCenter(g_font_sm, FOOTER_Y, length)>>

\* icon_label
IconLabel(icon, font, length, y, gap) ==
  LET x == (W - (icon.size + gap + TextWidth(font, length))) \div 2
  IN  <<Picture(icon, x, y + (font.height - icon.size) \div 2),
        Text(font, x + icon.size + gap, y, length)>>

Splash ==
  <<TextCenter(g_font_tt, 14, 7),             \* TASKHOG
    TextCenter(g_font_sm, 52, 6),             \* v1.0.0
    PictureCenter(g_img_mascot_default, 84)>>

Home(st) ==
  StatusBar(st.battery) \o
  (IF st.count > 0
   THEN <<PictureCenter(g_img_mascot_default, MASCOT_Y)>>
        \o IconLabel(g_img_cloud_sm, g_font_hd, Digits(st.count) + 8, 142, 6)   \* 12 na fila
   ELSE <<PictureCenter(g_img_mascot_sleeping, MASCOT_Y)>>
        \o IconLabel(g_img_cloud_sm, g_font_hd, 12, 142, 6))                    \* Nada na fila
  \o Footer(22)                               \* Segure REC para gravar

Recording(st) ==
  StatusBar(st.battery) \o <<PictureCenter(g_img_mascot_angry, MASCOT_Y)>>
  \o IconLabel(g_img_mic_sm, g_font_hd, 11, 142, 6)       \* Gravando...
  \o Footer(24)                               \* Solte REC para finalizar

Saved(st) ==
  StatusBar(st.battery) \o <<PictureCenter(g_img_mascot_happy, 20)>>
  \o IconLabel(g_img_check_sm, g_font_hd, 5, 138, 8)      \* Salvo
  \o <<TextCenter(g_font_md, 162, 20)>>       \* Salvo no dispositivo

SyncScreen(st) ==
  StatusBar(st.battery)
  \o <<PictureCenter(g_img_cloud_lg, 36), TextCenter(g_font_hd, 110, 13)>>      \* Sincronizando
  \o (IF st.count > 0 THEN <<TextCenter(g_font_xl, 132, Digits(st.count))>> ELSE <<>>)

Layout(st) ==
  CASE st.screen = "blank" -> <<>>
    [] st.screen = "splash" -> Splash
    [] st.screen = "home" -> Home(st)
    [] st.screen = "recording" -> Recording(st)
    [] st.screen = "saved" -> Saved(st)
    [] st.screen = "sync" -> SyncScreen(st)

-----------------------------------------------------------------------------
(* The event loop.                                                         *)

\* Events that no code posts are not among them (BATTERY_LOW, PROVISION_DONE, OTA).
Posted == {"BOOT_COMPLETE", "REC_PRESS", "REC_RELEASE", "REC_DISCARD", "FINALIZE_DONE",
           "CONFIRM_DONE", "RECORD_MAX", "SYNC_REQUEST", "SYNC_DONE", "PROVISION_REQUEST", "ERROR"}

\* transition_to; the loop handles one event after another.
Transition(s) ==
  /\ announcing.at = "rest" /\ changes < MaxChanges
  /\ \E e \in Posted : <<state, e, s>> \in Transitions
  /\ state' = s /\ posted' = Append(posted, s) /\ changes' = changes + 1
  /\ UNCHANGED <<announcing, hint, uiQueue, display>>

\* taskhog_state_bridge
Announce ==
  /\ announcing.at = "rest" /\ posted # <<>>
  /\ announcing' = [at |-> "drain", arg |-> Head(posted)] /\ posted' = Tail(posted)
  /\ UNCHANGED <<state, changes, hint, uiQueue, display>>

\* A mistake: what is waiting is kept.
DrainNothing ==
  /\ announcing.at = "drain"
  /\ announcing' = [announcing EXCEPT !.at = "send"] /\ UNCHANGED uiQueue
  /\ UNCHANGED <<state, posted, changes, hint, display>>

\* screens_on_state_changed takes out what tk_ui has not begun with.
Drain ==
  /\ announcing.at = "drain"
  /\ IF uiQueue = <<>> THEN announcing' = [announcing EXCEPT !.at = "send"] /\ UNCHANGED uiQueue
     ELSE uiQueue' = Tail(uiQueue) /\ UNCHANGED announcing
  /\ UNCHANGED <<state, posted, changes, hint, display>>

\* xQueueSend without waiting: a full queue drops the state.
Send ==
  /\ announcing.at = "send"
  /\ uiQueue' = IF Len(uiQueue) < QueueLen THEN Append(uiQueue, announcing.arg) ELSE uiQueue
  /\ announcing' = [announcing EXCEPT !.at = "rest"]
  /\ UNCHANGED <<state, posted, changes, hint, display>>

\* queue_enqueue raises it before FINALIZE_DONE.  queue_mark_uploaded lowers it
\* before SYNC_DONE, if at all.
HintChanges ==
  /\ \/ state = "FINALIZING" /\ hint' \in {n \in Counts : n > hint}
     \/ state = "SYNC" /\ hint' \in {n \in Counts : n < hint}
  /\ UNCHANGED <<loop, uiQueue, display>>

-----------------------------------------------------------------------------
(* tk_ui                                                                   *)

\* A mistake: no refresh for a screen that is shown already.
ReceiveNew ==
  /\ ui = "wait" /\ uiQueue # <<>> /\ uiQueue' = Tail(uiQueue)
  /\ visible' = Head(uiQueue)
  /\ ui' = IF panel.screen = ScreenOf(Head(uiQueue)) THEN "wait" ELSE "draw"
  /\ UNCHANGED <<loop, hint, canvas, panel>>

\* handle_show_state: FINALIZING has RECORDING's screen.
Receive ==
  /\ ui = "wait" /\ uiQueue # <<>> /\ uiQueue' = Tail(uiQueue)
  /\ visible' = Head(uiQueue)
  /\ ui' = IF Head(uiQueue) = "FINALIZING" /\ visible = "RECORDING" THEN "wait" ELSE "draw"
  /\ UNCHANGED <<loop, hint, canvas, panel>>

\* widget_read_status, and render_for_state with it.
Draw ==
  /\ ui = "draw" /\ ui' = "refresh"
  /\ \E mv \in Voltages :
       canvas' = [screen |-> ScreenOf(visible), battery |-> Reading(mv), count |-> hint]
  /\ UNCHANGED <<loop, hint, uiQueue, visible, panel>>

\* epaper_drv_refresh_full, until the panel is no longer busy.
Refresh ==
  /\ ui = "refresh" /\ ui' = "wait"
  /\ panel' = [screen |-> canvas.screen, count |-> canvas.count]
  /\ UNCHANGED <<loop, hint, uiQueue, visible, canvas>>

EventLoop == Announce \/ Drain \/ Send
Ui == Receive \/ Draw \/ Refresh

Next == EventLoop \/ Ui \/ HintChanges \/ \E s \in States : Transition(s)

Spec == Init /\ [][Next]_vars

\* Both tasks run, and the panel comes to the end of a refresh.
FairSpec == Spec /\ WF_vars(EventLoop) /\ WF_vars(Ui)

-----------------------------------------------------------------------------

AtRest == posted = <<>> /\ announcing.at = "rest" /\ uiQueue = <<>> /\ ui = "wait"

\* Whatever was skipped while the e-paper was busy, the screen left standing is
\* that of the state, and the home screen's count is that of the queue: the
\* drain of pending states (screens.c:212) and the saved refresh (screens.c:147)
\* lose nothing that the user should see.
ScreenIsTrue ==
  AtRest /\ state # "BOOT" =>
    panel.screen = ScreenOf(state) /\ (state = "IDLE" => panel.count = hint)

\* No text or icon is cut off at the edge of the panel, and none is drawn over
\* another, for every voltage, count and screen (the offsets of screens.c and
\* widgets.c against the metrics of fonts and images).
LayoutFits ==
  LET boxes == Layout(canvas)
  IN  \A i, j \in DOMAIN boxes : Inside(boxes[i]) /\ (i < j => Apart(boxes[i], boxes[j]))

\* The screen follows the state: once the state no longer changes the panel
\* comes to show it, however far the refreshes have fallen behind.
Settles == <>[](state = "BOOT" \/ panel.screen = ScreenOf(state))
=============================================================================
