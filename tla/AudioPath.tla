----------------------------- MODULE AudioPath -----------------------------
(***************************************************************************)
(* From the microphone to the card (components/audio): tk_audio reads the  *)
(* codec into the ring, tk_writer moves the ring into a WAV, and two other *)
(* tasks, the recording worker and the button's, start and stop them.      *)
(*                                                                         *)
(* todo[t] is what task t has left to do, call by call.  A call that waits *)
(* in the middle is replaced by its second half.                           *)
(***************************************************************************)
EXTENDS Integers, Sequences

CONSTANTS
  RingCap,      \* chunks the ring holds
  MaxChunks,    \* bound: chunks captured under one session
  MaxPresses,   \* bound: presses of the button
  MaxFaults     \* bound: failures and delays of the card and of the codec

ASSUME AudioAssumption ==
  /\ RingCap \in Nat \ {0}
  /\ {MaxChunks, MaxPresses, MaxFaults} \subseteq Nat

VARIABLES
  codec,        \* s_codec_open
  captureRun,   \* s_capture_run
  capturing,    \* s_audio_task: tk_audio exists
  stopDone,     \* s_stop_done has been given
  ring,         \* the chunks in the ring, each known by the session it was spoken in
  captured,     \* how many chunks of each session went into the ring
  file,         \* s_file: the number of the open WAV, 0 for none
  path,         \* s_session_path, 0 when empty
  writerRun,    \* s_writer_run
  writing,      \* s_writer_task: tk_writer exists
  writerDone,   \* s_writer_done has been given
  wav,          \* what each WAV contains
  todo,
  faults

capture == <<codec, captureRun, capturing, stopDone>>
writer == <<file, path, writerRun, writing, writerDone, wav>>
audioVars == <<capture, ring, captured, writer, todo, faults>>

Tasks == {"worker", "button"}
Sessions == 0 .. MaxPresses
Wavs == 1 .. MaxPresses + 1

\* The calls below, and those of the tasks that make them.
Calls ==
  {"capture", "run", "stop", "stopped", "open", "spawn", "finalize", "finalized", "abort", "aborted",
   "prepare", "check", "checkOpen", "checkCapture", "enqueue", "error", "discard"}

AudioTypeOK ==
  /\ codec \in BOOLEAN /\ captureRun \in BOOLEAN /\ capturing \in BOOLEAN /\ stopDone \in BOOLEAN
  /\ ring \in Seq(Sessions) /\ Len(ring) <= RingCap
  /\ captured \in [Sessions -> 0 .. MaxChunks]
  /\ file \in Wavs \cup {0} /\ path \in Wavs \cup {0}
  /\ writerRun \in BOOLEAN /\ writing \in BOOLEAN /\ writerDone \in BOOLEAN
  /\ wav \in [Wavs -> Seq(Sessions)]
  /\ todo \in [Tasks -> Seq(Calls)]
  /\ faults \in 0 .. MaxFaults

AudioInit ==
  /\ codec = FALSE /\ captureRun = FALSE /\ capturing = FALSE /\ stopDone = FALSE
  /\ ring = <<>>
  /\ captured = [s \in Sessions |-> 0]
  /\ file = 0 /\ path = 0
  /\ writerRun = FALSE /\ writing = FALSE /\ writerDone = FALSE
  /\ wav = [n \in Wavs |-> <<>>]
  /\ todo = [t \in Tasks |-> <<>>]
  /\ faults = 0

-----------------------------------------------------------------------------
(* What a task does next.                                                  *)

At(t, call) == todo[t] # <<>> /\ Head(todo[t]) = call

Go(t, calls) == todo' = [todo EXCEPT ![t] = calls]

Return(t) == Go(t, Tail(todo[t]))

\* The call has a second half.
GoOn(t, call) == Go(t, [todo[t] EXCEPT ![1] = call])

Fault == faults < MaxFaults /\ faults' = faults + 1

NoFault == UNCHANGED faults

-----------------------------------------------------------------------------
(* audio_capture_start and audio_capture_stop.                             *)

\* The rail and the codec are switched on, which takes a while.
CaptureStart(t, onError) ==
  /\ At(t, "capture")
  /\ \/ captureRun /\ Return(t) /\ NoFault /\ UNCHANGED codec
     \/ ~captureRun /\ codec' = TRUE /\ GoOn(t, "run") /\ NoFault
     \/ ~captureRun /\ Fault /\ Go(t, onError) /\ UNCHANGED codec
  /\ UNCHANGED <<captureRun, capturing, stopDone, ring, captured, writer>>

CaptureRun(t) ==
  /\ At(t, "run")
  /\ Return(t)
  /\ ring' = <<>>
  /\ stopDone' = FALSE
  /\ captureRun' = TRUE
  /\ capturing' = TRUE
  /\ UNCHANGED <<codec, captured, writer, faults>>

CaptureStop(t) ==
  /\ At(t, "stop")
  /\ \/ /\ ~captureRun /\ ~capturing
        /\ codec' = FALSE
        /\ Return(t)
        /\ UNCHANGED captureRun
     \/ /\ captureRun \/ capturing
        /\ captureRun' = FALSE
        /\ GoOn(t, "stopped")
        /\ UNCHANGED codec
  /\ UNCHANGED <<capturing, stopDone, ring, captured, writer, faults>>

\* The two seconds are up only if another call has taken the semaphore.
CaptureStopped(t) ==
  /\ At(t, "stopped")
  /\ stopDone \/ ~capturing
  /\ stopDone' = FALSE
  /\ codec' = FALSE
  /\ Return(t)
  /\ UNCHANGED <<captureRun, capturing, ring, captured, writer, faults>>

-----------------------------------------------------------------------------
(* tk_audio.                                                               *)

\* A mistake: the room in the ring is not looked at.
ChunkOverrun(s) ==
  /\ codec
  /\ captured[s] < MaxChunks
  /\ ring' = Append(ring, s)
  /\ captured' = [captured EXCEPT ![s] = @ + 1]

\* A chunk spoken in session s.  One that finds the ring full is dropped,
\* which changes nothing here.
Chunk(s) ==
  /\ codec
  /\ Len(ring) < RingCap
  /\ captured[s] < MaxChunks
  /\ ring' = Append(ring, s)
  /\ captured' = [captured EXCEPT ![s] = @ + 1]

AudioReads(s) ==
  /\ capturing /\ captureRun
  /\ Chunk(s)
  /\ UNCHANGED <<capture, writer, todo, faults>>

\* The loop ends, perhaps after the read it was in.
AudioEnds(s) ==
  /\ capturing /\ ~captureRun
  /\ Chunk(s) \/ UNCHANGED <<ring, captured>>
  /\ capturing' = FALSE
  /\ stopDone' = TRUE
  /\ UNCHANGED <<codec, captureRun, writer, todo, faults>>

-----------------------------------------------------------------------------
(* wav_writer_session_start, _finalize and _abort.                         *)

OpenWav(t, n, onError) ==
  /\ At(t, "open")
  /\ \/ (writing \/ file # 0) /\ Go(t, onError) /\ NoFault /\ UNCHANGED <<file, path, wav>>
     \/ ~writing /\ file = 0 /\ Fault /\ Go(t, onError) /\ path' = 0 /\ UNCHANGED <<file, wav>>
     \/ ~writing /\ file = 0 /\ GoOn(t, "spawn") /\ NoFault
        /\ path' = n /\ file' = n /\ wav' = [wav EXCEPT ![n] = <<>>]
  /\ UNCHANGED <<capture, ring, captured, writerRun, writing, writerDone>>

\* The writer's task.  In the meantime the other task may have closed the WAV.
SpawnWriter(t) ==
  /\ At(t, "spawn")
  /\ Return(t)
  /\ writerDone' = FALSE
  /\ writerRun' = TRUE
  /\ writing' = TRUE
  /\ UNCHANGED <<capture, ring, captured, file, path, wav, faults>>

Finalize(t, onError) ==
  /\ At(t, "finalize")
  /\ \/ ~writing /\ Go(t, onError) /\ UNCHANGED writerRun
     \/ writing /\ writerRun' = FALSE /\ GoOn(t, "finalized")
  /\ UNCHANGED <<capture, ring, captured, file, path, writing, writerDone, wav, faults>>

\* The wait for the writer: the semaphore, or no semaphore in time because the
\* card is slow or somebody else has taken it.
WriterGone == writerDone /\ writerDone' = FALSE /\ NoFault

WriterTimeout ==
  /\ ~writerDone /\ UNCHANGED writerDone
  /\ IF writing THEN Fault ELSE NoFault

Finalized(t, onError) ==
  /\ At(t, "finalized")
  /\ \/ WriterGone /\ Return(t)
     \/ WriterTimeout /\ Go(t, onError)
  /\ UNCHANGED <<capture, ring, captured, file, path, writerRun, writing, wav>>

\* What is left after the wait: the WAV, if the writer has not closed it.
DropSession(t) ==
  /\ wav' = IF file # 0 /\ path # 0 THEN [wav EXCEPT ![path] = <<>>] ELSE wav
  /\ file' = 0
  /\ path' = 0
  /\ Return(t)

Abort(t) ==
  /\ At(t, "abort")
  /\ \/ writing /\ writerRun' = FALSE /\ GoOn(t, "aborted") /\ UNCHANGED <<file, path, wav>>
     \/ ~writing /\ DropSession(t) /\ UNCHANGED writerRun
  /\ UNCHANGED <<capture, ring, captured, writing, writerDone, faults>>

Aborted(t) ==
  /\ At(t, "aborted")
  /\ WriterGone \/ WriterTimeout
  /\ DropSession(t)
  /\ UNCHANGED <<capture, ring, captured, writerRun, writing>>

-----------------------------------------------------------------------------
(* tk_writer.                                                              *)

WriterWrites ==
  /\ writing /\ ring # <<>> /\ file # 0
  /\ wav' = [wav EXCEPT ![file] = Append(@, Head(ring))]
  /\ ring' = Tail(ring)
  /\ UNCHANGED <<capture, captured, file, path, writerRun, writing, writerDone, todo, faults>>

WriterEnds ==
  /\ file' = 0
  /\ writing' = FALSE
  /\ writerDone' = TRUE
  /\ UNCHANGED <<capture, captured, path, writerRun, wav, todo>>

\* A mistake: told to stop, the writer leaves what is in the ring.
WriterStopsAtOnce ==
  /\ writing /\ ~writerRun
  /\ WriterEnds
  /\ UNCHANGED <<ring, faults>>

\* The ring is drained before the WAV is closed.
WriterFinishes ==
  /\ writing /\ ~writerRun /\ ring = <<>>
  /\ WriterEnds
  /\ UNCHANGED <<ring, faults>>

\* A write that fails, on the card or for want of a file, ends the task too.
WriterFails ==
  /\ writing /\ ring # <<>>
  /\ ring' = Tail(ring)
  /\ IF file = 0 THEN NoFault ELSE Fault
  /\ WriterEnds
=============================================================================
