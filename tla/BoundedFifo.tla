----------------------------- MODULE BoundedFifo -----------------------------
(***************************************************************************)
(* What audio_capture.c and wav_writer.c take the ring of ring_buffer.c    *)
(* for: each call is one step on a queue of at most Capacity bytes.  What  *)
(* does not fit is refused from the end of the call that brings it, and    *)
(* that is counted, modulo the width of the counter.                       *)
(***************************************************************************)
EXTENDS Integers, Sequences

CONSTANTS Capacity, Bytes, MaxLen, Wrap

VARIABLES fifo, wrote, got, overruns

vars == <<fifo, wrote, got, overruns>>

Least(a, b) == IF a <= b THEN a ELSE b

Init == fifo = <<>> /\ wrote = 0 /\ got = <<>> /\ overruns = 0

Write(src) ==
  LET n == Least(Len(src), Capacity - Len(fifo)) IN
  /\ fifo' = fifo \o SubSeq(src, 1, n)
  /\ wrote' = n /\ got' = <<>>
  /\ overruns' = IF n < Len(src) THEN (overruns + 1) % Wrap ELSE overruns

Read(len) ==
  LET n == Least(len, Len(fifo)) IN
  /\ got' = SubSeq(fifo, 1, n)
  /\ fifo' = SubSeq(fifo, n + 1, Len(fifo))
  /\ wrote' = 0
  /\ UNCHANGED overruns

Reset == fifo' = <<>> /\ wrote' = 0 /\ got' = <<>> /\ UNCHANGED overruns

Next ==
  \/ \E len \in 1 .. MaxLen : Read(len) \/ \E src \in [1 .. len -> Bytes] : Write(src)
  \/ Reset

Spec == Init /\ [][Next]_vars
=============================================================================
