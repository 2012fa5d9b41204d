----------------------------- MODULE RingBuffer ------------------------------
(***************************************************************************)
(* The ring of bytes between tk_audio and tk_writer                        *)
(* (components/audio/ring_buffer.c), byte by byte under its lock.          *)
(* AudioPath has it as a sequence of chunks.                               *)
(***************************************************************************)
EXTENDS Integers, Sequences

CONSTANTS
  Capacity,     \* AUDIO_CAPTURE_RING_BYTES
  Bytes,
  MaxLen,       \* bound: bytes of one call
  Wrap          \* the counter of overruns is a uint32_t

ASSUME RingAssumption ==
  /\ Capacity \in Nat \ {0} /\ Wrap \in Nat \ {0}
  /\ MaxLen \in Nat

VARIABLES
  data, head, tail, count, overruns,    \* audio_ring_t
  holder,       \* who has the lock: "none", "write" or "read"
  src, len, done,       \* that call's arguments, and the bytes it has moved
  out,          \* what a read has copied
  wrote, got    \* what the last call has returned

ring == <<data, head, tail, count>>
call == <<holder, src, len, done, out>>
results == <<overruns, wrote, got>>
vars == <<ring, call, results>>

Slots == 0 .. Capacity - 1

\* audio_ring_init does not clear the memory.
Init ==
  /\ data \in [Slots -> Bytes]
  /\ head = 0 /\ tail = 0 /\ count = 0 /\ overruns = 0
  /\ holder = "none" /\ src = <<>> /\ len = 0 /\ done = 0 /\ out = <<>>
  /\ wrote = 0 /\ got = <<>>

After(slot) == (slot + 1) % Capacity

Idle == holder' = "none" /\ src' = <<>> /\ len' = 0 /\ done' = 0 /\ out' = <<>>

WriteBegins(n, bytes) ==
  /\ holder = "none" /\ holder' = "write"
  /\ src' = bytes /\ len' = n
  /\ UNCHANGED <<ring, done, out, results>>

WriteByte ==
  /\ holder = "write" /\ done < len /\ count < Capacity
  /\ data' = [data EXCEPT ![head] = src[done + 1]]
  /\ head' = After(head)
  /\ count' = count + 1
  /\ done' = done + 1
  /\ UNCHANGED <<tail, holder, src, len, out, results>>

WriteEnds ==
  /\ holder = "write" /\ (done = len \/ count >= Capacity)
  /\ overruns' = IF done < len THEN (overruns + 1) % Wrap ELSE overruns
  /\ wrote' = done /\ got' = <<>>
  /\ Idle
  /\ UNCHANGED ring

ReadBegins(n) ==
  /\ holder = "none" /\ holder' = "read"
  /\ len' = n
  /\ UNCHANGED <<ring, src, done, out, results>>

ReadByte ==
  /\ holder = "read" /\ done < len /\ count > 0
  /\ out' = Append(out, data[tail])
  /\ tail' = After(tail)
  /\ count' = count - 1
  /\ done' = done + 1
  /\ UNCHANGED <<data, head, holder, src, len, results>>

ReadEnds ==
  /\ holder = "read" /\ (done = len \/ count = 0)
  /\ wrote' = 0 /\ got' = out
  /\ Idle
  /\ UNCHANGED <<ring, overruns>>

\* A mistake: the reader's end stays where it was.
ResetHead ==
  /\ holder = "none"
  /\ head' = 0 /\ count' = 0
  /\ wrote' = 0 /\ got' = <<>>
  /\ UNCHANGED <<data, tail, call, overruns>>

Reset ==
  /\ holder = "none"
  /\ head' = 0 /\ tail' = 0 /\ count' = 0
  /\ wrote' = 0 /\ got' = <<>>
  /\ UNCHANGED <<data, call, overruns>>

Next ==
  \/ \E n \in 1 .. MaxLen : ReadBegins(n) \/ \E bytes \in [1 .. n -> Bytes] : WriteBegins(n, bytes)
  \/ WriteByte \/ WriteEnds \/ ReadByte \/ ReadEnds \/ Reset

Spec == Init /\ [][Next]_vars

-----------------------------------------------------------------------------

\* Types of the variables, and what ties the two ends to the count.
TypeOK ==
  /\ data \in [Slots -> Bytes]
  /\ {head, tail} \subseteq Slots
  /\ count \in 0 .. Capacity
  /\ overruns \in 0 .. Wrap - 1
  /\ holder \in {"none", "write", "read"}
  /\ len \in Nat /\ done \in 0 .. len
  /\ src \in Seq(Bytes) /\ out \in Seq(Bytes) /\ got \in Seq(Bytes)

\* The bytes in the ring, oldest first.
Held == [i \in 1 .. count |-> data[(tail + i - 1) % Capacity]]

\* The queue that the callers see: a call takes effect when it gives the lock
\* back.
Contents ==
  CASE holder = "write" -> SubSeq(Held, 1, count - done)
    [] holder = "read" -> out \o Held
    [] OTHER -> Held

Fifo == INSTANCE BoundedFifo WITH fifo <- Contents

\* The ring is a bounded queue, call by call, whatever its two ends and its
\* indices do: nothing is reordered, doubled or overwritten, a full ring keeps
\* what it has, and a reset leaves nothing of the last session behind
\* (audio_ring_write, audio_ring_read, audio_ring_reset).
IsFifo == Fifo!Spec
=============================================================================
