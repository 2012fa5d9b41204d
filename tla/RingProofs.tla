----------------------------- MODULE RingProofs ------------------------------
(* The ring is a bounded queue for every capacity and every length of a call. *)
EXTENDS RingBuffer, SequenceTheorems, TLAPS

\* The slot that lies i bytes behind slot s.
Ahead(s, i) == (s + i) % Capacity

\* Going ahead by up to a whole turn wraps at most once.
LEMMA Wraps ==
  ASSUME NEW s \in Slots, NEW i \in 0 .. Capacity
  PROVE  /\ Ahead(s, i) = IF s + i < Capacity THEN s + i ELSE s + i - Capacity
         /\ Ahead(s, i) \in Slots
<1>1. CASE s + i < Capacity
  <2>1. s + i \in 0 .. Capacity - 1
    BY <1>1, RingAssumption DEF Slots
  <2>2. \A x \in 0 .. Capacity - 1 : x % Capacity = x
    BY RingAssumption, SMT
  <2> QED
    BY <1>1, <2>1, <2>2 DEF Ahead, Slots
<1>2. CASE s + i >= Capacity
  <2>1. s + i \in Capacity .. (2 * Capacity) - 1
    BY <1>2, RingAssumption DEF Slots
  <2>2. \A x \in Capacity .. (2 * Capacity) - 1 : x % Capacity = x - Capacity
    BY RingAssumption, SMT
  <2> QED
    BY <1>2, <2>1, <2>2, RingAssumption DEF Ahead, Slots
<1> QED
  BY <1>1, <1>2, RingAssumption DEF Slots

\* Different distances of less than a turn lead to different slots.
LEMMA Apart ==
  ASSUME NEW s \in Slots, NEW i \in 0 .. Capacity - 1, NEW j \in 0 .. Capacity - 1, i # j
  PROVE  Ahead(s, i) # Ahead(s, j)
<1>1. s \in 0 .. Capacity - 1 /\ Capacity \in Nat \ {0} /\ i \in 0 .. Capacity /\ j \in 0 .. Capacity
  BY RingAssumption DEF Slots
<1>2. Ahead(s, i) = IF s + i < Capacity THEN s + i ELSE s + i - Capacity
  BY <1>1, Wraps
<1>3. Ahead(s, j) = IF s + j < Capacity THEN s + j ELSE s + j - Capacity
  BY <1>1, Wraps
<1> QED
  BY <1>1, <1>2, <1>3

\* One step further is one more byte ahead, and one less from the next slot.
LEMMA OneMore ==
  ASSUME NEW s \in Slots, NEW i \in 0 .. Capacity - 1
  PROVE  /\ After(Ahead(s, i)) = Ahead(s, i + 1)
         /\ Ahead(After(s), i) = Ahead(s, i + 1)
         /\ After(s) \in Slots
<1> DEFINE a == Ahead(s, i)
           b == Ahead(s, 1)
<1>1. After(a) = Ahead(a, 1) /\ After(s) = b
  BY DEF After, Ahead
<1>2. /\ s \in 0 .. Capacity - 1 /\ Capacity \in Nat \ {0}
      /\ i \in 0 .. Capacity /\ i + 1 \in 0 .. Capacity /\ 1 \in 0 .. Capacity
  BY RingAssumption DEF Slots
<1>3. a = (IF s + i < Capacity THEN s + i ELSE s + i - Capacity) /\ a \in Slots
  BY <1>2, Wraps
<1>4. b = (IF s + 1 < Capacity THEN s + 1 ELSE s + 1 - Capacity) /\ b \in Slots
  BY <1>2, Wraps
<1>5. Ahead(s, i + 1) = IF s + (i + 1) < Capacity THEN s + (i + 1) ELSE s + (i + 1) - Capacity
  BY <1>2, Wraps
<1>6. Ahead(a, 1) = IF a + 1 < Capacity THEN a + 1 ELSE a + 1 - Capacity
  BY <1>2, <1>3, Wraps
<1>7. Ahead(b, i) = IF b + i < Capacity THEN b + i ELSE b + i - Capacity
  BY <1>2, <1>4, Wraps
<1> HIDE DEF a, b
<1>8. Ahead(a, 1) = Ahead(s, i + 1)
  BY <1>2, <1>3, <1>5, <1>6
<1>9. Ahead(b, i) = Ahead(s, i + 1)
  BY <1>2, <1>4, <1>5, <1>7
<1> QED
  BY <1>1, <1>4, <1>8, <1>9 DEF a
-----------------------------------------------------------------------------
(* The invariant: where the writer's end is, and what a call in progress    *)
(* has done.                                                                *)

Ends == head = Ahead(tail, count)

Writing == holder = "write" =>
  /\ src \in [1 .. len -> Bytes]
  /\ len \in 1 .. MaxLen
  /\ done <= count
  /\ \A i \in 1 .. done : data[Ahead(tail, count - done + i - 1)] = src[i]

Reading == IF holder = "read" THEN len \in 1 .. MaxLen /\ Len(out) = done ELSE out = <<>>

Resting == holder = "none" => done = 0

IInv == TypeOK /\ Ends /\ Writing /\ Reading /\ Resting

LEMMA IInvInit == Init => IInv
<1> SUFFICES ASSUME Init PROVE IInv
  OBVIOUS
<1>1. Ahead(0, 0) = 0
  BY Wraps, RingAssumption DEF Slots
<1>2. <<>> \in Seq(Bytes)
  BY EmptySeq
<1> QED
  BY <1>1, <1>2, RingAssumption
  DEF Init, IInv, TypeOK, Ends, Writing, Reading, Resting, Slots

LEMMA WriteByteKeeps == IInv /\ WriteByte => IInv'
<1> SUFFICES ASSUME IInv, WriteByte PROVE IInv'
  OBVIOUS
<1> USE RingAssumption DEF IInv, WriteByte, ring, call, results
<1>1. /\ src \in [1 .. len -> Bytes] /\ len \in 1 .. MaxLen /\ done <= count
      /\ head \in Slots /\ tail \in Slots
      /\ count \in 0 .. Capacity - 1 /\ done \in 0 .. len /\ done + 1 \in 1 .. len
      /\ data \in [Slots -> Bytes]
  BY DEF TypeOK, Writing
<1>2. head = Ahead(tail, count) /\ head' = Ahead(tail, count + 1) /\ head' \in Slots
  BY <1>1, OneMore, Wraps DEF Ends
<1>3. TypeOK'
  BY <1>1, <1>2 DEF TypeOK
<1>4. Ends'
  BY <1>2, Zenon DEF Ends, Ahead
<1>5. Writing'
  <2> SUFFICES ASSUME NEW i \in 1 .. done + 1
               PROVE  data'[Ahead(tail, count - done + i - 1)] = src[i]
    BY <1>1 DEF Writing, Ahead
  <2>1. CASE i = done + 1
    BY <1>1, <1>2, <2>1
  <2>2. CASE i \in 1 .. done
    <3>1. count - done + i - 1 \in 0 .. count - 1
      BY <1>1, <2>2
    <3>2. Ahead(tail, count - done + i - 1) # head
      BY <1>1, <1>2, <3>1, Apart
    <3> QED
      BY <1>1, <2>2, <3>1, <3>2, Wraps DEF Writing
  <2> QED
    BY <1>1, <2>1, <2>2
<1>6. Reading' /\ Resting'
  BY DEF Reading, Resting
<1> QED
  BY <1>3, <1>4, <1>5, <1>6

LEMMA ReadByteKeeps == IInv /\ ReadByte => IInv'
<1> SUFFICES ASSUME IInv, ReadByte PROVE IInv'
  OBVIOUS
<1> USE RingAssumption DEF IInv, ReadByte, ring, call, results
<1>1. /\ tail \in Slots /\ count \in 1 .. Capacity /\ done \in 0 .. len /\ done + 1 \in 0 .. len
      /\ data \in [Slots -> Bytes] /\ out \in Seq(Bytes) /\ Len(out) = done
  BY DEF TypeOK, Reading
<1>2. tail' \in Slots /\ Ahead(tail', count - 1) = Ahead(tail, count)
  BY <1>1, OneMore
<1>3. out' \in Seq(Bytes) /\ Len(out') = done + 1
  BY <1>1, AppendProperties
<1>4. TypeOK'
  BY <1>1, <1>2, <1>3 DEF TypeOK
<1>5. Ends'
  BY <1>1, <1>2 DEF Ends, Ahead
<1>6. Writing' /\ Reading' /\ Resting'
  BY <1>3 DEF Writing, Reading, Resting
<1> QED
  BY <1>4, <1>5, <1>6

LEMMA IInvKept == IInv /\ [Next]_vars => IInv'
<1> SUFFICES ASSUME IInv, [Next]_vars PROVE IInv'
  OBVIOUS
<1> USE RingAssumption DEF IInv, ring, call, results
<1>0. <<>> \in Seq(Bytes) /\ 0 \in Slots /\ Ahead(0, 0) = 0
  BY EmptySeq, Wraps DEF Slots
<1>1. ASSUME NEW n \in 1 .. MaxLen, ReadBegins(n) PROVE IInv'
  <2>1. n \in Nat /\ out = <<>> /\ Len(out) = 0 /\ done = 0
    BY <1>1 DEF ReadBegins, Reading, Resting
  <2> QED
    BY <1>1, <2>1 DEF ReadBegins, TypeOK, Ends, Ahead, Writing, Reading, Resting
<1>2. ASSUME NEW n \in 1 .. MaxLen, NEW bytes \in [1 .. n -> Bytes], WriteBegins(n, bytes)
      PROVE IInv'
  <2>1. n \in Nat /\ done = 0 /\ out = <<>>
    BY <1>2 DEF WriteBegins, Reading, Resting
  <2>2. bytes \in Seq(Bytes)
    BY <2>1, SeqDef
  <2> QED
    BY <1>2, <2>1, <2>2 DEF WriteBegins, TypeOK, Ends, Ahead, Writing, Reading, Resting
<1>3. CASE WriteEnds
  <2>1. overruns' \in 0 .. Wrap - 1
    BY <1>3, SMT DEF WriteEnds, TypeOK
  <2> QED
    BY <1>0, <1>3, <2>1 DEF WriteEnds, Idle, TypeOK, Ends, Ahead, Writing, Reading, Resting
<1>4. CASE ReadEnds
  BY <1>0, <1>4 DEF ReadEnds, Idle, TypeOK, Ends, Ahead, Writing, Reading, Resting
<1>5. CASE Reset
  BY <1>0, <1>5 DEF Reset, TypeOK, Ends, Ahead, Writing, Reading, Resting
<1>6. CASE UNCHANGED vars
  BY <1>6 DEF vars, TypeOK, Ends, Ahead, Writing, Reading, Resting
<1> QED
  BY <1>1, <1>2, <1>3, <1>4, <1>5, <1>6, WriteByteKeeps, ReadByteKeeps DEF Next

\* The two ends stay a count apart, the count stays within the capacity, and the
\* types hold.
THEOREM TypeCorrect == Spec => []TypeOK
<1>1. Spec => []IInv
  BY IInvInit, IInvKept, PTL DEF Spec
<1> QED
  BY <1>1, PTL DEF IInv

-----------------------------------------------------------------------------
(* The queue.                                                              *)

\* The n bytes from slot t.
Window(d, t, n) == [i \in 1 .. n |-> d[(t + i - 1) % Capacity]]

LEMMA WindowIs ==
  ASSUME NEW d \in [Slots -> Bytes], NEW t \in Slots, NEW n \in 0 .. Capacity
  PROVE  /\ Window(d, t, n) \in Seq(Bytes)
         /\ Len(Window(d, t, n)) = n
         /\ \A i \in 1 .. n : Window(d, t, n)[i] = d[Ahead(t, i - 1)] /\ Window(d, t, n)[i] \in Bytes
<1>1. ASSUME NEW i \in 1 .. n
      PROVE  Ahead(t, i - 1) = (t + i - 1) % Capacity /\ d[Ahead(t, i - 1)] \in Bytes
  <2>1. i - 1 \in 0 .. Capacity /\ t + (i - 1) = t + i - 1
    BY RingAssumption DEF Slots
  <2>2. Ahead(t, i - 1) \in Slots
    BY <2>1, Wraps
  <2> QED
    BY <2>1, <2>2 DEF Ahead
<1>2. Window(d, t, n) \in [1 .. n -> Bytes]
  BY <1>1 DEF Window
<1>3. Window(d, t, n) \in Seq(Bytes) /\ Len(Window(d, t, n)) = n
  BY <1>2, RingAssumption, SeqDef
<1> QED
  BY <1>1, <1>3 DEF Window

LEMMA WindowPrefix ==
  ASSUME NEW d \in [Slots -> Bytes], NEW t \in Slots, NEW n \in 0 .. Capacity, NEW m \in 0 .. n
  PROVE  SubSeq(Window(d, t, n), 1, m) = Window(d, t, m)
<1> DEFINE w == Window(d, t, n)
           v == Window(d, t, m)
           p == SubSeq(w, 1, m)
<1>1. m \in 0 .. Capacity /\ n \in Nat
  BY RingAssumption
<1>2. /\ Len(v) = m /\ v \in Seq(Bytes)
      /\ \A i \in 1 .. m : v[i] = d[Ahead(t, i - 1)]
  BY <1>1, WindowIs
<1>3. \A i \in 1 .. n : w[i] = d[Ahead(t, i - 1)] /\ w[i] \in Bytes
  BY WindowIs
<1> HIDE DEF w, v
<1>4. /\ p \in Seq(Bytes)
      /\ Len(p) = IF 1 <= m THEN m - 1 + 1 ELSE 0
      /\ \A i \in 1 .. m - 1 + 1 : p[i] = w[1 + i - 1]
  BY <1>1, <1>3, SubSeqProperties
<1> HIDE DEF p
<1>5. Len(p) = Len(v) /\ \A i \in 1 .. Len(p) : p[i] = v[i]
  BY <1>1, <1>2, <1>3, <1>4
<1> QED
  BY <1>2, <1>4, <1>5, SeqEqual DEF p, w, v

\* Windows with the same bytes are equal.
LEMMA SameWindow ==
  ASSUME NEW d \in [Slots -> Bytes], NEW e \in [Slots -> Bytes], NEW t \in Slots,
         NEW n \in 0 .. Capacity,
         \A i \in 1 .. n : d[Ahead(t, i - 1)] = e[Ahead(t, i - 1)]
  PROVE  Window(d, t, n) = Window(e, t, n)
<1> DEFINE w == Window(d, t, n)
           v == Window(e, t, n)
<1>1. /\ w \in Seq(Bytes) /\ Len(w) = n
      /\ \A i \in 1 .. n : w[i] = d[Ahead(t, i - 1)]
  BY WindowIs
<1>2. /\ v \in Seq(Bytes) /\ Len(v) = n
      /\ \A i \in 1 .. n : v[i] = e[Ahead(t, i - 1)]
  BY WindowIs
<1> HIDE DEF w, v
<1>3. Len(w) = Len(v) /\ \A i \in 1 .. Len(w) : w[i] = v[i]
  BY <1>1, <1>2
<1>4. w = v
  BY <1>1, <1>2, <1>3, SeqEqual
<1> QED
  BY <1>4 DEF w, v

\* A window is its first byte and the window after it.
LEMMA WindowFirst ==
  ASSUME NEW d \in [Slots -> Bytes], NEW t \in Slots, NEW n \in 1 .. Capacity
  PROVE  /\ d[t] \in Bytes
         /\ Window(d, t, n) = <<d[t]>> \o Window(d, After(t), n - 1)
<1> DEFINE w == Window(d, t, n)
           v == Window(d, After(t), n - 1)
           u == <<d[t]>>
           c == u \o v
<1>0. n \in 0 .. Capacity /\ n - 1 \in 0 .. Capacity /\ 0 \in 0 .. Capacity - 1 /\ 0 \in 0 .. Capacity
  BY RingAssumption
<1>1. d[t] \in Bytes /\ Ahead(t, 0) = t /\ After(t) \in Slots
  <2>1. Ahead(t, 0) = IF t + 0 < Capacity THEN t + 0 ELSE t + 0 - Capacity
    BY <1>0, Wraps
  <2>2. Ahead(t, 0) = t
    BY <2>1, RingAssumption DEF Slots
  <2> QED
    BY <1>0, <2>2, OneMore
<1>2. /\ w \in Seq(Bytes) /\ Len(w) = n
      /\ \A i \in 1 .. n : w[i] = d[Ahead(t, i - 1)]
  BY <1>0, <1>1, WindowIs
<1>3. /\ v \in Seq(Bytes) /\ Len(v) = n - 1
      /\ \A i \in 1 .. n - 1 : v[i] = d[Ahead(After(t), i - 1)]
  BY <1>0, <1>1, WindowIs
<1>4. u \in Seq(Bytes) /\ Len(u) = 1 /\ u[1] = d[t]
  BY <1>1
<1> HIDE DEF w, v, u
<1>5. /\ c \in Seq(Bytes) /\ Len(c) = n
      /\ \A i \in 1 .. n : c[i] = IF i <= 1 THEN u[i] ELSE v[i - 1]
  <2>1. /\ c \in Seq(Bytes) /\ Len(c) = Len(u) + Len(v)
        /\ \A i \in 1 .. Len(u) + Len(v) : c[i] = IF i <= Len(u) THEN u[i] ELSE v[i - Len(u)]
    BY <1>3, <1>4, ConcatProperties
  <2>2. Len(u) + Len(v) = n
    BY <1>3, <1>4, RingAssumption
  <2> HIDE DEF c
  <2> QED
    BY <1>4, <2>1, <2>2
<1> HIDE DEF c
<1>6. ASSUME NEW i \in 1 .. n PROVE w[i] = c[i]
  <2>1. CASE i = 1
    BY <1>1, <1>2, <1>4, <1>5, <2>1
  <2>2. CASE i > 1
    <3>1. i - 1 \in 1 .. n - 1 /\ i - 1 - 1 \in 0 .. Capacity - 1 /\ i - 1 - 1 + 1 = i - 1
      BY <2>2, RingAssumption
    <3>2. Ahead(After(t), i - 1 - 1) = Ahead(t, i - 1)
      BY <3>1, OneMore
    <3>3. v[i - 1] = d[Ahead(t, i - 1)]
      BY <1>3, <3>1, <3>2
    <3>4. c[i] = v[i - 1]
      BY <1>5, <2>2, <3>1
    <3> QED
      BY <1>2, <3>3, <3>4
  <2> QED
    BY <2>1, <2>2, RingAssumption
<1>7. Len(w) = Len(c) /\ \A i \in 1 .. Len(w) : w[i] = c[i]
  BY <1>2, <1>5, <1>6
<1>8. w = c
  BY <1>2, <1>5, <1>7, SeqEqual
<1> QED
  BY <1>1, <1>8 DEF w, v, u, c

LEMMA ConcatSplits ==
  ASSUME NEW s \in Seq(Bytes), NEW t \in Seq(Bytes)
  PROVE  /\ SubSeq(s \o t, 1, Len(s)) = s
         /\ SubSeq(s \o t, Len(s) + 1, Len(s \o t)) = t
<1> DEFINE c == s \o t
           a == SubSeq(c, 1, Len(s))
           b == SubSeq(c, Len(s) + 1, Len(c))
<1>1. /\ c \in Seq(Bytes) /\ Len(c) = Len(s) + Len(t)
      /\ \A i \in 1 .. Len(s) + Len(t) : c[i] = IF i <= Len(s) THEN s[i] ELSE t[i - Len(s)]
  BY ConcatProperties
<1>2. Len(s) \in Nat /\ Len(t) \in Nat /\ Len(c) \in Nat
  BY <1>1, LenProperties
<1>3. \A i \in 1 .. Len(c) : c[i] \in Bytes
  BY <1>1, ElementOfSeq
<1> HIDE DEF c
<1>4. /\ a \in Seq(Bytes)
      /\ Len(a) = IF 1 <= Len(s) THEN Len(s) - 1 + 1 ELSE 0
      /\ \A i \in 1 .. Len(s) - 1 + 1 : a[i] = c[1 + i - 1]
  <2>1. 1 \in Int /\ Len(s) \in Int /\ \A i \in 1 .. Len(s) : c[i] \in Bytes
    BY <1>1, <1>2, <1>3
  <2> QED
    BY <2>1, SubSeqProperties
<1>5. /\ b \in Seq(Bytes)
      /\ Len(b) = IF Len(s) + 1 <= Len(c) THEN Len(c) - (Len(s) + 1) + 1 ELSE 0
      /\ \A i \in 1 .. Len(c) - (Len(s) + 1) + 1 : b[i] = c[Len(s) + 1 + i - 1]
  <2>1. Len(s) + 1 \in Int /\ Len(c) \in Int /\ \A i \in Len(s) + 1 .. Len(c) : c[i] \in Bytes
    BY <1>1, <1>2, <1>3
  <2> QED
    BY <2>1, SubSeqProperties
<1> HIDE DEF a, b
<1>6. Len(a) = Len(s) /\ \A i \in 1 .. Len(a) : a[i] = s[i]
  BY <1>1, <1>2, <1>4
<1>7. Len(b) = Len(t) /\ \A i \in 1 .. Len(b) : b[i] = t[i]
  <2>1. Len(c) - (Len(s) + 1) + 1 = Len(t) /\ Len(b) = Len(t)
    BY <1>1, <1>2, <1>5
  <2> SUFFICES ASSUME NEW i \in 1 .. Len(t) PROVE b[i] = t[i]
    BY <2>1
  <2>2. Len(s) + 1 + i - 1 = Len(s) + i /\ Len(s) + i \in 1 .. Len(s) + Len(t)
        /\ ~(Len(s) + i <= Len(s)) /\ Len(s) + i - Len(s) = i
    BY <1>2
  <2> QED
    BY <1>1, <1>5, <2>1, <2>2
<1>8. a = s /\ b = t
  BY <1>4, <1>5, <1>6, <1>7, SeqEqual
<1> QED
  BY <1>8 DEF a, b, c

\* What the callers see, in terms of the bytes.
LEMMA Seen ==
  ASSUME IInv
  PROVE  /\ data \in [Slots -> Bytes] /\ tail \in Slots /\ count \in 0 .. Capacity
         /\ Held = Window(data, tail, count)
         /\ holder = "write" => done \in 0 .. count /\ Contents = Window(data, tail, count - done)
         /\ holder = "read" => Contents = out \o Window(data, tail, count)
         /\ holder = "none" => Contents = Window(data, tail, count)
<1>1. data \in [Slots -> Bytes] /\ tail \in Slots /\ count \in 0 .. Capacity
  BY DEF IInv, TypeOK
<1>2. Held = Window(data, tail, count)
  BY DEF Held, Window
<1>3. holder = "write" => done \in 0 .. count /\ count - done \in 0 .. count
  BY <1>1, RingAssumption DEF IInv, TypeOK, Writing
<1>4. holder = "write" => Contents = Window(data, tail, count - done)
  BY <1>1, <1>2, <1>3, WindowPrefix DEF Contents
<1> QED
  BY <1>1, <1>2, <1>3, <1>4 DEF Contents

LEMMA SeenNext ==
  ASSUME IInv'
  PROVE  /\ data' \in [Slots -> Bytes] /\ tail' \in Slots /\ count' \in 0 .. Capacity
         /\ Held' = Window(data', tail', count')
         /\ holder' = "write" => done' \in 0 .. count' /\ Contents' = Window(data', tail', count' - done')
         /\ holder' = "read" => Contents' = out' \o Window(data', tail', count')
         /\ holder' = "none" => Contents' = Window(data', tail', count')
<1>1. data' \in [Slots -> Bytes] /\ tail' \in Slots /\ count' \in 0 .. Capacity
  BY DEF IInv, TypeOK, Slots
<1>2. Held' = Window(data', tail', count')
  BY DEF Held, Window
<1>3. holder' = "write" => done' \in 0 .. count' /\ count' - done' \in 0 .. count'
  <2> SUFFICES ASSUME holder' = "write" PROVE done' \in 0 .. count' /\ count' - done' \in 0 .. count'
    OBVIOUS
  <2>1. done' \in 0 .. len' /\ len' \in Nat
    BY DEF IInv, TypeOK
  <2>2. done' <= count'
    BY DEF IInv, Writing
  <2>3. count' \in Nat /\ done' \in Nat
    BY <1>1, <2>1, RingAssumption
  <2>4. \A c, d \in Nat : d <= c => d \in 0 .. c /\ c - d \in 0 .. c
    OBVIOUS
  <2> QED
    BY <2>2, <2>3, <2>4, Zenon
<1>4. holder' = "write" => Contents' = Window(data', tail', count' - done')
  BY <1>1, <1>2, <1>3, WindowPrefix DEF Contents
<1> QED
  BY <1>1, <1>2, <1>3, <1>4 DEF Contents

LEMMA WriteByteUnseen ==
  ASSUME IInv, IInv', WriteByte
  PROVE  Contents' = Contents
<1> DEFINE n == count - done
<1>1. /\ tail' = tail /\ count' - done' = n /\ count \in 0 .. Capacity - 1
      /\ n \in 0 .. count /\ holder = "write" /\ holder' = "write" /\ head \in Slots
  BY RingAssumption DEF IInv, WriteByte, TypeOK, Writing
<1>2. /\ data \in [Slots -> Bytes] /\ data' \in [Slots -> Bytes] /\ tail \in Slots
      /\ Contents = Window(data, tail, n) /\ Contents' = Window(data', tail, n)
  BY <1>1, Seen, SeenNext
<1> HIDE DEF n
<1>3. ASSUME NEW i \in 1 .. n PROVE data'[Ahead(tail, i - 1)] = data[Ahead(tail, i - 1)]
  <2>1. i - 1 \in 0 .. Capacity - 1 /\ i - 1 # count
    BY <1>1, RingAssumption
  <2>2. Ahead(tail, i - 1) # head
    BY <1>1, <1>2, <2>1, Apart DEF IInv, Ends
  <2> QED
    BY <1>1, <1>2, <2>1, <2>2, Wraps DEF WriteByte
<1> QED
  BY <1>1, <1>2, <1>3, SameWindow, RingAssumption

LEMMA ReadByteUnseen ==
  ASSUME IInv, IInv', ReadByte
  PROVE  Contents' = Contents
<1> DEFINE b == data[tail]
           v == Window(data, After(tail), count - 1)
<1>1. /\ data \in [Slots -> Bytes] /\ tail \in Slots /\ count \in 1 .. Capacity
      /\ count - 1 \in 0 .. Capacity /\ out \in Seq(Bytes)
  BY RingAssumption DEF IInv, ReadByte, TypeOK
<1>2. Contents = out \o Window(data, tail, count)
  BY Seen DEF ReadByte
<1>3. Contents' = Append(out, b) \o v
  BY SeenNext DEF ReadByte
<1>4. b \in Bytes /\ Window(data, tail, count) = <<b>> \o v
  BY <1>1, WindowFirst
<1>5. v \in Seq(Bytes)
  <2>1. After(tail) \in Slots
    BY <1>1, RingAssumption, OneMore
  <2> QED
    BY <1>1, <2>1, WindowIs
<1> HIDE DEF b, v
<1>6. Append(out, b) = out \o <<b>> /\ <<b>> \in Seq(Bytes)
  BY <1>1, <1>4, AppendIsConcat
<1>7. (out \o <<b>>) \o v = out \o (<<b>> \o v)
  BY <1>1, <1>5, <1>6, ConcatAssociative
<1> QED
  BY <1>2, <1>3, <1>4, <1>6, <1>7

LEMMA ReadEndsIsRead ==
  ASSUME IInv, IInv', ReadEnds
  PROVE  \E n \in 1 .. MaxLen : Fifo!Read(n)
<1> DEFINE w == Window(data, tail, count)
<1>1. /\ holder = "read" /\ holder' = "none" /\ got' = out /\ wrote' = 0 /\ overruns' = overruns
      /\ len \in 1 .. MaxLen /\ out \in Seq(Bytes) /\ Len(out) = done /\ done \in 0 .. len
      /\ len \in Nat /\ (done = len \/ count = 0)
      /\ data' = data /\ tail' = tail /\ count' = count
  BY DEF IInv, ReadEnds, Idle, TypeOK, Reading, ring
<1>2. Contents = out \o w /\ Contents' = w
  BY <1>1, Seen, SeenNext
<1>3. w \in Seq(Bytes) /\ Len(w) = count /\ count \in Nat
  BY Seen, WindowIs, RingAssumption
<1> HIDE DEF w
<1>4. Contents \in Seq(Bytes) /\ Len(Contents) = done + count
  BY <1>1, <1>2, <1>3, ConcatProperties
<1>5. Fifo!Least(len, Len(Contents)) = done
  BY <1>1, <1>3, <1>4 DEF Fifo!Least
<1>6. SubSeq(Contents, 1, done) = out /\ SubSeq(Contents, done + 1, Len(Contents)) = w
  BY <1>1, <1>2, <1>3, ConcatSplits
<1>7. Fifo!Read(len)
  BY <1>1, <1>2, <1>5, <1>6 DEF Fifo!Read
<1> QED
  BY <1>1, <1>7

LEMMA WriteEndsIsWrite ==
  ASSUME IInv, IInv', WriteEnds
  PROVE  \E n \in 1 .. MaxLen : \E bytes \in [1 .. n -> Bytes] : Fifo!Write(bytes)
<1> DEFINE n == count - done
           w == Window(data, tail, count)
           v == Window(data, tail, n)
           s == SubSeq(src, 1, done)
           c == v \o s
<1>1. /\ holder = "write" /\ holder' = "none" /\ got' = <<>> /\ wrote' = done
      /\ overruns' = (IF done < len THEN (overruns + 1) % Wrap ELSE overruns)
      /\ len \in 1 .. MaxLen /\ len \in Nat /\ src \in [1 .. len -> Bytes] /\ done \in 0 .. len
      /\ (done = len \/ count = Capacity)
      /\ data' = data /\ tail' = tail /\ count' = count
      /\ count \in 0 .. Capacity /\ done \in 0 .. count /\ n \in 0 .. count
      /\ data \in [Slots -> Bytes] /\ tail \in Slots
      /\ \A i \in 1 .. done : data[Ahead(tail, n + i - 1)] = src[i]
  BY RingAssumption DEF IInv, WriteEnds, Idle, TypeOK, Writing, ring
<1>2. Contents = v /\ Contents' = w
  BY <1>1, Seen, SeenNext
<1>3. /\ w \in Seq(Bytes) /\ Len(w) = count
      /\ \A i \in 1 .. count : w[i] = data[Ahead(tail, i - 1)]
  BY <1>1, WindowIs
<1>4. /\ v \in Seq(Bytes) /\ Len(v) = n
      /\ \A i \in 1 .. n : v[i] = data[Ahead(tail, i - 1)]
  <2>1. n \in 0 .. Capacity
    BY <1>1, RingAssumption
  <2> QED
    BY <1>1, <2>1, WindowIs
<1>5. src \in Seq(Bytes) /\ Len(src) = len
  BY <1>1, SeqDef
<1> HIDE DEF n, w, v
<1>6. s \in Seq(Bytes) /\ Len(s) = done /\ \A i \in 1 .. done : s[i] = src[i]
  <2>1. \A i \in 1 .. done : src[i] \in Bytes
    BY <1>1
  <2>2. /\ s \in Seq(Bytes)
        /\ Len(s) = IF 1 <= done THEN done - 1 + 1 ELSE 0
        /\ \A i \in 1 .. done - 1 + 1 : s[i] = src[1 + i - 1]
    BY <1>1, <2>1, SubSeqProperties
  <2> HIDE DEF s
  <2> QED
    BY <1>1, <2>2
<1> HIDE DEF s
<1>7. /\ c \in Seq(Bytes) /\ Len(c) = n + done
      /\ \A i \in 1 .. n + done : c[i] = IF i <= n THEN v[i] ELSE s[i - n]
  BY <1>4, <1>6, ConcatProperties
<1> HIDE DEF c
<1>8. n + done = count /\ n \in Nat /\ done \in Nat /\ count \in Nat
  BY <1>1, RingAssumption DEF n
<1>9. ASSUME NEW i \in 1 .. count PROVE w[i] = c[i]
  <2>1. CASE i <= n
    <3>1. i \in 1 .. n /\ i \in 1 .. n + done
      BY <1>8, <2>1
    <3> QED
      BY <1>3, <1>4, <1>7, <2>1, <3>1
  <2>2. CASE i > n
    <3>1. i - n \in 1 .. done /\ n + (i - n) - 1 = i - 1
      BY <1>8, <2>2
    <3>2. s[i - n] = data[Ahead(tail, i - 1)]
      BY <1>1, <1>6, <3>1
    <3> QED
      BY <1>3, <1>7, <1>8, <2>2, <3>2
  <2> QED
    BY <1>8, <2>1, <2>2
<1>10. w = c
  <2>1. Len(w) = Len(c) /\ \A i \in 1 .. Len(w) : w[i] = c[i]
    BY <1>3, <1>7, <1>8, <1>9
  <2> QED
    BY <1>3, <1>7, <2>1, SeqEqual
<1>11. Fifo!Least(Len(src), Capacity - Len(Contents)) = done
  BY <1>1, <1>2, <1>4, <1>5, <1>8, RingAssumption DEF Fifo!Least
<1>12. Fifo!Write(src)
  BY <1>1, <1>2, <1>5, <1>10, <1>11 DEF Fifo!Write, s, c
<1> QED
  BY <1>1, <1>12

LEMMA ResetIsReset ==
  ASSUME IInv, IInv', Reset
  PROVE  Fifo!Reset
<1>1. Held' = <<>>
  BY DEF Reset, Held
<1>2. Contents' = <<>>
  BY <1>1 DEF Reset, call, Contents
<1> QED
  BY <1>2 DEF Reset, Fifo!Reset

\* Begun calls are not seen yet.
LEMMA BeginsUnseen ==
  ASSUME IInv, IInv', ring' = ring, holder = "none",
         \/ holder' = "write" /\ done' = 0
         \/ holder' = "read" /\ out' = <<>>
  PROVE  Contents' = Contents
<1> DEFINE w == Window(data, tail, count)
<1>1. Contents = w /\ count \in 0 .. Capacity /\ data' = data /\ tail' = tail /\ count' = count
  BY Seen DEF ring
<1>2. w \in Seq(Bytes)
  BY Seen, WindowIs
<1>3. CASE holder' = "write" /\ done' = 0
  BY <1>1, <1>3, SeenNext, RingAssumption
<1>4. CASE holder' = "read" /\ out' = <<>>
  <2>1. Contents' = <<>> \o w
    BY <1>1, <1>4, SeenNext
  <2> QED
    BY <1>1, <1>2, <2>1, ConcatEmptySeq
<1> QED
  BY <1>3, <1>4

LEMMA FifoStep ==
  ASSUME IInv, IInv', [Next]_vars
  PROVE  [Fifo!Next]_(Fifo!vars)
<1> USE DEF Fifo!vars, results
<1>1. ASSUME NEW n \in 1 .. MaxLen, ReadBegins(n) PROVE UNCHANGED Fifo!vars
  <2>1. out' = <<>>
    BY <1>1 DEF ReadBegins, IInv, Reading
  <2> QED
    BY <1>1, <2>1, BeginsUnseen DEF ReadBegins
<1>2. ASSUME NEW n \in 1 .. MaxLen, NEW bytes \in [1 .. n -> Bytes], WriteBegins(n, bytes)
      PROVE UNCHANGED Fifo!vars
  <2>1. done' = 0
    BY <1>2 DEF WriteBegins, IInv, Resting
  <2> QED
    BY <1>2, <2>1, BeginsUnseen DEF WriteBegins
<1>3. CASE WriteByte
  BY <1>3, WriteByteUnseen DEF WriteByte
<1>4. CASE ReadByte
  BY <1>4, ReadByteUnseen DEF ReadByte
<1>5. CASE WriteEnds
  BY <1>5, WriteEndsIsWrite DEF Fifo!Next
<1>6. CASE ReadEnds
  BY <1>6, ReadEndsIsRead DEF Fifo!Next
<1>7. CASE Reset
  BY <1>7, ResetIsReset DEF Fifo!Next
<1>8. CASE UNCHANGED vars
  BY <1>8 DEF vars, ring, call, Contents, Held
<1> QED
  BY <1>1, <1>2, <1>3, <1>4, <1>5, <1>6, <1>7, <1>8 DEF Next

\* Call by call, the ring is a bounded queue.
THEOREM RingIsFifo == Spec => IsFifo
<1>1. Init => Fifo!Init
  BY DEF Init, Fifo!Init, Contents, Held
<1>2. IInv /\ IInv' /\ [Next]_vars => [Fifo!Next]_(Fifo!vars)
  BY FifoStep
<1> QED
  BY <1>1, <1>2, IInvInit, IInvKept, PTL DEF Spec, IsFifo, Fifo!Spec
=============================================================================
