--------------------------- MODULE RecFlowProofs ----------------------------
(***************************************************************************)
(* A recording, for every number of presses and every length of the        *)
(* queues: the types, and, as long as no call fails and no command is      *)
(* served twice, what the button, the state machine, the worker and the    *)
(* tasks of the audio path owe one another.  From that it follows that a   *)
(* press gives one job, that CONFIRM speaks the truth, that the sync task  *)
(* and the microphone are never on together, that no late event ends a     *)
(* state, that every press is heard, and that what is heard is saved.  The *)
(* loop's queue, whatever fails, grows by nothing but presses.             *)
(***************************************************************************)
EXTENDS RecFlow, SequencesExt, SequenceTheorems, FiniteSetTheorems, TLAPS

(* Sequences. *)

\* No element of A comes before one of B.
Never(s, A, B) == \A i, j \in DOMAIN s : i < j => ~(s[i] \in A /\ s[j] \in B)

\* The elements after something has been posted.
LEMMA Posted ==
  ASSUME NEW S, NEW s \in Seq(S), NEW x \in S
  PROVE  /\ Append(s, x) \in Seq(S)
         /\ Append(s, x) # <<>>
         /\ Len(Append(s, x)) = Len(s) + 1
         /\ ToSet(Append(s, x)) = ToSet(s) \cup {x}
<1>1. /\ Len(s) \in Nat /\ DOMAIN s = 1 .. Len(s)
      /\ Append(s, x) \in Seq(S) /\ Len(Append(s, x)) = Len(s) + 1
      /\ DOMAIN Append(s, x) = 1 .. Len(s) + 1
  BY LenProperties
<1>2. /\ \A i \in 1 .. Len(s) : Append(s, x)[i] = s[i]
      /\ Append(s, x)[Len(s) + 1] = x
  OBVIOUS
<1>3. DOMAIN Append(s, x) = DOMAIN s \cup {Len(s) + 1}
  BY <1>1
<1>4. ToSet(Append(s, x)) = ToSet(s) \cup {x}
  BY <1>1, <1>2, <1>3 DEF ToSet
<1>5. Append(s, x) # <<>>
  BY <1>1, <1>3
<1> QED
  BY <1>1, <1>4, <1>5

\* The elements after the first has been taken.
LEMMA Taken ==
  ASSUME NEW S, NEW s \in Seq(S), s # <<>>
  PROVE  /\ Head(s) \in S /\ Head(s) \in ToSet(s)
         /\ Tail(s) \in Seq(S)
         /\ Len(s) \in Nat \ {0} /\ Len(Tail(s)) = Len(s) - 1
         /\ ToSet(s) = {Head(s)} \cup ToSet(Tail(s))
         /\ DOMAIN s = 1 .. Len(s) /\ DOMAIN Tail(s) = 1 .. Len(s) - 1
         /\ s[1] = Head(s)
         /\ \A i \in 1 .. Len(s) - 1 : Tail(s)[i] = s[i + 1]
<1>1. /\ Len(s) \in Nat \ {0} /\ DOMAIN s = 1 .. Len(s)
      /\ Head(s) \in S /\ Tail(s) \in Seq(S) /\ Len(Tail(s)) = Len(s) - 1
      /\ \A i \in 1 .. Len(s) - 1 : Tail(s)[i] = s[i + 1]
  BY LenProperties, EmptySeq, HeadTailProperties
<1>2. DOMAIN Tail(s) = 1 .. Len(s) - 1
  BY <1>1, LenProperties
<1>3. Head(s) = s[1]
  OBVIOUS
<1>4. \A i \in 1 .. Len(s) : i = 1 \/ i - 1 \in 1 .. Len(s) - 1
  BY <1>1
<1>5. ToSet(s) = {Head(s)} \cup ToSet(Tail(s))
  <2>1. ASSUME NEW y \in ToSet(s) PROVE y = Head(s) \/ y \in ToSet(Tail(s))
    <3>1. PICK i \in 1 .. Len(s) : y = s[i]
      BY <2>1, <1>1 DEF ToSet
    <3>2. CASE i = 1
      BY <3>1, <3>2, <1>3
    <3>3. CASE i - 1 \in 1 .. Len(s) - 1
      <4>1. Tail(s)[i - 1] = s[(i - 1) + 1] /\ (i - 1) + 1 = i
        BY <1>1, <3>1, <3>3
      <4> QED
        BY <4>1, <3>1, <3>3, <1>2 DEF ToSet
    <3> QED
      BY <3>1, <3>2, <3>3, <1>4
  <2>2. ASSUME NEW y \in ToSet(Tail(s)) PROVE y \in ToSet(s)
    <3>1. PICK i \in 1 .. Len(s) - 1 : y = Tail(s)[i]
      BY <2>2, <1>2 DEF ToSet
    <3>2. i + 1 \in DOMAIN s /\ y = s[i + 1]
      BY <3>1, <1>1
    <3> QED
      BY <3>2 DEF ToSet
  <2>3. Head(s) \in ToSet(s)
    BY <1>1, <1>3 DEF ToSet
  <2> QED
    BY <2>1, <2>2, <2>3
<1> QED
  BY <1>1, <1>2, <1>3, <1>5

\* What order remains when something is posted or the first is taken.
LEMMA PostedNever ==
  ASSUME NEW S, NEW s \in Seq(S), NEW x \in S, NEW A, NEW B,
         Never(s, A, B), x \in B => ToSet(s) \cap A = {}
  PROVE  Never(Append(s, x), A, B)
<1>1. /\ Len(s) \in Nat /\ DOMAIN s = 1 .. Len(s)
      /\ DOMAIN Append(s, x) = 1 .. Len(s) + 1
  BY LenProperties
<1>2. /\ \A i \in 1 .. Len(s) : Append(s, x)[i] = s[i]
      /\ Append(s, x)[Len(s) + 1] = x
  OBVIOUS
<1>3. SUFFICES ASSUME NEW i \in 1 .. Len(s) + 1, NEW j \in 1 .. Len(s) + 1, i < j,
                      Append(s, x)[i] \in A, Append(s, x)[j] \in B
               PROVE  FALSE
  BY <1>1 DEF Never
<1>4. i \in 1 .. Len(s) /\ s[i] \in A /\ s[i] \in ToSet(s)
  BY <1>1, <1>2, <1>3 DEF ToSet
<1>5. CASE j \in 1 .. Len(s)
  BY <1>1, <1>2, <1>3, <1>4, <1>5 DEF Never
<1>6. CASE j = Len(s) + 1
  BY <1>2, <1>3, <1>4, <1>6
<1> QED
  BY <1>1, <1>5, <1>6

\* Taking the first keeps the order, and of what the first forbids none follows.
LEMMA TakenNever ==
  ASSUME NEW S, NEW s \in Seq(S), s # <<>>, NEW A, NEW B, Never(s, A, B)
  PROVE  /\ Never(Tail(s), A, B)
         /\ Head(s) \in A => ToSet(Tail(s)) \cap B = {}
<1>1. /\ Len(s) \in Nat \ {0}
      /\ DOMAIN s = 1 .. Len(s) /\ DOMAIN Tail(s) = 1 .. Len(s) - 1
      /\ s[1] = Head(s)
      /\ \A i \in 1 .. Len(s) - 1 : Tail(s)[i] = s[i + 1]
  BY Taken
<1>2. Never(Tail(s), A, B)
  <2>1. SUFFICES ASSUME NEW i \in 1 .. Len(s) - 1, NEW j \in 1 .. Len(s) - 1, i < j,
                        Tail(s)[i] \in A, Tail(s)[j] \in B
                 PROVE  FALSE
    BY <1>1 DEF Never
  <2>2. i + 1 \in DOMAIN s /\ j + 1 \in DOMAIN s /\ i + 1 < j + 1
    BY <1>1, <2>1
  <2>3. s[i + 1] \in A /\ s[j + 1] \in B
    BY <1>1, <2>1
  <2> QED
    BY <2>2, <2>3 DEF Never
<1>3. ASSUME Head(s) \in A, NEW y \in ToSet(Tail(s)), y \in B PROVE FALSE
  <2>1. PICK j \in 1 .. Len(s) - 1 : y = Tail(s)[j]
    BY <1>1, <1>3 DEF ToSet
  <2>2. 1 \in DOMAIN s /\ j + 1 \in DOMAIN s /\ 1 < j + 1
    BY <1>1, <2>1
  <2>3. s[j + 1] \in B /\ s[1] \in A
    BY <1>1, <1>3, <2>1
  <2> QED
    BY <2>2, <2>3 DEF Never
<1> QED
  BY <1>2, <1>3

\* How many elements lie in A.
Tally(s, A) == Cardinality({i \in DOMAIN s : s[i] \in A})

\* They are finitely many.
LEMMA TallyType ==
  ASSUME NEW S, NEW s \in Seq(S), NEW A
  PROVE  /\ IsFiniteSet({i \in DOMAIN s : s[i] \in A})
         /\ Tally(s, A) \in Nat
<1>1. Len(s) \in Nat /\ DOMAIN s = 1 .. Len(s)
  BY LenProperties
<1>2. IsFiniteSet(1 .. Len(s))
  BY <1>1, FS_Interval
<1>3. {i \in DOMAIN s : s[i] \in A} \in SUBSET (1 .. Len(s))
  BY <1>1
<1>4. IsFiniteSet({i \in DOMAIN s : s[i] \in A})
  BY <1>2, <1>3, FS_Subset
<1> QED
  BY <1>4, FS_CardinalityType DEF Tally

\* An element that is posted counts for itself.
LEMMA TallyPosted ==
  ASSUME NEW S, NEW s \in Seq(S), NEW e \in S, NEW A
  PROVE  Tally(Append(s, e), A) = Tally(s, A) + (IF e \in A THEN 1 ELSE 0)
<1>1. /\ Len(s) \in Nat /\ DOMAIN s = 1 .. Len(s)
      /\ DOMAIN Append(s, e) = 1 .. Len(s) + 1
  BY LenProperties
<1>2. /\ \A i \in 1 .. Len(s) : Append(s, e)[i] = s[i]
      /\ Append(s, e)[Len(s) + 1] = e
  OBVIOUS
<1> DEFINE T == {i \in DOMAIN s : s[i] \in A}
<1>3. IsFiniteSet(T) /\ Cardinality(T) = Tally(s, A)
  BY TallyType DEF Tally
<1>4. DOMAIN Append(s, e) = DOMAIN s \cup {Len(s) + 1} /\ Len(s) + 1 \notin DOMAIN s
  BY <1>1
<1>5. CASE e \in A
  <2>1. {i \in DOMAIN Append(s, e) : Append(s, e)[i] \in A} = T \cup {Len(s) + 1}
    BY <1>1, <1>2, <1>4, <1>5
  <2>2. Cardinality(T \cup {Len(s) + 1}) = Cardinality(T) + 1
    <3>1. Len(s) + 1 \notin T
      BY <1>4
    <3> HIDE DEF T
    <3> QED
      BY <1>3, <3>1, FS_AddElement
  <2> QED
    BY <1>3, <1>5, <2>1, <2>2 DEF Tally
<1>6. CASE e \notin A
  <2>1. {i \in DOMAIN Append(s, e) : Append(s, e)[i] \in A} = T
    BY <1>1, <1>2, <1>4, <1>6
  <2>2. Tally(s, A) \in Nat
    BY TallyType
  <2>3. Tally(Append(s, e), A) = Tally(s, A)
    BY <2>1, Zenon DEF Tally
  <2> QED
    BY <1>6, <2>2, <2>3
<1> QED
  BY <1>5, <1>6

\* The first that is taken no longer counts.
LEMMA TallyTaken ==
  ASSUME NEW S, NEW s \in Seq(S), s # <<>>, NEW A
  PROVE  Tally(s, A) = Tally(Tail(s), A) + (IF Head(s) \in A THEN 1 ELSE 0)
<1>1. /\ Len(s) \in Nat \ {0} /\ Tail(s) \in Seq(S)
      /\ DOMAIN s = 1 .. Len(s) /\ DOMAIN Tail(s) = 1 .. Len(s) - 1
      /\ s[1] = Head(s)
      /\ \A i \in 1 .. Len(s) - 1 : Tail(s)[i] = s[i + 1]
  BY Taken
<1> DEFINE T == {i \in DOMAIN Tail(s) : Tail(s)[i] \in A}
           U == {i \in DOMAIN s : i # 1 /\ s[i] \in A}
           f == [i \in T |-> i + 1]
<1>2. IsFiniteSet(T) /\ Cardinality(T) = Tally(Tail(s), A) /\ Tally(Tail(s), A) \in Nat
  BY <1>1, TallyType DEF Tally
<1>3. f \in Bijection(T, U)
  <2>1. \A i \in T : i \in 1 .. Len(s) - 1 /\ s[i + 1] \in A
    BY <1>1
  <2>2. \A i \in T : i + 1 \in U
    BY <1>1, <2>1
  <2>3. ASSUME NEW j \in U PROVE j - 1 \in T /\ (j - 1) + 1 = j
    <3>1. j - 1 \in 1 .. Len(s) - 1 /\ (j - 1) + 1 = j /\ s[j] \in A
      BY <1>1
    <3>2. Tail(s)[j - 1] = s[(j - 1) + 1]
      BY <1>1, <3>1
    <3> QED
      BY <1>1, <3>1, <3>2
  <2>4. \A i, j \in T : i + 1 = j + 1 => i = j
    BY <2>1
  <2> HIDE DEF T, U
  <2>5. f \in [T -> U]
    BY <2>2
  <2>6. f \in Injection(T, U)
    BY <2>4, <2>5 DEF Injection, IsInjective
  <2>7. f \in Surjection(T, U)
    BY <2>3, <2>5 DEF Surjection
  <2> QED
    BY <2>6, <2>7 DEF Bijection
<1>4. IsFiniteSet(U) /\ Cardinality(U) = Cardinality(T)
  <2> HIDE DEF T, U, f
  <2> QED
    BY <1>2, <1>3, FS_Bijection DEF ExistsBijection
<1>5. CASE Head(s) \in A
  <2>1. {i \in DOMAIN s : s[i] \in A} = U \cup {1} /\ 1 \notin U
    BY <1>1, <1>5
  <2> HIDE DEF U, T
  <2>2. Cardinality(U \cup {1}) = Cardinality(U) + 1
    BY <1>4, <2>1, FS_AddElement
  <2> QED
    BY <1>2, <1>4, <1>5, <2>1, <2>2 DEF Tally
<1>6. CASE Head(s) \notin A
  <2>1. {i \in DOMAIN s : s[i] \in A} = U
    BY <1>1, <1>6
  <2>2. Tally(s, A) = Tally(Tail(s), A)
    BY <1>2, <1>4, <2>1, Zenon DEF Tally
  <2> QED
    BY <1>2, <1>6, <2>2
<1> QED
  BY <1>5, <1>6

\* The same for the elements that are x.
LEMMA CountIsTally == \A s, x : Count(s, x) = Tally(s, {x})
<1>1. \A s, x : {i \in DOMAIN s : s[i] = x} = {i \in DOMAIN s : s[i] \in {x}}
  OBVIOUS
<1> QED
  BY <1>1, Zenon DEF Count, Tally

\* How many there are.
LEMMA CountType ==
  ASSUME NEW S, NEW s \in Seq(S), NEW x
  PROVE  Count(s, x) \in Nat
  BY TallyType, CountIsTally

\* One more that is posted.
LEMMA CountPosted ==
  ASSUME NEW S, NEW s \in Seq(S), NEW e \in S, NEW x
  PROVE  Count(Append(s, e), x) = Count(s, x) + (IF e = x THEN 1 ELSE 0)
<1>1. Tally(Append(s, e), {x}) = Tally(s, {x}) + (IF e \in {x} THEN 1 ELSE 0)
  BY TallyPosted
<1> QED
  BY <1>1, CountIsTally

\* One less when it is taken.
LEMMA CountTaken ==
  ASSUME NEW S, NEW s \in Seq(S), s # <<>>, NEW x
  PROVE  Count(s, x) = Count(Tail(s), x) + (IF Head(s) = x THEN 1 ELSE 0)
<1>1. Tally(s, {x}) = Tally(Tail(s), {x}) + (IF Head(s) \in {x} THEN 1 ELSE 0)
  BY TallyTaken
<1> QED
  BY <1>1, CountIsTally

\* There is none exactly if it is not among the elements.
LEMMA CountNone ==
  ASSUME NEW S, NEW s \in Seq(S), NEW x
  PROVE  Count(s, x) = 0 <=> x \notin ToSet(s)
<1> DEFINE T == {i \in DOMAIN s : s[i] \in {x}}
<1>1. IsFiniteSet(T)
  BY TallyType
<1>2. T = {} <=> x \notin ToSet(s)
  BY DEF ToSet
<1> HIDE DEF T
<1>3. Cardinality(T) = 0 <=> T = {}
  BY <1>1, FS_EmptySet
<1> QED
  BY <1>2, <1>3, CountIsTally DEF Tally, T

\* Nothing in the empty sequence.
LEMMA CountEmpty == \A x : Count(<<>>, x) = 0
<1>1. <<>> \in Seq({0}) /\ Len(<<>>) = 0
  BY EmptySeq
<1>2. DOMAIN <<>> = {}
  BY <1>1, LenProperties
<1>3. ToSet(<<>>) = {}
  BY <1>2 DEF ToSet
<1> QED
  BY <1>1, <1>3, CountNone

\* Concatenation with one element or none.
LEMMA OneMore ==
  ASSUME NEW S, NEW s \in Seq(S), NEW x \in S
  PROVE  s \o <<x>> = Append(s, x) /\ s \o <<>> = s
<1>1. s \o <<>> = s
  BY ConcatEmptySeq
<1>2. s \o <<x>> = Append(s, x)
  OBVIOUS
<1> QED
  BY <1>1, <1>2

-----------------------------------------------------------------------------
(* What the worker and the button's task have left to do, by name. *)

worker == todo["worker"]
tap == todo["button"]

\* handle_recording, from call to call.
ToPrepare == <<"prepare", "check", "open", "checkOpen", "capture", "checkCapture">>
ToCheck == <<"check", "open", "checkOpen", "capture", "checkCapture">>
ToOpen == <<"open", "checkOpen", "capture", "checkCapture">>
ToSpawn == <<"spawn", "checkOpen", "capture", "checkCapture">>
ToCheckOpen == <<"checkOpen", "capture", "checkCapture">>
ToCapture == <<"capture", "checkCapture">>
ToRun == <<"run", "checkCapture">>
ToCheckCapture == <<"checkCapture">>

\* What a tap makes the worker undo.
UndoOpen == <<"abort", "stop">>
UndoOpenWait == <<"aborted", "stop">>
UndoStop == <<"stop">>
UndoStopWait == <<"stopped">>
UndoCapture == <<"stop", "abort">>
UndoCaptureWait == <<"stopped", "abort">>
UndoAbort == <<"abort">>
UndoAbortWait == <<"aborted">>

\* handle_finalizing, and what follows a failure of either.
ToStop == <<"stop", "finalize", "enqueue">>
Stopping == <<"stopped", "finalize", "enqueue">>
ToFinalize == <<"finalize", "enqueue">>
Finalizing == <<"finalized", "enqueue">>
ToEnqueue == <<"enqueue">>
ToGiveUp == <<"abort", "error">>
GivingUp == <<"aborted", "error">>
ToFail == <<"error">>

\* A tap.
TapStop == <<"stop", "abort", "discard">>
TapStopWait == <<"stopped", "abort", "discard">>
TapAbort == <<"abort", "discard">>
TapAbortWait == <<"aborted", "discard">>
TapDone == <<"discard">>

Begins == {ToCheck, ToOpen, ToSpawn, ToCheckOpen, ToCapture, ToRun, ToCheckCapture}
Undoes == {UndoOpen, UndoOpenWait, UndoStop, UndoStopWait, UndoCapture, UndoCaptureWait, UndoAbort,
           UndoAbortWait}
Ends == {ToStop, Stopping, ToFinalize, Finalizing, ToEnqueue, ToGiveUp, GivingUp, ToFail}
Taps == {TapStop, TapStopWait, TapAbort, TapAbortWait, TapDone}

WorkerStages == {<<>>, ToPrepare} \cup Begins \cup Undoes \cup Ends
TapStages == {<<>>} \cup Taps

\* A stage is a sequence of calls.
LEMMA StagesAreCalls ==
  ASSUME NEW s \in WorkerStages \cup TapStages
  PROVE  s \in Seq(Calls)
<1> USE DEF Calls
<1>1. /\ ToPrepare \in Seq(Calls) /\ ToCheck \in Seq(Calls) /\ ToOpen \in Seq(Calls)
      /\ ToSpawn \in Seq(Calls) /\ ToCheckOpen \in Seq(Calls) /\ ToCapture \in Seq(Calls)
      /\ ToRun \in Seq(Calls) /\ ToCheckCapture \in Seq(Calls)
  BY DEF ToPrepare, ToCheck, ToOpen, ToSpawn, ToCheckOpen, ToCapture, ToRun, ToCheckCapture
<1>2. /\ UndoOpen \in Seq(Calls) /\ UndoOpenWait \in Seq(Calls) /\ UndoStop \in Seq(Calls)
      /\ UndoStopWait \in Seq(Calls) /\ UndoCapture \in Seq(Calls)
      /\ UndoCaptureWait \in Seq(Calls) /\ UndoAbort \in Seq(Calls)
      /\ UndoAbortWait \in Seq(Calls)
  BY DEF UndoOpen, UndoOpenWait, UndoStop, UndoStopWait, UndoCapture, UndoCaptureWait,
    UndoAbort, UndoAbortWait
<1>3. /\ ToStop \in Seq(Calls) /\ Stopping \in Seq(Calls) /\ ToFinalize \in Seq(Calls)
      /\ Finalizing \in Seq(Calls) /\ ToEnqueue \in Seq(Calls) /\ ToGiveUp \in Seq(Calls)
      /\ GivingUp \in Seq(Calls) /\ ToFail \in Seq(Calls)
  BY DEF ToStop, Stopping, ToFinalize, Finalizing, ToEnqueue, ToGiveUp, GivingUp, ToFail
<1>4. /\ TapStop \in Seq(Calls) /\ TapStopWait \in Seq(Calls) /\ TapAbort \in Seq(Calls)
      /\ TapAbortWait \in Seq(Calls) /\ TapDone \in Seq(Calls)
  BY DEF TapStop, TapStopWait, TapAbort, TapAbortWait, TapDone
<1>5. <<>> \in Seq(Calls)
  OBVIOUS
<1> QED
  BY <1>1, <1>2, <1>3, <1>4, <1>5, Zenon DEF WorkerStages, TapStages, Begins, Undoes, Ends, Taps

\* The groups of stages have nothing in common.
LEMMA StagesApart ==
  /\ <<>> \notin {ToPrepare} \cup Begins \cup Undoes \cup Ends \cup Taps
  /\ ToPrepare \notin Begins \cup Undoes \cup Ends
  /\ Begins \cap Undoes = {} /\ Begins \cap Ends = {} /\ Undoes \cap Ends = {}
  BY SMTT(60) DEF Begins, ToPrepare, ToCheck, ToOpen, ToSpawn, ToCheckOpen, ToCapture, ToRun,
    ToCheckCapture, Undoes, UndoOpen, UndoOpenWait, UndoStop, UndoStopWait, UndoCapture,
    UndoCaptureWait, UndoAbort, UndoAbortWait, Ends, ToStop, Stopping, ToFinalize, Finalizing,
    ToEnqueue, ToGiveUp, GivingUp, ToFail, Taps, TapStop, TapStopWait, TapAbort, TapAbortWait, TapDone

\* The stage that a worker or a tap is in shows in the call it is at.
LEMMA WorkerAt ==
  ASSUME NEW s \in WorkerStages, s # <<>>
  PROVE  /\ Head(s) = "prepare" => s = ToPrepare
         /\ Head(s) = "check" => s = ToCheck
         /\ Head(s) = "open" => s = ToOpen
         /\ Head(s) = "spawn" => s = ToSpawn
         /\ Head(s) = "checkOpen" => s = ToCheckOpen
         /\ Head(s) = "capture" => s = ToCapture
         /\ Head(s) = "run" => s = ToRun
         /\ Head(s) = "checkCapture" => s = ToCheckCapture
         /\ Head(s) = "stop" => s \in {UndoStop, UndoCapture, ToStop}
         /\ Head(s) = "stopped" => s \in {UndoStopWait, UndoCaptureWait, Stopping}
         /\ Head(s) = "finalize" => s = ToFinalize
         /\ Head(s) = "finalized" => s = Finalizing
         /\ Head(s) = "enqueue" => s = ToEnqueue
         /\ Head(s) = "abort" => s \in {UndoOpen, UndoAbort, ToGiveUp}
         /\ Head(s) = "aborted" => s \in {UndoOpenWait, UndoAbortWait, GivingUp}
         /\ Head(s) = "error" => s = ToFail
<1>1. /\ Head(ToPrepare) = "prepare" /\ Head(ToCheck) = "check" /\ Head(ToOpen) = "open"
      /\ Head(ToSpawn) = "spawn" /\ Head(ToCheckOpen) = "checkOpen" /\ Head(ToCapture) = "capture"
      /\ Head(ToRun) = "run" /\ Head(ToCheckCapture) = "checkCapture"
  BY DEF ToPrepare, ToCheck, ToOpen, ToSpawn, ToCheckOpen, ToCapture, ToRun, ToCheckCapture
<1>2. /\ Head(UndoOpen) = "abort" /\ Head(UndoOpenWait) = "aborted"
      /\ Head(UndoStop) = "stop" /\ Head(UndoStopWait) = "stopped"
      /\ Head(UndoCapture) = "stop" /\ Head(UndoCaptureWait) = "stopped"
      /\ Head(UndoAbort) = "abort" /\ Head(UndoAbortWait) = "aborted"
  BY DEF UndoOpen, UndoOpenWait, UndoStop, UndoStopWait, UndoCapture, UndoCaptureWait, UndoAbort,
    UndoAbortWait
<1>3. /\ Head(ToStop) = "stop" /\ Head(Stopping) = "stopped" /\ Head(ToFinalize) = "finalize"
      /\ Head(Finalizing) = "finalized" /\ Head(ToEnqueue) = "enqueue" /\ Head(ToGiveUp) = "abort"
      /\ Head(GivingUp) = "aborted" /\ Head(ToFail) = "error"
  BY DEF ToStop, Stopping, ToFinalize, Finalizing, ToEnqueue, ToGiveUp, GivingUp, ToFail
<1>4. CASE s \in {ToPrepare} \cup Begins
  BY <1>1, <1>4 DEF Begins
<1>5. CASE s \in Undoes
  BY <1>2, <1>5 DEF Undoes
<1>6. CASE s \in Ends
  BY <1>3, <1>6 DEF Ends
<1> QED
  BY <1>4, <1>5, <1>6 DEF WorkerStages

\* The call that a tap is at names its stage.
LEMMA TapAt ==
  ASSUME NEW s \in TapStages, s # <<>>
  PROVE  /\ Head(s) = "stop" => s = TapStop
         /\ Head(s) = "stopped" => s = TapStopWait
         /\ Head(s) = "abort" => s = TapAbort
         /\ Head(s) = "aborted" => s = TapAbortWait
         /\ Head(s) = "discard" => s = TapDone
<1>1. /\ Head(TapStop) = "stop" /\ Head(TapStopWait) = "stopped" /\ Head(TapAbort) = "abort"
      /\ Head(TapAbortWait) = "aborted" /\ Head(TapDone) = "discard"
  BY DEF TapStop, TapStopWait, TapAbort, TapAbortWait, TapDone
<1> QED
  BY <1>1 DEF TapStages, Taps

\* What is left when a call returns or goes on, while a recording is begun.
LEMMA BeginAfter ==
  /\ Tail(ToPrepare) = ToCheck /\ Tail(ToCheck) = ToOpen
  /\ [ToOpen EXCEPT ![1] = "spawn"] = ToSpawn /\ Tail(ToSpawn) = ToCheckOpen
  /\ Tail(ToCheckOpen) = ToCapture
  /\ [ToCapture EXCEPT ![1] = "run"] = ToRun /\ Tail(ToCapture) = ToCheckCapture
  /\ Tail(ToRun) = ToCheckCapture /\ Tail(ToCheckCapture) = <<>>
  BY DEF ToPrepare, ToCheck, ToOpen, ToSpawn, ToCheckOpen, ToCapture, ToRun, ToCheckCapture
\* The same while what has been begun is undone.
LEMMA UndoAfter ==
  /\ [UndoOpen EXCEPT ![1] = "aborted"] = UndoOpenWait /\ Tail(UndoOpen) = UndoStop
  /\ Tail(UndoOpenWait) = UndoStop
  /\ [UndoStop EXCEPT ![1] = "stopped"] = UndoStopWait /\ Tail(UndoStop) = <<>>
  /\ Tail(UndoStopWait) = <<>>
  /\ [UndoCapture EXCEPT ![1] = "stopped"] = UndoCaptureWait /\ Tail(UndoCapture) = UndoAbort
  /\ Tail(UndoCaptureWait) = UndoAbort
  /\ [UndoAbort EXCEPT ![1] = "aborted"] = UndoAbortWait /\ Tail(UndoAbort) = <<>>
  /\ Tail(UndoAbortWait) = <<>>
  BY DEF UndoOpen, UndoOpenWait, UndoStop, UndoStopWait, UndoCapture, UndoCaptureWait, UndoAbort,
    UndoAbortWait
\* The same at the end of a recording.
LEMMA EndAfter ==
  /\ [ToStop EXCEPT ![1] = "stopped"] = Stopping /\ Tail(ToStop) = ToFinalize
  /\ Tail(Stopping) = ToFinalize
  /\ [ToFinalize EXCEPT ![1] = "finalized"] = Finalizing /\ Tail(Finalizing) = ToEnqueue
  /\ Tail(ToEnqueue) = <<>>
  /\ [ToGiveUp EXCEPT ![1] = "aborted"] = GivingUp /\ Tail(ToGiveUp) = ToFail
  /\ Tail(GivingUp) = ToFail /\ Tail(ToFail) = <<>>
  BY DEF ToStop, Stopping, ToFinalize, Finalizing, ToEnqueue, ToGiveUp, GivingUp, ToFail
\* The same for a tap.
LEMMA TapAfter ==
  /\ [TapStop EXCEPT ![1] = "stopped"] = TapStopWait /\ Tail(TapStop) = TapAbort
  /\ Tail(TapStopWait) = TapAbort
  /\ [TapAbort EXCEPT ![1] = "aborted"] = TapAbortWait /\ Tail(TapAbort) = TapDone
  /\ Tail(TapAbortWait) = TapDone /\ Tail(TapDone) = <<>>
  BY DEF TapStop, TapStopWait, TapAbort, TapAbortWait, TapDone

-----------------------------------------------------------------------------
(* The calls as moves from stage to stage. *)

Staged ==
  /\ todo \in [Tasks -> Seq(Calls)]
  /\ worker \in WorkerStages
  /\ tap \in TapStages

\* The worker, or the tap, comes from one stage into another.
Moves(from, to) == Go("worker", to) /\ worker = from /\ worker' = to /\ tap' = tap
TapMoves(from, to) == Go("button", to) /\ tap = from /\ tap' = to /\ worker' = worker

\* Where the worker goes, seen from where it is.
LEMMA WorkerGoes == ASSUME Staged PROVE \A x : Go("worker", x) => Moves(worker, x)
  BY DEF Go, Moves, Staged, worker, tap, Tasks
\* Where a tap goes.
LEMMA TapGoes == ASSUME Staged PROVE \A x : Go("button", x) => TapMoves(tap, x)
  BY DEF Go, TapMoves, Staged, worker, tap, Tasks

\* audio_capture_start: on at once, after the codec, or not at all.
LEMMA StartMoves ==
  ASSUME Staged, CaptureStart("worker", GiveUp)
  PROVE  \/ captureRun /\ UNCHANGED <<codec, faults>> /\ Moves(ToCapture, ToCheckCapture)
         \/ ~captureRun /\ codec' = TRUE /\ UNCHANGED faults /\ Moves(ToCapture, ToRun)
         \/ ~captureRun /\ Fault /\ UNCHANGED codec /\ Moves(ToCapture, ToGiveUp)
<1>1. worker = ToCapture
  BY WorkerAt DEF CaptureStart, At, Staged, worker
<1>2. Return("worker") => Moves(ToCapture, ToCheckCapture)
  BY <1>1, WorkerGoes, BeginAfter DEF Return, worker
<1>3. GoOn("worker", "run") => Moves(ToCapture, ToRun)
  BY <1>1, WorkerGoes, BeginAfter DEF GoOn, worker
<1>4. Go("worker", GiveUp) => Moves(ToCapture, ToGiveUp)
  BY <1>1, WorkerGoes DEF GiveUp, ToGiveUp
<1> QED
  BY <1>2, <1>3, <1>4, Zenon DEF CaptureStart, NoFault

\* audio_capture_start, after the codec.
LEMMA RunMoves ==
  ASSUME Staged, CaptureRun("worker")
  PROVE  Moves(ToRun, ToCheckCapture)
<1>1. worker = ToRun
  BY WorkerAt DEF CaptureRun, At, Staged, worker
<1>2. Return("worker")
  BY Zenon DEF CaptureRun
<1> QED
  BY <1>1, <1>2, WorkerGoes, BeginAfter DEF Return, worker

\* audio_capture_stop: nothing to do, or a wait for tk_audio.
LEMMA StopMoves ==
  ASSUME Staged, CaptureStop("worker")
  PROVE  \/ ~captureRun /\ ~capturing /\ codec' = FALSE /\ UNCHANGED captureRun /\ (Moves(UndoStop,
              <<>>) \/ Moves(UndoCapture, UndoAbort) \/ Moves(ToStop, ToFinalize))
         \/ (captureRun \/ capturing) /\ captureRun' = FALSE /\ UNCHANGED codec /\ (Moves(UndoStop,
              UndoStopWait) \/ Moves(UndoCapture, UndoCaptureWait) \/ Moves(ToStop, Stopping))
<1>1. worker \in {UndoStop, UndoCapture, ToStop}
  BY WorkerAt DEF CaptureStop, At, Staged, worker
<1>2. Return("worker") => Moves(UndoStop, <<>>) \/ Moves(UndoCapture, UndoAbort) \/ Moves(ToStop,
          ToFinalize)
  BY <1>1, WorkerGoes, UndoAfter, EndAfter DEF Return, worker
<1>3. GoOn("worker", "stopped") => Moves(UndoStop, UndoStopWait) \/ Moves(UndoCapture,
          UndoCaptureWait) \/ Moves(ToStop, Stopping)
  BY <1>1, WorkerGoes, UndoAfter, EndAfter DEF GoOn, worker
<1> QED
  BY <1>2, <1>3, Zenon DEF CaptureStop

\* audio_capture_stop, after the wait.
LEMMA StoppedMoves ==
  ASSUME Staged, CaptureStopped("worker")
  PROVE  Moves(UndoStopWait, <<>>) \/ Moves(UndoCaptureWait, UndoAbort) \/ Moves(Stopping,
             ToFinalize)
<1>1. worker \in {UndoStopWait, UndoCaptureWait, Stopping}
  BY WorkerAt DEF CaptureStopped, At, Staged, worker
<1>2. Return("worker")
  BY Zenon DEF CaptureStopped
<1> QED
  BY <1>1, <1>2, WorkerGoes, UndoAfter, EndAfter DEF Return, worker

\* wav_writer_session_start: refused, failed or opened.
LEMMA OpenMoves ==
  ASSUME Staged, OpenWav("worker", job, <<"error">>)
  PROVE  \/ (writing \/ file # 0) /\ UNCHANGED <<file, path, wav, faults>> /\ Moves(ToOpen, ToFail)
         \/ ~writing /\ file = 0 /\ Fault /\ path' = 0 /\ UNCHANGED <<file, wav>> /\ Moves(ToOpen,
              ToFail)
         \/ ~writing /\ file = 0 /\ path' = job /\ file' = job
              /\ wav' = [wav EXCEPT ![job] = <<>>] /\ UNCHANGED faults /\ Moves(ToOpen, ToSpawn)
<1>1. worker = ToOpen
  BY WorkerAt DEF OpenWav, At, Staged, worker
<1>2. Go("worker", <<"error">>) => Moves(ToOpen, ToFail)
  BY <1>1, WorkerGoes DEF ToFail
<1>3. GoOn("worker", "spawn") => Moves(ToOpen, ToSpawn)
  BY <1>1, WorkerGoes, BeginAfter DEF GoOn, worker
<1> QED
  BY <1>2, <1>3, Zenon DEF OpenWav, NoFault

\* wav_writer_session_start, when the writer starts.
LEMMA SpawnMoves ==
  ASSUME Staged, SpawnWriter("worker")
  PROVE  Moves(ToSpawn, ToCheckOpen)
<1>1. worker = ToSpawn
  BY WorkerAt DEF SpawnWriter, At, Staged, worker
<1>2. Return("worker")
  BY Zenon DEF SpawnWriter
<1> QED
  BY <1>1, <1>2, WorkerGoes, BeginAfter DEF Return, worker

\* wav_writer_session_finalize: nobody to wait for, or a wait for the writer.
LEMMA FinalizeMoves ==
  ASSUME Staged, Finalize("worker", GiveUp)
  PROVE  \/ ~writing /\ UNCHANGED writerRun /\ Moves(ToFinalize, ToGiveUp)
         \/ writing /\ writerRun' = FALSE /\ Moves(ToFinalize, Finalizing)
<1>1. worker = ToFinalize
  BY WorkerAt DEF Finalize, At, Staged, worker
<1>2. Go("worker", GiveUp) => Moves(ToFinalize, ToGiveUp)
  BY <1>1, WorkerGoes DEF GiveUp, ToGiveUp
<1>3. GoOn("worker", "finalized") => Moves(ToFinalize, Finalizing)
  BY <1>1, WorkerGoes, EndAfter DEF GoOn, worker
<1> QED
  BY <1>2, <1>3, Zenon DEF Finalize

\* wav_writer_session_finalize, after the wait.
LEMMA FinalizedMoves ==
  ASSUME Staged, Finalized("worker", GiveUp)
  PROVE  \/ WriterGone /\ Moves(Finalizing, ToEnqueue)
         \/ WriterTimeout /\ Moves(Finalizing, ToGiveUp)
<1>1. worker = Finalizing
  BY WorkerAt DEF Finalized, At, Staged, worker
<1>2. Return("worker") => Moves(Finalizing, ToEnqueue)
  BY <1>1, WorkerGoes, EndAfter DEF Return, worker
<1>3. Go("worker", GiveUp) => Moves(Finalizing, ToGiveUp)
  BY <1>1, WorkerGoes DEF GiveUp, ToGiveUp
<1> QED
  BY <1>2, <1>3, Zenon DEF Finalized

\* wav_writer_session_abort: a wait for the writer, or the session dropped at once.
LEMMA AbortMoves ==
  ASSUME Staged, Abort("worker")
  PROVE  \/ writing /\ writerRun' = FALSE /\ UNCHANGED <<file, path, wav>> /\ (Moves(UndoOpen,
              UndoOpenWait) \/ Moves(UndoAbort, UndoAbortWait) \/ Moves(ToGiveUp, GivingUp))
         \/ ~writing /\ DropSession("worker") /\ UNCHANGED writerRun /\ (Moves(UndoOpen,
              UndoStop) \/ Moves(UndoAbort, <<>>) \/ Moves(ToGiveUp, ToFail))
<1>1. worker \in {UndoOpen, UndoAbort, ToGiveUp}
  BY WorkerAt DEF Abort, At, Staged, worker
<1>2. GoOn("worker", "aborted") => Moves(UndoOpen, UndoOpenWait) \/ Moves(UndoAbort,
          UndoAbortWait) \/ Moves(ToGiveUp, GivingUp)
  BY <1>1, WorkerGoes, UndoAfter, EndAfter DEF GoOn, worker
<1>3. Return("worker") => Moves(UndoOpen, UndoStop) \/ Moves(UndoAbort, <<>>) \/ Moves(ToGiveUp,
          ToFail)
  BY <1>1, WorkerGoes, UndoAfter, EndAfter DEF Return, worker
<1> QED
  BY <1>2, <1>3, Zenon DEF Abort, DropSession

\* wav_writer_session_abort, after the wait.
LEMMA AbortedMoves ==
  ASSUME Staged, Aborted("worker")
  PROVE  Moves(UndoOpenWait, UndoStop) \/ Moves(UndoAbortWait, <<>>) \/ Moves(GivingUp, ToFail)
<1>1. worker \in {UndoOpenWait, UndoAbortWait, GivingUp}
  BY WorkerAt DEF Aborted, DropSession, At, Staged, worker
<1>2. Return("worker")
  BY Zenon DEF Aborted, DropSession
<1> QED
  BY <1>1, <1>2, WorkerGoes, UndoAfter, EndAfter DEF Return, worker

\* The look at the session after the card has been prepared.
LEMMA CheckMoves ==
  ASSUME Staged, Check("check", <<>>)
  PROVE  \/ Active(mySession) /\ Moves(ToCheck, ToOpen)
         \/ ~Active(mySession) /\ Moves(ToCheck, <<>>)
<1>1. worker = ToCheck
  BY WorkerAt DEF Check, At, Staged, worker
<1>2. Return("worker") => Moves(ToCheck, ToOpen)
  BY <1>1, WorkerGoes, BeginAfter DEF Return, worker
<1>3. Go("worker", <<>>) => Moves(ToCheck, <<>>)
  BY <1>1, WorkerGoes
<1> QED
  BY <1>2, <1>3, Zenon DEF Check

\* The look at the session after the WAV has been opened.
LEMMA CheckOpenMoves ==
  ASSUME Staged, Check("checkOpen", <<"abort", "stop">>)
  PROVE  \/ Active(mySession) /\ Moves(ToCheckOpen, ToCapture)
         \/ ~Active(mySession) /\ Moves(ToCheckOpen, UndoOpen)
<1>1. worker = ToCheckOpen
  BY WorkerAt DEF Check, At, Staged, worker
<1>2. Return("worker") => Moves(ToCheckOpen, ToCapture)
  BY <1>1, WorkerGoes, BeginAfter DEF Return, worker
<1>3. Go("worker", <<"abort", "stop">>) => Moves(ToCheckOpen, UndoOpen)
  BY <1>1, WorkerGoes DEF UndoOpen
<1> QED
  BY <1>2, <1>3, Zenon DEF Check

\* The look at the session after the microphone has been started.
LEMMA CheckCaptureMoves ==
  ASSUME Staged, Check("checkCapture", <<"stop", "abort">>)
  PROVE  \/ Active(mySession) /\ Moves(ToCheckCapture, <<>>)
         \/ ~Active(mySession) /\ Moves(ToCheckCapture, UndoCapture)
<1>1. worker = ToCheckCapture
  BY WorkerAt DEF Check, At, Staged, worker
<1>2. Return("worker") => Moves(ToCheckCapture, <<>>)
  BY <1>1, WorkerGoes, BeginAfter DEF Return, worker
<1>3. Go("worker", <<"stop", "abort">>) => Moves(ToCheckCapture, UndoCapture)
  BY <1>1, WorkerGoes DEF UndoCapture
<1> QED
  BY <1>2, <1>3, Zenon DEF Check

\* The preparation of a capture: failed, not wanted, or done.
LEMMA PrepareMoves ==
  ASSUME Staged, Prepare
  PROVE  \/ Fault /\ job' = 0 /\ UNCHANGED prepared /\ Moves(ToPrepare, ToFail)
         \/ ~Active(session) /\ job' = 0 /\ UNCHANGED <<prepared, faults>> /\ Moves(ToPrepare, <<>>)
         \/ Active(session) /\ prepared' = prepared + 1 /\ job' = prepared' /\ UNCHANGED faults
              /\ Moves(ToPrepare, ToCheck)
<1>1. worker = ToPrepare
  BY WorkerAt DEF Prepare, At, Staged, worker
<1>2. Go("worker", <<"error">>) => Moves(ToPrepare, ToFail)
  BY <1>1, WorkerGoes DEF ToFail
<1>3. Go("worker", <<>>) => Moves(ToPrepare, <<>>)
  BY <1>1, WorkerGoes
<1>4. Return("worker") => Moves(ToPrepare, ToCheck)
  BY <1>1, WorkerGoes, BeginAfter DEF Return, worker
<1> QED
  BY <1>2, <1>3, <1>4, Zenon DEF Prepare, NoFault

\* The end of handle_finalizing.
LEMMA EnqueueMoves ==
  ASSUME Staged, Enqueue
  PROVE  Moves(ToEnqueue, <<>>)
<1>1. worker = ToEnqueue
  BY WorkerAt DEF Enqueue, At, Staged, worker
<1>2. Return("worker")
  BY Zenon DEF Enqueue
<1> QED
  BY <1>1, <1>2, WorkerGoes, EndAfter DEF Return, worker

\* The end of a command that has failed.
LEMMA FailedMoves ==
  ASSUME Staged, Failed
  PROVE  Moves(ToFail, <<>>)
<1>1. worker = ToFail
  BY WorkerAt DEF Failed, At, Staged, worker
<1>2. Return("worker")
  BY Zenon DEF Failed
<1> QED
  BY <1>1, <1>2, WorkerGoes, EndAfter DEF Return, worker

\* The same for a tap.
LEMMA TapStopMoves ==
  ASSUME Staged, CaptureStop("button")
  PROVE  \/ ~captureRun /\ ~capturing /\ codec' = FALSE /\ UNCHANGED captureRun
              /\ TapMoves(TapStop, TapAbort)
         \/ (captureRun \/ capturing) /\ captureRun' = FALSE /\ UNCHANGED codec
              /\ TapMoves(TapStop, TapStopWait)
<1>1. tap = TapStop
  BY TapAt DEF CaptureStop, At, Staged, tap
<1>2. Return("button") => TapMoves(TapStop, TapAbort)
  BY <1>1, TapGoes, TapAfter DEF Return, tap
<1>3. GoOn("button", "stopped") => TapMoves(TapStop, TapStopWait)
  BY <1>1, TapGoes, TapAfter DEF GoOn, tap
<1> QED
  BY <1>2, <1>3, Zenon DEF CaptureStop

\* The same stop made by a tap, after the wait.
LEMMA TapStoppedMoves ==
  ASSUME Staged, CaptureStopped("button")
  PROVE  TapMoves(TapStopWait, TapAbort)
<1>1. tap = TapStopWait
  BY TapAt DEF CaptureStopped, At, Staged, tap
<1>2. Return("button")
  BY Zenon DEF CaptureStopped
<1> QED
  BY <1>1, <1>2, TapGoes, TapAfter DEF Return, tap

\* The same abort made by a tap.
LEMMA TapAbortMoves ==
  ASSUME Staged, Abort("button")
  PROVE  \/ writing /\ writerRun' = FALSE /\ UNCHANGED <<file, path, wav>> /\ TapMoves(TapAbort,
              TapAbortWait)
         \/ ~writing /\ DropSession("button") /\ UNCHANGED writerRun /\ TapMoves(TapAbort, TapDone)
<1>1. tap = TapAbort
  BY TapAt DEF Abort, At, Staged, tap
<1>2. GoOn("button", "aborted") => TapMoves(TapAbort, TapAbortWait)
  BY <1>1, TapGoes, TapAfter DEF GoOn, tap
<1>3. Return("button") => TapMoves(TapAbort, TapDone)
  BY <1>1, TapGoes, TapAfter DEF Return, tap
<1> QED
  BY <1>2, <1>3, Zenon DEF Abort, DropSession

\* The same abort made by a tap, after the wait.
LEMMA TapAbortedMoves ==
  ASSUME Staged, Aborted("button")
  PROVE  TapMoves(TapAbortWait, TapDone)
<1>1. tap = TapAbortWait
  BY TapAt DEF Aborted, DropSession, At, Staged, tap
<1>2. Return("button")
  BY Zenon DEF Aborted, DropSession
<1> QED
  BY <1>1, <1>2, TapGoes, TapAfter DEF Return, tap

\* The end of a tap.
LEMMA DiscardMoves ==
  ASSUME Staged, Discard
  PROVE  TapMoves(TapDone, <<>>)
<1>1. tap = TapDone
  BY TapAt DEF Discard, At, Staged, tap
<1>2. Return("button")
  BY Zenon DEF Discard
<1> QED
  BY <1>1, <1>2, TapGoes, TapAfter DEF Return, tap

\* The begin of a tap.
LEMMA TapMovesIn ==
  ASSUME Staged, Tap
  PROVE  TapMoves(<<>>, TapStop)
<1>1. tap = <<>>
  BY DEF Tap, tap
<1>2. Go("button", TapStop)
  BY DEF Tap, TapStop
<1> QED
  BY <1>1, <1>2, TapGoes

\* What the worker begins for each command.
LEMMA TakesMoves ==
  ASSUME Staged, workQueue \in Seq(Commands), WorkerTakes
  PROVE  \/ Head(workQueue) = "RECORDING" /\ Moves(<<>>, ToPrepare)
         \/ Head(workQueue) = "FINALIZING" /\ Moves(<<>>, ToStop)
         \/ Head(workQueue) = "CONFIRM" /\ Moves(<<>>, <<>>)
<1>1. worker = <<>>
  BY DEF WorkerTakes, worker
<1>2. \A x : Go("worker", x) => Moves(<<>>, x)
  BY <1>1, WorkerGoes
<1>3. Head(workQueue) \in Commands
  BY HeadTailProperties DEF WorkerTakes
<1>4. Moves(<<>>, Handler(Head(workQueue)))
  BY <1>2 DEF WorkerTakes
<1>5. /\ Handler("RECORDING") = ToPrepare /\ Handler("FINALIZING") = ToStop
      /\ Handler("CONFIRM") = <<>>
  BY DEF Handler, ToPrepare, ToStop
<1>6. Head(workQueue) \in {"RECORDING", "FINALIZING", "CONFIRM"}
  BY <1>3 DEF Commands
<1> QED
  BY <1>4, <1>5, <1>6, Zenon

\* The stages stay stages.
LEMMA MovesStaged ==
  ASSUME Staged, NEW from, NEW to
  PROVE  /\ to \in WorkerStages /\ Moves(from, to) => Staged'
         /\ to \in TapStages /\ TapMoves(from, to) => Staged'
<1>1. ASSUME to \in WorkerStages, Moves(from, to) PROVE Staged'
  <2>1. to \in Seq(Calls)
    BY <1>1, StagesAreCalls
  <2>2. todo' \in [Tasks -> Seq(Calls)]
    BY <1>1, <2>1 DEF Moves, Go, Staged
  <2>3. worker' \in WorkerStages /\ tap' \in TapStages
    BY <1>1 DEF Moves, Staged
  <2> QED
    BY <2>2, <2>3 DEF Staged
<1>2. ASSUME to \in TapStages, TapMoves(from, to) PROVE Staged'
  <2>1. to \in Seq(Calls)
    BY <1>2, StagesAreCalls
  <2>2. todo' \in [Tasks -> Seq(Calls)]
    BY <1>2, <2>1 DEF TapMoves, Go, Staged
  <2>3. worker' \in WorkerStages /\ tap' \in TapStages
    BY <1>2 DEF TapMoves, Staged
  <2> QED
    BY <2>2, <2>3 DEF Staged
<1> QED
  BY <1>1, <1>2

\* The stages by name.
LEMMA StagesListed ==
  /\ {<<>>, ToPrepare, ToCheck, ToOpen, ToSpawn, ToCheckOpen, ToCapture, ToRun, ToCheckCapture,
      UndoOpen, UndoOpenWait, UndoStop, UndoStopWait, UndoCapture, UndoCaptureWait, UndoAbort,
      UndoAbortWait, ToStop, Stopping, ToFinalize, Finalizing, ToEnqueue, ToGiveUp, GivingUp,
      ToFail} \subseteq WorkerStages
  /\ {<<>>, TapStop, TapStopWait, TapAbort, TapAbortWait, TapDone} \subseteq TapStages
  BY Zenon DEF WorkerStages, TapStages, Begins, Undoes, Ends, Taps

-----------------------------------------------------------------------------
(* Types. *)

\* The parts of the type invariant.
LoopTypes ==
  /\ state \in States /\ prevState \in States
  /\ events \in Seq(Events \cup States)
  /\ confirmTimer \in BOOLEAN /\ syncing \in BOOLEAN
ButtonTypes ==
  /\ stable \in BOOLEAN /\ maxSent \in BOOLEAN
  /\ age \in {"none", "short", "long", "max"}
  /\ presses \in Sessions /\ session \in Sessions /\ cancelled \in Sessions
QueueTypes ==
  /\ workQueue \in Seq(Commands) /\ Len(workQueue) <= WorkCap
  /\ dropped \in BOOLEAN
WorkTypes ==
  /\ mySession \in Sessions /\ again \in BOOLEAN
  /\ job \in Wavs \cup {0} /\ prepared \in Wavs \cup {0}
  /\ saved \subseteq Jobs
CaptureTypes ==
  /\ codec \in BOOLEAN /\ captureRun \in BOOLEAN /\ capturing \in BOOLEAN /\ stopDone \in BOOLEAN
RingTypes ==
  /\ ring \in Seq(Sessions) /\ Len(ring) <= RingCap
  /\ captured \in [Sessions -> 0 .. MaxChunks]
WriterTypes ==
  /\ file \in Wavs \cup {0} /\ path \in Wavs \cup {0}
  /\ writerRun \in BOOLEAN /\ writing \in BOOLEAN /\ writerDone \in BOOLEAN
  /\ wav \in [Wavs -> Seq(Sessions)]

Types ==
  /\ LoopTypes /\ ButtonTypes /\ QueueTypes /\ WorkTypes
  /\ CaptureTypes /\ RingTypes /\ WriterTypes
  /\ faults \in 0 .. MaxFaults

\* The type invariant, in parts.
LEMMA TypesAreTypeOK == TypeOK <=> Types /\ todo \in [Tasks -> Seq(Calls)]
  BY Zenon DEF TypeOK, AudioTypeOK, Types, LoopTypes, ButtonTypes, QueueTypes, WorkTypes,
    CaptureTypes, RingTypes, WriterTypes

\* The sessions that the tasks know of are sessions that the button has begun.
Numbers == cancelled <= session /\ mySession <= session /\ session <= presses

\* One capture is prepared for each press, and one for the press that may have
\* caused the boot: a RECORDING on its way, as an event, as a command or in the
\* worker, stands for a press that has had no capture yet.
Owed ==
  prepared + (IF worker = ToPrepare THEN 1 ELSE 0) + Count(workQueue, "RECORDING")
    + Count(events, "RECORDING") + Count(events, "REC_PRESS") <= presses + 1

Basics == Types /\ Staged /\ Numbers /\ Owed

\* A failure counts as one, up to their bound.
LEMMA FaultType ==
  ASSUME faults \in 0 .. MaxFaults
  PROVE  Fault \/ NoFault => faults' \in 0 .. MaxFaults
<1>1. MaxFaults \in Nat
  BY AudioAssumption
<1>2. ASSUME Fault PROVE faults' \in 0 .. MaxFaults
  BY <1>1, <1>2 DEF Fault
<1>3. ASSUME NoFault PROVE faults' \in 0 .. MaxFaults
  BY <1>3 DEF NoFault
<1> QED
  BY <1>2, <1>3

\* The calls of audio_capture keep the types.
LEMMA CaptureCallTypes ==
  ASSUME Types, NEW t, NEW onError,
         CaptureStart(t, onError) \/ CaptureRun(t) \/ CaptureStop(t) \/ CaptureStopped(t)
  PROVE  CaptureTypes' /\ RingTypes' /\ WriterTypes' /\ faults' \in 0 .. MaxFaults
<1>1. UNCHANGED <<captured, file, path, writerRun, writing, writerDone, wav>>
  BY Zenon DEF CaptureStart, CaptureRun, CaptureStop, CaptureStopped, writer
<1>2. WriterTypes'
  BY <1>1, Zenon DEF Types, WriterTypes
<1>3. RingTypes'
  <2>1. ring' = ring \/ ring' = <<>>
    BY Zenon DEF CaptureStart, CaptureRun, CaptureStop, CaptureStopped
  <2>2. <<>> \in Seq(Sessions) /\ Len(<<>>) <= RingCap
    BY AudioAssumption
  <2>3. captured' = captured
    BY <1>1
  <2> QED
    BY <2>1, <2>2, <2>3, Zenon DEF Types, RingTypes
<1>4. faults' \in 0 .. MaxFaults
  <2>1. Fault \/ NoFault
    BY Zenon DEF CaptureStart, CaptureRun, CaptureStop, CaptureStopped, NoFault
  <2> QED
    BY <2>1, FaultType DEF Types
<1>5. CaptureTypes'
  <2>1. CASE CaptureStart(t, onError)
    <3>1. UNCHANGED <<captureRun, capturing, stopDone>> /\ (codec' = codec \/ codec' = TRUE)
      BY <2>1, Zenon DEF CaptureStart
    <3> QED
      BY <3>1, Zenon DEF Types, CaptureTypes
  <2>2. CASE CaptureRun(t)
    BY <2>2, Zenon DEF CaptureRun, Types, CaptureTypes
  <2>3. CASE CaptureStop(t)
    <3>1. /\ UNCHANGED <<capturing, stopDone>>
          /\ (codec' = FALSE /\ captureRun' = captureRun) \/ (codec' = codec /\ captureRun' = FALSE)
      BY <2>3, Zenon DEF CaptureStop
    <3> QED
      BY <3>1, Zenon DEF Types, CaptureTypes
  <2>4. CASE CaptureStopped(t)
    BY <2>4, Zenon DEF CaptureStopped, Types, CaptureTypes
  <2> QED
    BY <2>1, <2>2, <2>3, <2>4
<1> QED
  BY <1>2, <1>3, <1>4, <1>5

\* The calls of wav_writer keep the types.
LEMMA WavCallTypes ==
  ASSUME Types, NEW t, NEW onError,
         \/ OpenWav(t, job, onError) \/ SpawnWriter(t) \/ Finalize(t, onError)
         \/ Finalized(t, onError) \/ Abort(t) \/ Aborted(t)
  PROVE  CaptureTypes' /\ RingTypes' /\ WriterTypes' /\ faults' \in 0 .. MaxFaults
<1>1. UNCHANGED <<codec, captureRun, capturing, stopDone>>
  BY Zenon DEF OpenWav, SpawnWriter, Finalize, Finalized, Abort, Aborted, capture
<1>2. CaptureTypes'
  BY <1>1, Zenon DEF Types, CaptureTypes
<1>3. RingTypes'
  <2>1. UNCHANGED <<ring, captured>>
    BY Zenon DEF OpenWav, SpawnWriter, Finalize, Finalized, Abort, Aborted
  <2> QED
    BY <2>1, Zenon DEF Types, RingTypes
<1>4. faults' \in 0 .. MaxFaults
  <2>1. Fault \/ NoFault
    BY Zenon DEF OpenWav, SpawnWriter, Finalize, Finalized, Abort, Aborted, WriterGone,
      WriterTimeout, NoFault
  <2> QED
    BY <2>1, FaultType DEF Types
<1>5. writerRun' \in BOOLEAN
  <2>1. writerRun' \in {TRUE, FALSE, writerRun}
    BY Zenon DEF OpenWav, SpawnWriter, Finalize, Finalized, Abort, Aborted
  <2> QED
    BY <2>1, Zenon DEF Types, WriterTypes
<1>6. writing' \in BOOLEAN
  <2>1. writing' \in {TRUE, writing}
    BY Zenon DEF OpenWav, SpawnWriter, Finalize, Finalized, Abort, Aborted
  <2> QED
    BY <2>1, Zenon DEF Types, WriterTypes
<1>7. writerDone' \in BOOLEAN
  <2>1. writerDone' \in {FALSE, writerDone}
    BY Zenon DEF OpenWav, SpawnWriter, Finalize, Finalized, Abort, Aborted, WriterGone,
      WriterTimeout
  <2> QED
    BY <2>1, Zenon DEF Types, WriterTypes
<1>8. file' \in Wavs \cup {0} /\ path' \in Wavs \cup {0}
  <2>1. file' \in {0, file, job} /\ path' \in {0, path, job}
    BY Zenon DEF OpenWav, SpawnWriter, Finalize, Finalized, Abort, Aborted, DropSession
  <2> QED
    BY <2>1, Zenon DEF Types, WriterTypes, WorkTypes
<1>9. wav' \in [Wavs -> Seq(Sessions)]
  <2>1. \/ wav' = wav
        \/ wav' = [wav EXCEPT ![job] = <<>>]
        \/ wav' = [wav EXCEPT ![path] = <<>>]
    BY Zenon DEF OpenWav, SpawnWriter, Finalize, Finalized, Abort, Aborted, DropSession
  <2>2. wav \in [Wavs -> Seq(Sessions)]
    BY DEF Types, WriterTypes
  <2>3. <<>> \in Seq(Sessions)
    OBVIOUS
  <2>4. \A n : [wav EXCEPT ![n] = <<>>] \in [Wavs -> Seq(Sessions)]
    BY <2>2, <2>3
  <2> QED
    BY <2>1, <2>2, <2>4
<1> QED
  BY <1>2, <1>3, <1>4, <1>5, <1>6, <1>7, <1>8, <1>9 DEF WriterTypes

\* tk_audio keeps the types.
LEMMA AudioTaskTypes ==
  ASSUME Types, AudioTask
  PROVE  CaptureTypes' /\ RingTypes' /\ WriterTypes' /\ faults' \in 0 .. MaxFaults
<1>1. UNCHANGED <<codec, captureRun, file, path, writerRun, writing, writerDone, wav, faults>>
  BY Zenon DEF AudioTask, AudioReads, AudioEnds, capture, writer
<1>2. WriterTypes' /\ faults' \in 0 .. MaxFaults
  BY <1>1, Zenon DEF Types, WriterTypes
<1>3. CaptureTypes'
  <2>1. (capturing' = capturing /\ stopDone' = stopDone) \/ (capturing' = FALSE /\ stopDone' = TRUE)
    BY Zenon DEF AudioTask, AudioReads, AudioEnds, capture
  <2> QED
    BY <1>1, <2>1, Zenon DEF Types, CaptureTypes
<1>4. CASE UNCHANGED <<ring, captured>>
  BY <1>2, <1>3, <1>4, Zenon DEF Types, RingTypes
<1>5. CASE Chunk(mySession)
  <2>1. /\ ring \in Seq(Sessions) /\ captured \in [Sessions -> 0 .. MaxChunks]
        /\ mySession \in Sessions
    BY DEF Types, RingTypes, WorkTypes
  <2>2. Len(ring) \in Nat /\ Len(ring) < RingCap /\ RingCap \in Nat /\ MaxChunks \in Nat
    BY <1>5, <2>1, AudioAssumption, LenProperties DEF Chunk
  <2>3. ring' = Append(ring, mySession)
    BY <1>5 DEF Chunk
  <2>4. ring' \in Seq(Sessions) /\ Len(ring') = Len(ring) + 1
    BY <2>1, <2>3
  <2>5. Len(ring') <= RingCap
    BY <2>2, <2>4
  <2>6. captured[mySession] + 1 \in 0 .. MaxChunks
    <3>1. captured[mySession] \in 0 .. MaxChunks /\ captured[mySession] < MaxChunks
      BY <1>5, <2>1 DEF Chunk
    <3> QED
      BY <2>2, <3>1
  <2>7. captured' \in [Sessions -> 0 .. MaxChunks]
    BY <1>5, <2>1, <2>6 DEF Chunk
  <2> QED
    BY <1>2, <1>3, <2>4, <2>5, <2>7 DEF RingTypes
<1> QED
  BY <1>4, <1>5, Zenon DEF AudioTask, AudioReads, AudioEnds

\* tk_writer keeps the types.
LEMMA WriterTaskTypes ==
  ASSUME Types, WriterTask
  PROVE  CaptureTypes' /\ RingTypes' /\ WriterTypes' /\ faults' \in 0 .. MaxFaults
<1>1. UNCHANGED <<codec, captureRun, capturing, stopDone, captured, path, writerRun>>
  BY Zenon DEF WriterTask, WriterWrites, WriterFinishes, WriterFails, WriterEnds, capture
<1>2. CaptureTypes'
  BY <1>1, Zenon DEF Types, CaptureTypes
<1>3. ring \in Seq(Sessions) /\ Len(ring) <= RingCap /\ Len(ring) \in Nat /\ RingCap \in Nat
  BY AudioAssumption, LenProperties DEF Types, RingTypes
<1>4. RingTypes'
  <2>1. ring' = ring \/ (ring # <<>> /\ ring' = Tail(ring))
    BY Zenon DEF WriterTask, WriterWrites, WriterFinishes, WriterFails
  <2>2. ASSUME ring # <<>> PROVE Tail(ring) \in Seq(Sessions) /\ Len(Tail(ring)) <= RingCap
    <3>1. Tail(ring) \in Seq(Sessions) /\ Len(Tail(ring)) = Len(ring) - 1
      BY <1>3, <2>2, HeadTailProperties
    <3> QED
      BY <1>3, <3>1
  <2>3. ring' \in Seq(Sessions) /\ Len(ring') <= RingCap
    BY <1>3, <2>1, <2>2
  <2> QED
    BY <1>1, <2>3 DEF Types, RingTypes
<1>5. faults' \in 0 .. MaxFaults
  <2>1. Fault \/ NoFault
    BY Zenon DEF WriterTask, WriterWrites, WriterFinishes, WriterFails, NoFault
  <2> QED
    BY <2>1, FaultType DEF Types
<1>6. wav' \in [Wavs -> Seq(Sessions)]
  <2>1. wav \in [Wavs -> Seq(Sessions)] /\ file \in Wavs \cup {0}
    BY DEF Types, WriterTypes
  <2>2. CASE wav' = wav
    BY <2>1, <2>2
  <2>3. CASE WriterWrites
    <3>1. Head(ring) \in Sessions
      BY <1>3, <2>3, HeadTailProperties DEF WriterWrites
    <3>2. file \in Wavs
      BY <2>1, <2>3 DEF WriterWrites
    <3>3. Append(wav[file], Head(ring)) \in Seq(Sessions)
      BY <2>1, <3>1, <3>2
    <3> QED
      BY <2>1, <2>3, <3>2, <3>3 DEF WriterWrites
  <2> QED
    BY <2>2, <2>3, Zenon DEF WriterTask, WriterFinishes, WriterFails, WriterEnds
<1>7. file' \in Wavs \cup {0} /\ writing' \in BOOLEAN /\ writerDone' \in BOOLEAN
  <2>1. \/ file' = file /\ writing' = writing /\ writerDone' = writerDone
        \/ file' = 0 /\ writing' = FALSE /\ writerDone' = TRUE
    BY Zenon DEF WriterTask, WriterWrites, WriterFinishes, WriterFails, WriterEnds
  <2> QED
    BY <2>1, Zenon DEF Types, WriterTypes
<1>8. WriterTypes'
  BY <1>1, <1>6, <1>7, Zenon DEF Types, WriterTypes
<1> QED
  BY <1>2, <1>4, <1>5, <1>8

\* Nothing of a recording on its way has changed.
LEMMA OwedKept ==
  ASSUME Owed, UNCHANGED <<prepared, workQueue, events, presses>>,
         worker' = ToPrepare <=> worker = ToPrepare
  PROVE  Owed'
  BY DEF Owed

\* How an event on its way counts.
LEMMA OwedPosted ==
  ASSUME Types, NEW x \in Events \cup States, Owed, events' = Append(events, x),
         x \notin {"RECORDING", "REC_PRESS"},
         UNCHANGED <<prepared, workQueue, presses>>,
         worker' = ToPrepare <=> worker = ToPrepare
  PROVE  Owed'
<1>1. events \in Seq(Events \cup States)
  BY DEF Types, LoopTypes
<1>2. /\ Count(events', "RECORDING") = Count(events, "RECORDING")
      /\ Count(events', "REC_PRESS") = Count(events, "REC_PRESS")
  <2>1. Count(events, "RECORDING") \in Nat /\ Count(events, "REC_PRESS") \in Nat
    BY <1>1, CountType
  <2>2. Count(events', "RECORDING") = Count(events, "RECORDING") + 0
    BY <1>1, CountPosted
  <2>3. Count(events', "REC_PRESS") = Count(events, "REC_PRESS") + 0
    BY <1>1, CountPosted
  <2> QED
    BY <2>1, <2>2, <2>3
<1> QED
  BY <1>2 DEF Owed

\* The types that a step leaves alone.
LEMMA AudioKept ==
  ASSUME Types, UNCHANGED <<capture, ring, captured, writer>>, Fault \/ faults' = faults
  PROVE  CaptureTypes' /\ RingTypes' /\ WriterTypes' /\ faults' \in 0 .. MaxFaults
<1>1. UNCHANGED <<codec, captureRun, capturing, stopDone, file, path, writerRun, writing>>
      /\ UNCHANGED <<writerDone, wav>>
  BY Zenon DEF capture, writer
<1>2. CaptureTypes'
  BY <1>1, Zenon DEF Types, CaptureTypes
<1>3. RingTypes'
  BY Zenon DEF Types, RingTypes
<1>4. WriterTypes'
  BY <1>1, Zenon DEF Types, WriterTypes
<1> QED
  BY <1>2, <1>3, <1>4, FaultType, Zenon DEF Types, NoFault

\* A step of the audio path keeps all of it.
LEMMA AudioBasics ==
  ASSUME Basics, CaptureTypes', RingTypes', WriterTypes', faults' \in 0 .. MaxFaults,
         Staged', worker' = ToPrepare <=> worker = ToPrepare,
         UNCHANGED <<loop, button, workQueue, dropped, work, syncing>>
  PROVE  Basics'
<1>1. UNCHANGED <<state, events, prevState, confirmTimer, stable, presses, age, maxSent, session,
                 cancelled, workQueue, dropped, mySession, again, job, prepared, saved, syncing>>
  BY Zenon DEF loop, button, work
<1>2. LoopTypes' /\ ButtonTypes' /\ QueueTypes' /\ WorkTypes'
  BY <1>1, Zenon DEF Basics, Types, LoopTypes, ButtonTypes, QueueTypes, WorkTypes
<1>3. Numbers'
  BY <1>1 DEF Basics, Numbers
<1>4. Owed'
  BY <1>1, OwedKept DEF Basics
<1> QED
  BY <1>2, <1>3, <1>4 DEF Basics, Types

\* The calls of the worker keep types, stages, numbers and what is owed.
LEMMA WorkerCallsBasics ==
  ASSUME Basics, WorkerCalls
  PROVE  Basics'
<1>1. CaptureTypes' /\ RingTypes' /\ WriterTypes' /\ faults' \in 0 .. MaxFaults
  BY CaptureCallTypes, WavCallTypes, Zenon DEF WorkerCalls, Basics
<1>2. \E from \in WorkerStages \ {ToPrepare}, to \in WorkerStages \ {ToPrepare} : Moves(from, to)
  <2>1. /\ {ToOpen, ToSpawn, ToCheckOpen, ToCapture, ToRun, ToCheckCapture} \subseteq Begins
        /\ {UndoOpen, UndoOpenWait, UndoStop, UndoStopWait, UndoCapture, UndoCaptureWait, UndoAbort,
            UndoAbortWait} \subseteq Undoes
        /\ {ToStop, Stopping, ToFinalize, Finalizing, ToEnqueue, ToGiveUp, GivingUp,
             ToFail} \subseteq Ends
    BY Zenon DEF Begins, Undoes, Ends
  <2> DEFINE Here == {<<>>} \cup Begins \cup Undoes \cup Ends
  <2>2. \A s \in Here : s \in WorkerStages \ {ToPrepare}
    BY StagesApart, Zenon DEF WorkerStages
  <2>3. \E from, to \in Here : Moves(from, to)
    <3>1. \A f, g : f \in Here /\ g \in Here /\ Moves(f, g) => \E from, to \in Here : Moves(from,
              to)
      OBVIOUS
    <3>2. Staged
      BY DEF Basics
    <3>3. CASE CaptureStart("worker", GiveUp)
      BY <2>1, <3>1, <3>2, <3>3, StartMoves
    <3>4. CASE CaptureRun("worker")
      BY <2>1, <3>1, <3>2, <3>4, RunMoves
    <3>5. CASE OpenWav("worker", job, <<"error">>)
      BY <2>1, <3>1, <3>2, <3>5, OpenMoves
    <3>6. CASE SpawnWriter("worker")
      BY <2>1, <3>1, <3>2, <3>6, SpawnMoves
    <3>7. CASE Finalize("worker", GiveUp)
      BY <2>1, <3>1, <3>2, <3>7, FinalizeMoves
    <3>8. CASE Finalized("worker", GiveUp)
      BY <2>1, <3>1, <3>2, <3>8, FinalizedMoves
    <3>9. CASE CaptureStop("worker")
      BY <2>1, <3>1, <3>2, <3>9, StopMoves
    <3>10. CASE CaptureStopped("worker")
      BY <2>1, <3>1, <3>2, <3>10, StoppedMoves
    <3>11. CASE Abort("worker")
      BY <2>1, <3>1, <3>2, <3>11, AbortMoves
    <3>12. CASE Aborted("worker")
      BY <2>1, <3>1, <3>2, <3>12, AbortedMoves
    <3> QED
      BY <3>3, <3>4, <3>5, <3>6, <3>7, <3>8, <3>9, <3>10, <3>11, <3>12, Zenon DEF WorkerCalls
  <2> QED
    BY <2>2, <2>3
<1>3. Staged' /\ (worker' = ToPrepare <=> worker = ToPrepare)
  BY <1>2, MovesStaged DEF Basics, Moves
<1>4. UNCHANGED <<loop, button, workQueue, dropped, work, syncing>>
  BY Zenon DEF WorkerCalls
<1> QED
  BY <1>1, <1>3, <1>4, AudioBasics

\* The calls of a tap keep them.
LEMMA ButtonCallsBasics ==
  ASSUME Basics, ButtonCalls
  PROVE  Basics'
<1>1. CaptureTypes' /\ RingTypes' /\ WriterTypes' /\ faults' \in 0 .. MaxFaults
  BY CaptureCallTypes, WavCallTypes, Zenon DEF ButtonCalls, Basics
<1>2. \E from, to \in TapStages : TapMoves(from, to)
  <2>1. \A f, g : f \in TapStages /\ g \in TapStages /\ TapMoves(f, g) => \E from,
            to \in TapStages : TapMoves(from, to)
    OBVIOUS
  <2>2. Staged
    BY DEF Basics
  <2>3. CASE CaptureStop("button")
    BY <2>1, <2>2, <2>3, TapStopMoves, StagesListed
  <2>4. CASE CaptureStopped("button")
    BY <2>1, <2>2, <2>4, TapStoppedMoves, StagesListed
  <2>5. CASE Abort("button")
    BY <2>1, <2>2, <2>5, TapAbortMoves, StagesListed
  <2>6. CASE Aborted("button")
    BY <2>1, <2>2, <2>6, TapAbortedMoves, StagesListed
  <2> QED
    BY <2>3, <2>4, <2>5, <2>6, Zenon DEF ButtonCalls
<1>3. Staged' /\ worker' = worker
  BY <1>2, MovesStaged DEF Basics, TapMoves
<1>4. UNCHANGED <<loop, button, workQueue, dropped, work, syncing>>
  BY Zenon DEF ButtonCalls
<1> QED
  BY <1>1, <1>3, <1>4, AudioBasics

\* tk_audio and tk_writer keep them.
LEMMA TasksBasics ==
  ASSUME Basics, AudioTask \/ WriterTask
  PROVE  Basics'
<1>1. CaptureTypes' /\ RingTypes' /\ WriterTypes' /\ faults' \in 0 .. MaxFaults
  BY AudioTaskTypes, WriterTaskTypes DEF Basics
<1>2. todo' = todo
  BY Zenon DEF AudioTask, WriterTask, AudioReads, AudioEnds, WriterWrites, WriterFinishes,
    WriterFails, WriterEnds
<1>3. Staged' /\ worker' = worker
  BY <1>2, Zenon DEF Basics, Staged, worker, tap
<1>4. UNCHANGED <<loop, button, workQueue, dropped, work, syncing>>
  BY Zenon DEF AudioTask, WriterTask
<1> QED
  BY <1>1, <1>3, <1>4, AudioBasics

\* The event loop, the timer and the sync task leave the audio path alone.
LEMMA TransitionBasics ==
  ASSUME Basics, NEW s \in States, Transition(s)
  PROVE  Basics'
<1>1. /\ events \in Seq(Events \cup States) /\ events # <<>>
      /\ state' = s /\ events' = Append(Tail(events), s) /\ confirmTimer' \in BOOLEAN
      /\ UNCHANGED <<prevState, syncing>>
  BY DEF Transition, Basics, Types, LoopTypes
<1>2. Tail(events) \in Seq(Events \cup States) /\ events' \in Seq(Events \cup States)
  BY <1>1, Taken, Posted
<1>3. LoopTypes'
  BY <1>1, <1>2 DEF LoopTypes, Basics, Types
<1>4. /\ UNCHANGED <<capture, ring, captured, writer, todo, faults>>
      /\ UNCHANGED <<stable, presses, age, maxSent, session, cancelled, workQueue, dropped,
                     mySession, again, job, prepared, saved>>
  BY Zenon DEF Transition, audioVars, capture, writer, button, work
<1>5. /\ CaptureTypes' /\ RingTypes' /\ WriterTypes' /\ faults' \in 0 .. MaxFaults
      /\ ButtonTypes' /\ QueueTypes' /\ WorkTypes'
  <2>1. ButtonTypes' /\ QueueTypes' /\ WorkTypes'
    BY <1>4, Zenon DEF Basics, Types, ButtonTypes, QueueTypes, WorkTypes
  <2> QED
    BY <1>4, <2>1, AudioKept DEF Basics
<1>6. Staged' /\ worker' = worker
  BY <1>4, Zenon DEF Basics, Staged, worker, tap
<1>7. Numbers'
  BY <1>4 DEF Basics, Numbers
<1>8. Owed'
  <2>1. \A x : Count(events, x) \in Nat /\ Count(Tail(events), x) \in Nat
    BY <1>1, <1>2, CountType
  <2>2. \A x : Count(events, x) = Count(Tail(events), x) + (IF Head(events) = x THEN 1 ELSE 0)
    BY <1>1, CountTaken
  <2>3. \A x : Count(events', x) = Count(Tail(events), x) + (IF s = x THEN 1 ELSE 0)
    <3>1. \A x : Count(Append(Tail(events), s), x) = Count(Tail(events),
              x) + (IF s = x THEN 1 ELSE 0)
      <4>1. s \in Events \cup States
        OBVIOUS
      <4> DEFINE S == Events \cup States
      <4>2. Tail(events) \in Seq(S) /\ s \in S
        BY <1>2, <4>1
      <4> HIDE DEF S
      <4> QED
        BY <4>2, CountPosted
    <3> QED
      BY <1>1, <3>1
  <2>4. s = "RECORDING" => Head(events) = "REC_PRESS"
    BY DEF Transition, Transitions
  <2>5. s # "REC_PRESS"
    BY DEF States
  <2>6. Count(events', "RECORDING") + Count(events', "REC_PRESS")
          <= Count(events, "RECORDING") + Count(events, "REC_PRESS")
    <3>1. Count(events', "REC_PRESS") = Count(Tail(events), "REC_PRESS")
      BY <2>1, <2>3, <2>5
    <3>2. Count(Tail(events), "RECORDING") <= Count(events, "RECORDING")
      BY <2>1, <2>2
    <3>3. CASE s = "RECORDING"
      <4>1. Count(events', "RECORDING") = Count(Tail(events), "RECORDING") + 1
        BY <2>3, <3>3
      <4>2. Count(events, "REC_PRESS") = Count(Tail(events), "REC_PRESS") + 1
        BY <2>2, <2>4, <3>3
      <4> QED
        BY <2>1, <3>1, <3>2, <4>1, <4>2
    <3>4. CASE s # "RECORDING"
      <4>1. Count(events', "RECORDING") = Count(Tail(events), "RECORDING")
        BY <2>1, <2>3, <3>4
      <4>2. Count(Tail(events), "REC_PRESS") <= Count(events, "REC_PRESS")
        BY <2>1, <2>2
      <4> QED
        BY <2>1, <3>1, <3>2, <4>1, <4>2
    <3> QED
      BY <3>3, <3>4
  <2>7. Count(workQueue, "RECORDING") \in Nat
    BY CountType DEF Basics, Types, QueueTypes
  <2>8. prepared \in Nat /\ presses \in Nat
    BY AudioAssumption DEF Basics, Types, WorkTypes, ButtonTypes, Wavs, Sessions
  <2>9. Count(events', "RECORDING") \in Nat /\ Count(events', "REC_PRESS") \in Nat
    BY <1>2, CountType
  <2>10. UNCHANGED <<prepared, workQueue, presses, worker>>
    BY <1>4, <1>6
  <2> QED
    BY <2>1, <2>6, <2>7, <2>8, <2>9, <2>10 DEF Basics, Owed
<1> QED
  BY <1>3, <1>5, <1>6, <1>7, <1>8 DEF Basics, Types

\* Taking an event, or none, leaves no more of any kind.
LEMMA OwedTaken ==
  ASSUME Basics, events # <<>>, events' = Tail(events),
         UNCHANGED <<prepared, workQueue, presses>>, worker' = ToPrepare <=> worker = ToPrepare
  PROVE  Owed' /\ events' \in Seq(Events \cup States)
<1>1. events \in Seq(Events \cup States)
  BY DEF Basics, Types, LoopTypes
<1>2. Tail(events) \in Seq(Events \cup States)
  BY <1>1, Taken
<1>3. \A x : Count(events, x) \in Nat /\ Count(Tail(events), x) \in Nat
  BY <1>1, <1>2, CountType
<1>4. \A x : Count(events, x) = Count(Tail(events), x) + (IF Head(events) = x THEN 1 ELSE 0)
  BY <1>1, CountTaken
<1>5. \A x : Count(events', x) <= Count(events, x) /\ Count(events', x) \in Nat
  BY <1>3, <1>4
<1>6. Count(workQueue, "RECORDING") \in Nat
  BY CountType DEF Basics, Types, QueueTypes
<1>7. prepared \in Nat /\ presses \in Nat
  BY AudioAssumption DEF Basics, Types, WorkTypes, ButtonTypes, Wavs, Sessions
<1> QED
  BY <1>2, <1>3, <1>5, <1>6, <1>7 DEF Basics, Owed

\* An ignored event keeps them.
LEMMA IgnoreBasics ==
  ASSUME Basics, Ignore
  PROVE  Basics'
<1>1. /\ UNCHANGED <<capture, ring, captured, writer, todo, faults>>
      /\ UNCHANGED <<state, prevState, confirmTimer, syncing, stable, presses, age, maxSent,
           session,
                    cancelled, workQueue, dropped, mySession, again, job, prepared, saved>>
  BY Zenon DEF Ignore, audioVars, capture, writer, button, work
<1>2. CaptureTypes' /\ RingTypes' /\ WriterTypes' /\ faults' \in 0 .. MaxFaults
  BY <1>1, AudioKept DEF Basics
<1>3. ButtonTypes' /\ QueueTypes' /\ WorkTypes'
  BY <1>1, Zenon DEF Basics, Types, ButtonTypes, QueueTypes, WorkTypes
<1>4. Staged' /\ worker' = worker
  BY <1>1, Zenon DEF Basics, Staged, worker, tap
<1>5. Numbers'
  BY <1>1 DEF Basics, Numbers
<1>6. Owed' /\ events' \in Seq(Events \cup States)
  BY <1>1, <1>4, OwedTaken DEF Ignore
<1>7. LoopTypes'
  BY <1>1, <1>6, Zenon DEF Basics, Types, LoopTypes
<1> QED
  BY <1>2, <1>3, <1>4, <1>5, <1>6, <1>7 DEF Basics, Types

\* What the bridge hands on: a command for the worker, a SYNC_REQUEST for the loop.
LEMMA CommandTypes ==
  ASSUME QueueTypes, NEW s, Command(s)
  PROVE  /\ QueueTypes'
         /\ Count(workQueue', "RECORDING")
              <= Count(workQueue, "RECORDING") + (IF s = "RECORDING" THEN 1 ELSE 0)
<1>1. workQueue \in Seq(Commands) /\ Len(workQueue) <= WorkCap /\ dropped \in BOOLEAN
      /\ Len(workQueue) \in Nat /\ WorkCap \in Nat
  BY RecAssumption, LenProperties DEF QueueTypes
<1>2. Count(workQueue, "RECORDING") \in Nat
  BY <1>1, CountType
<1>3. CASE workQueue' = workQueue
  <2>1. dropped' = dropped \/ dropped' = TRUE
    BY Zenon DEF Command
  <2>2. dropped' \in BOOLEAN
    BY <1>1, <2>1
  <2> QED
    BY <1>1, <1>2, <1>3, <2>2 DEF QueueTypes
<1>4. CASE /\ s \in Commands /\ Len(workQueue) < WorkCap
           /\ workQueue' = Append(workQueue, s) /\ dropped' = dropped
  <2>1. workQueue' \in Seq(Commands) /\ Len(workQueue') = Len(workQueue) + 1
    BY <1>1, <1>4, Posted
  <2>2. Count(workQueue', "RECORDING")
          = Count(workQueue, "RECORDING") + (IF s = "RECORDING" THEN 1 ELSE 0)
    BY <1>1, <1>4, CountPosted
  <2>3. Len(workQueue') <= WorkCap
    BY <1>1, <1>4, <2>1
  <2> QED
    BY <1>1, <1>2, <1>4, <2>1, <2>2, <2>3 DEF QueueTypes
<1> QED
  BY <1>3, <1>4, Zenon DEF Command

\* The queue of the loop after the bridge.
LEMMA BridgedEvents ==
  ASSUME LoopTypes, NEW s \in States, Bridge(s)
  PROVE  /\ Tail(events) \in Seq(Events \cup States)
         /\ events' = IF s = "IDLE" /\ prevState \in {"CONFIRM", "BOOT"}
                      THEN Append(Tail(events), "SYNC_REQUEST") ELSE Tail(events)
         /\ events' \in Seq(Events \cup States)
<1>1. Tail(events) \in Seq(Events \cup States)
  BY Taken DEF LoopTypes, Bridge
<1>2. "SYNC_REQUEST" \in Events \cup States
  BY DEF Events
<1>3. /\ Tail(events) \o <<"SYNC_REQUEST">> = Append(Tail(events), "SYNC_REQUEST")
      /\ Tail(events) \o <<>> = Tail(events)
  BY <1>1, <1>2, OneMore
<1>4. Append(Tail(events), "SYNC_REQUEST") \in Seq(Events \cup States)
  BY <1>1, <1>2, Posted
<1>5. CASE s = "IDLE" /\ prevState \in {"CONFIRM", "BOOT"}
  BY <1>1, <1>3, <1>4, <1>5 DEF Bridge
<1>6. CASE ~(s = "IDLE" /\ prevState \in {"CONFIRM", "BOOT"})
  BY <1>1, <1>3, <1>6 DEF Bridge
<1> QED
  BY <1>5, <1>6

\* The bridge keeps them: the news of RECORDING becomes the command RECORDING.
LEMMA BridgeBasics ==
  ASSUME Basics, NEW s \in States, Bridge(s)
  PROVE  Basics'
<1>1. /\ UNCHANGED <<capture, ring, captured, writer, todo, faults>>
      /\ UNCHANGED <<state, confirmTimer, stable, presses, age, maxSent, session,
                    cancelled, mySession, again, job, prepared, saved>>
  BY Zenon DEF Bridge, audioVars, capture, writer, button, work
<1>2. CaptureTypes' /\ RingTypes' /\ WriterTypes' /\ faults' \in 0 .. MaxFaults
  BY <1>1, AudioKept DEF Basics
<1>3. ButtonTypes' /\ WorkTypes'
  BY <1>1, Zenon DEF Basics, Types, ButtonTypes, WorkTypes
<1>4. Staged' /\ worker' = worker
  BY <1>1, Zenon DEF Basics, Staged, worker, tap
<1>5. Numbers'
  BY <1>1 DEF Basics, Numbers
<1>6. /\ QueueTypes'
      /\ Count(workQueue', "RECORDING")
           <= Count(workQueue, "RECORDING") + (IF s = "RECORDING" THEN 1 ELSE 0)
  BY CommandTypes DEF Bridge, Basics, Types
<1>7. /\ Tail(events) \in Seq(Events \cup States) /\ events' \in Seq(Events \cup States)
      /\ events' = Tail(events) \/ events' = Append(Tail(events), "SYNC_REQUEST")
      /\ events # <<>> /\ events \in Seq(Events \cup States) /\ Head(events) = s
  BY BridgedEvents DEF Basics, Types, LoopTypes, Bridge
<1>8. LoopTypes'
  <2>1. prevState' = s /\ (syncing' = (syncing \/ s = "SYNC"))
    BY Zenon DEF Bridge
  <2>2. syncing' \in BOOLEAN
    BY <2>1
  <2> QED
    BY <1>1, <1>7, <2>1, <2>2 DEF Basics, Types, LoopTypes
<1>9. Owed'
  <2>1. \A x : Count(events, x) \in Nat /\ Count(Tail(events), x) \in Nat /\ Count(events',
            x) \in Nat
    BY <1>7, CountType
  <2>2. \A x : Count(events, x) = Count(Tail(events), x) + (IF s = x THEN 1 ELSE 0)
    BY <1>7, CountTaken
  <2>3. \A x : x # "SYNC_REQUEST" => Count(events', x) = Count(Tail(events), x)
    <3>1. CASE events' = Tail(events)
      BY <3>1
    <3>2. CASE events' = Append(Tail(events), "SYNC_REQUEST")
      <4> DEFINE S == Events \cup States
      <4>1. Tail(events) \in Seq(S) /\ "SYNC_REQUEST" \in S
        BY <1>7 DEF Events
      <4> HIDE DEF S
      <4>2. \A x : Count(Append(Tail(events), "SYNC_REQUEST"), x)
                     = Count(Tail(events), x) + (IF "SYNC_REQUEST" = x THEN 1 ELSE 0)
        BY <4>1, CountPosted
      <4> QED
        BY <2>1, <3>2, <4>2
    <3> QED
      BY <1>7, <3>1, <3>2
  <2>4. Count(workQueue, "RECORDING") \in Nat /\ Count(workQueue', "RECORDING") \in Nat
    BY <1>6, CountType DEF Basics, Types, QueueTypes
  <2>5. /\ Count(events', "REC_PRESS") <= Count(events, "REC_PRESS")
        /\ Count(workQueue', "RECORDING") + Count(events', "RECORDING")
             <= Count(workQueue, "RECORDING") + Count(events, "RECORDING")
    BY <1>6, <2>1, <2>2, <2>3, <2>4
  <2>6. prepared \in Nat /\ presses \in Nat
    BY AudioAssumption DEF Basics, Types, WorkTypes, ButtonTypes, Wavs, Sessions
  <2> QED
    BY <1>1, <1>4, <2>1, <2>4, <2>5, <2>6 DEF Basics, Owed
<1> QED
  BY <1>2, <1>3, <1>4, <1>5, <1>6, <1>8, <1>9 DEF Basics, Types

\* The timers and the limit keep them.
LEMMA AnnounceBasics ==
  ASSUME Basics, ConfirmTimer \/ SyncFinishes \/ RecordMax
  PROVE  Basics'
<1>1. /\ UNCHANGED <<capture, ring, captured, writer, todo, faults>>
      /\ UNCHANGED <<state, prevState, stable, presses, age, session,
                    cancelled, workQueue, dropped, mySession, again, job, prepared, saved>>
  BY Zenon DEF ConfirmTimer, SyncFinishes, RecordMax, Post, audioVars, capture, writer, button, work
<1>2. CaptureTypes' /\ RingTypes' /\ WriterTypes' /\ faults' \in 0 .. MaxFaults
  BY <1>1, AudioKept DEF Basics
<1>3. /\ confirmTimer' \in {confirmTimer, FALSE} /\ syncing' \in {syncing, FALSE}
      /\ maxSent' \in {maxSent, TRUE}
  BY Zenon DEF ConfirmTimer, SyncFinishes, RecordMax, Post, button
<1>4. ButtonTypes' /\ QueueTypes' /\ WorkTypes'
  BY <1>1, <1>3, Zenon DEF Basics, Types, ButtonTypes, QueueTypes, WorkTypes
<1>5. Staged' /\ worker' = worker
  BY <1>1, Zenon DEF Basics, Staged, worker, tap
<1>6. Numbers'
  BY <1>1 DEF Basics, Numbers
<1>7. PICK x \in {"CONFIRM_DONE", "SYNC_DONE", "RECORD_MAX"} : events' = Append(events, x)
  BY Zenon DEF ConfirmTimer, SyncFinishes, RecordMax, Post
<1>8. x \in Events \cup States /\ x \notin {"RECORDING", "REC_PRESS"}
  BY DEF Events
<1>9. Owed'
  BY <1>1, <1>5, <1>7, <1>8, OwedPosted DEF Basics
<1>10. events' \in Seq(Events \cup States)
  BY <1>7, <1>8, Posted DEF Basics, Types, LoopTypes
<1>11. LoopTypes'
  BY <1>1, <1>3, <1>10, Zenon DEF Basics, Types, LoopTypes
<1> QED
  BY <1>2, <1>4, <1>5, <1>6, <1>9, <1>11 DEF Basics, Types

\* A press keeps them: it owes one capture more and counts as one more.
LEMMA PressBasics ==
  ASSUME Basics, Press
  PROVE  Basics'
<1>1. /\ UNCHANGED <<capture, ring, captured, writer, todo, faults>>
      /\ UNCHANGED <<state, prevState, confirmTimer, syncing, cancelled, workQueue, dropped,
                     mySession, again, job, prepared, saved>>
  BY Zenon DEF Press, Post, loop, audioVars, capture, writer, button, work
<1>2. CaptureTypes' /\ RingTypes' /\ WriterTypes' /\ faults' \in 0 .. MaxFaults
  BY <1>1, AudioKept DEF Basics
<1>3. QueueTypes' /\ WorkTypes'
  BY <1>1, Zenon DEF Basics, Types, QueueTypes, WorkTypes
<1>4. Staged' /\ worker' = worker
  BY <1>1, Zenon DEF Basics, Staged, worker, tap
<1>5. /\ presses \in Nat /\ session \in Nat /\ faults \in Nat /\ cancelled \in Nat
      /\ mySession \in Nat /\ prepared \in Nat /\ MaxPresses \in Nat /\ presses <= MaxPresses
  BY AudioAssumption DEF Basics, Types, WorkTypes, ButtonTypes, Wavs, Sessions
<1>6. /\ presses' = presses + 1 /\ presses' <= MaxPresses
      /\ session' = session + 1 \/ session' = session
      /\ stable' = TRUE /\ maxSent' \in {maxSent, FALSE} /\ age' \in {age, "short"}
  <2>1. presses + faults < MaxPresses /\ presses' = presses + 1 /\ stable' = TRUE
    BY DEF Press
  <2>2. session' = session + 1 \/ session' = session
    BY Zenon DEF Press
  <2>3. maxSent' \in {maxSent, FALSE} /\ age' \in {age, "short"}
    BY Zenon DEF Press
  <2>4. presses' <= MaxPresses
    BY <1>5, <2>1
  <2> QED
    BY <2>1, <2>2, <2>3, <2>4, Zenon
<1>7. Numbers'
  BY <1>1, <1>5, <1>6 DEF Basics, Numbers
<1>8. ButtonTypes'
  <2>1. presses' \in Sessions /\ session' \in Sessions
    BY <1>5, <1>6, <1>7 DEF Sessions, Numbers
  <2>2. cancelled' \in Sessions
    BY <1>1 DEF Basics, Types, ButtonTypes
  <2>3. stable' \in BOOLEAN /\ maxSent' \in BOOLEAN /\ age' \in {"none", "short", "long", "max"}
    BY <1>6, Zenon DEF Basics, Types, ButtonTypes
  <2> QED
    BY <2>1, <2>2, <2>3 DEF ButtonTypes
<1>9. events \in Seq(Events \cup States)
  BY DEF Basics, Types, LoopTypes
<1>10. events' = events \/ events' = Append(events, "REC_PRESS")
  BY Zenon DEF Press, Post, loop
<1>11. "REC_PRESS" \in Events \cup States
  BY DEF Events
<1>12. LoopTypes'
  <2>1. events' \in Seq(Events \cup States)
    BY <1>9, <1>10, <1>11, Posted
  <2> QED
    BY <1>1, <2>1, Zenon DEF Basics, Types, LoopTypes
<1>13. Owed'
  <2>1. \A x : Count(events, x) \in Nat
    BY <1>9, CountType
  <2>2. /\ Count(events', "RECORDING") = Count(events, "RECORDING")
        /\ Count(events', "REC_PRESS") <= Count(events, "REC_PRESS") + 1
        /\ Count(events', "REC_PRESS") \in Nat
    <3>1. CASE events' = events
      BY <2>1, <3>1
    <3>2. CASE events' = Append(events, "REC_PRESS")
      <4>1. Count(Append(events, "REC_PRESS"), "RECORDING") = Count(events, "RECORDING") + 0
        BY <1>9, <1>11, CountPosted
      <4>2. Count(Append(events, "REC_PRESS"), "REC_PRESS") = Count(events, "REC_PRESS") + 1
        BY <1>9, <1>11, CountPosted
      <4> QED
        BY <2>1, <3>2, <4>1, <4>2
    <3> QED
      BY <1>10, <3>1, <3>2
  <2>3. Count(workQueue, "RECORDING") \in Nat
    BY CountType DEF Basics, Types, QueueTypes
  <2> QED
    BY <1>1, <1>4, <1>5, <1>6, <2>1, <2>2, <2>3 DEF Basics, Owed
<1> QED
  BY <1>2, <1>3, <1>4, <1>7, <1>8, <1>12, <1>13 DEF Basics, Types

\* A release, a tap and time keep them.
LEMMA HandBasics ==
  ASSUME Basics, Release \/ Tap \/ TimePasses
  PROVE  Basics'
<1>1. /\ UNCHANGED <<capture, ring, captured, writer, faults>>
      /\ UNCHANGED <<state, prevState, confirmTimer, syncing, presses, maxSent, session, workQueue,
                    dropped, mySession, again, job, prepared, saved>>
  BY Zenon DEF Release, Tap, TimePasses, Post, loop, audioVars, capture, writer, work
<1>2. CaptureTypes' /\ RingTypes' /\ WriterTypes' /\ faults' \in 0 .. MaxFaults
  BY <1>1, AudioKept DEF Basics
<1>3. QueueTypes' /\ WorkTypes'
  BY <1>1, Zenon DEF Basics, Types, QueueTypes, WorkTypes
<1>4. Staged' /\ worker' = worker
  <2>1. CASE Tap
    BY <2>1, TapMovesIn, MovesStaged, StagesListed DEF Basics, TapMoves
  <2>2. CASE todo' = todo
    BY <2>2, Zenon DEF Basics, Staged, worker, tap
  <2> QED
    BY <2>1, <2>2, Zenon DEF Release, TimePasses, audioVars
<1>5. /\ cancelled' = cancelled \/ cancelled' = session
      /\ stable' \in {stable, FALSE} /\ age' \in {age, "long", "max"}
  BY Zenon DEF Release, Tap, TimePasses
<1>6. ButtonTypes'
  BY <1>1, <1>5, Zenon DEF Basics, Types, ButtonTypes
<1>7. Numbers'
  <2>1. session \in Nat
    BY AudioAssumption DEF Basics, Types, ButtonTypes, Sessions
  <2> QED
    BY <1>1, <1>5, <2>1 DEF Basics, Numbers
<1>8. events' = events \/ events' = Append(events, "REC_RELEASE")
  BY Zenon DEF Release, Tap, TimePasses, Post, loop
<1>9. "REC_RELEASE" \in Events \cup States
  BY DEF Events
<1>10. LoopTypes'
  <2>1. events' \in Seq(Events \cup States)
    BY <1>8, <1>9, Posted DEF Basics, Types, LoopTypes
  <2> QED
    BY <1>1, <2>1, Zenon DEF Basics, Types, LoopTypes
<1>11. Owed'
  <2>1. CASE events' = events
    BY <1>1, <1>4, <2>1, OwedKept DEF Basics
  <2>2. CASE events' = Append(events, "REC_RELEASE")
    BY <1>1, <1>4, <1>9, <2>2, OwedPosted DEF Basics
  <2> QED
    BY <1>8, <2>1, <2>2
<1> QED
  BY <1>2, <1>3, <1>4, <1>6, <1>7, <1>10, <1>11 DEF Basics, Types

\* The end of a tap keeps them.
LEMMA DiscardBasics ==
  ASSUME Basics, Discard
  PROVE  Basics'
<1>1. /\ UNCHANGED <<capture, ring, captured, writer, faults>>
      /\ UNCHANGED <<state, prevState, confirmTimer, syncing, stable, presses, age, maxSent,
           session,
                    cancelled, workQueue, dropped, mySession, again, job, prepared, saved>>
      /\ events' = Append(events, "REC_DISCARD")
  BY Zenon DEF Discard, Post, capture, writer, button, work
<1>2. CaptureTypes' /\ RingTypes' /\ WriterTypes' /\ faults' \in 0 .. MaxFaults
  BY <1>1, AudioKept DEF Basics
<1>3. ButtonTypes' /\ QueueTypes' /\ WorkTypes'
  BY <1>1, Zenon DEF Basics, Types, ButtonTypes, QueueTypes, WorkTypes
<1>4. Staged' /\ worker' = worker
  BY DiscardMoves, MovesStaged, StagesListed DEF Basics, TapMoves
<1>5. Numbers'
  BY <1>1 DEF Basics, Numbers
<1>6. "REC_DISCARD" \in Events \cup States
  BY DEF Events
<1>7. LoopTypes'
  <2>1. events' \in Seq(Events \cup States)
    BY <1>1, <1>6, Posted DEF Basics, Types, LoopTypes
  <2> QED
    BY <1>1, <2>1, Zenon DEF Basics, Types, LoopTypes
<1>8. Owed'
  BY <1>1, <1>4, <1>6, OwedPosted DEF Basics
<1> QED
  BY <1>2, <1>3, <1>4, <1>5, <1>7, <1>8 DEF Basics, Types

\* The worker takes a command: RECORDING becomes a preparation.
LEMMA TakesBasics ==
  ASSUME Basics, WorkerTakes
  PROVE  Basics'
<1>1. /\ UNCHANGED <<capture, ring, captured, writer, faults>>
      /\ UNCHANGED <<state, events, prevState, confirmTimer, syncing, stable, presses, age,
           maxSent, session,
                    cancelled, dropped, mySession, again, job, prepared, saved>>
      /\ workQueue # <<>> /\ workQueue' = Tail(workQueue)
  BY Zenon DEF WorkerTakes, loop, capture, writer, button, work
<1>2. CaptureTypes' /\ RingTypes' /\ WriterTypes' /\ faults' \in 0 .. MaxFaults
  BY <1>1, AudioKept DEF Basics
<1>3. LoopTypes' /\ ButtonTypes' /\ WorkTypes'
  BY <1>1, Zenon DEF Basics, Types, LoopTypes, ButtonTypes, WorkTypes
<1>4. workQueue \in Seq(Commands) /\ Len(workQueue) <= WorkCap /\ WorkCap \in Nat
  BY RecAssumption DEF Basics, Types, QueueTypes
<1>5. QueueTypes'
  <2>1. /\ Tail(workQueue) \in Seq(Commands) /\ Len(workQueue) \in Nat
        /\ Len(Tail(workQueue)) = Len(workQueue) - 1
    BY <1>1, <1>4, Taken
  <2>2. Len(workQueue') <= WorkCap
    BY <1>1, <1>4, <2>1
  <2>3. workQueue' \in Seq(Commands) /\ dropped' \in BOOLEAN
    BY <1>1, <2>1 DEF Basics, Types, QueueTypes
  <2> QED
    BY <2>2, <2>3 DEF QueueTypes
<1>6. \/ Head(workQueue) = "RECORDING" /\ Moves(<<>>, ToPrepare)
      \/ Head(workQueue) # "RECORDING" /\ Moves(<<>>, ToStop)
      \/ Head(workQueue) # "RECORDING" /\ Moves(<<>>, <<>>)
  BY <1>4, TakesMoves DEF Basics
<1>7. Staged'
  BY <1>6, MovesStaged, StagesListed DEF Basics
<1>8. worker # ToPrepare /\ (worker' = ToPrepare => Head(workQueue) = "RECORDING")
  <2>1. <<>> # ToPrepare /\ ToStop # ToPrepare
    BY StagesApart DEF Ends
  <2> QED
    BY <1>6, <2>1 DEF Moves
<1>9. Numbers'
  BY <1>1 DEF Basics, Numbers
<1>10. Owed'
  <2>1. /\ Count(workQueue, "RECORDING")
             = Count(Tail(workQueue),
                 "RECORDING") + (IF Head(workQueue) = "RECORDING" THEN 1 ELSE 0)
        /\ Count(workQueue, "RECORDING") \in Nat /\ Count(Tail(workQueue), "RECORDING") \in Nat
    BY <1>1, <1>4, <1>5, CountTaken, CountType DEF QueueTypes
  <2>2. /\ (IF worker' = ToPrepare THEN 1 ELSE 0) + Count(workQueue', "RECORDING")
             <= (IF worker = ToPrepare THEN 1 ELSE 0) + Count(workQueue, "RECORDING")
        /\ Count(workQueue', "RECORDING") \in Nat
    BY <1>1, <1>8, <2>1
  <2>3. Count(events, "RECORDING") \in Nat /\ Count(events, "REC_PRESS") \in Nat
    BY CountType DEF Basics, Types, LoopTypes
  <2>4. prepared \in Nat /\ presses \in Nat
    BY AudioAssumption DEF Basics, Types, WorkTypes, ButtonTypes, Wavs, Sessions
  <2> QED
    BY <1>1, <2>1, <2>2, <2>3, <2>4 DEF Basics, Owed
<1> QED
  BY <1>2, <1>3, <1>5, <1>7, <1>9, <1>10 DEF Basics, Types

\* A look at the session keeps them.
LEMMA CheckBasics ==
  ASSUME Basics, NEW call, NEW undo, Check(call, undo),
         \E from, to \in WorkerStages \ {ToPrepare} : Moves(from, to)
  PROVE  Basics'
<1>1. /\ UNCHANGED <<capture, ring, captured, writer, faults>>
      /\ UNCHANGED <<state, events, prevState, confirmTimer, syncing, stable, presses, age,
           maxSent, session,
                    cancelled, workQueue, dropped, mySession, again, job, prepared, saved>>
  BY Zenon DEF Check, loop, capture, writer, button, work
<1>2. CaptureTypes' /\ RingTypes' /\ WriterTypes' /\ faults' \in 0 .. MaxFaults
  BY <1>1, AudioKept DEF Basics
<1>3. LoopTypes' /\ ButtonTypes' /\ QueueTypes' /\ WorkTypes'
  BY <1>1, Zenon DEF Basics, Types, LoopTypes, ButtonTypes, QueueTypes, WorkTypes
<1>4. Staged' /\ (worker' = ToPrepare <=> worker = ToPrepare)
  BY MovesStaged DEF Basics, Moves
<1>5. Numbers'
  BY <1>1 DEF Basics, Numbers
<1>6. Owed'
  BY <1>1, <1>4, OwedKept DEF Basics
<1> QED
  BY <1>2, <1>3, <1>4, <1>5, <1>6 DEF Basics, Types

\* The three looks at the session keep them.
LEMMA ChecksBasics ==
  ASSUME Basics, \/ Check("check", <<>>)
                 \/ Check("checkOpen", <<"abort", "stop">>)
                 \/ Check("checkCapture", <<"stop", "abort">>)
  PROVE  Basics'
<1>1. /\ {ToCheck, ToOpen, ToCheckOpen, ToCapture, ToCheckCapture} \subseteq Begins
      /\ {UndoOpen, UndoCapture} \subseteq Undoes
  BY Zenon DEF Begins, Undoes
<1>2. {<<>>, ToCheck, ToOpen, ToCheckOpen, ToCapture, ToCheckCapture, UndoOpen, UndoCapture}
        \subseteq WorkerStages \ {ToPrepare}
  BY <1>1, StagesApart DEF WorkerStages
<1>3. Staged
  BY DEF Basics
<1>4. CASE Check("check", <<>>)
  BY <1>2, <1>3, <1>4, CheckMoves, CheckBasics
<1>5. CASE Check("checkOpen", <<"abort", "stop">>)
  BY <1>2, <1>3, <1>5, CheckOpenMoves, CheckBasics
<1>6. CASE Check("checkCapture", <<"stop", "abort">>)
  BY <1>2, <1>3, <1>6, CheckCaptureMoves, CheckBasics
<1> QED
  BY <1>4, <1>5, <1>6

\* A preparation becomes a capture, which is what it owes.
LEMMA PrepareBasics ==
  ASSUME Basics, Prepare
  PROVE  Basics'
<1>1. /\ UNCHANGED <<capture, ring, captured, writer>> /\ (Fault \/ faults' = faults)
      /\ UNCHANGED <<state, events, prevState, confirmTimer, syncing, stable, presses, age,
                     maxSent, session, cancelled, workQueue, dropped, saved>>
      /\ mySession' = session
  BY Zenon DEF Prepare, loop, button, NoFault
<1>2. CaptureTypes' /\ RingTypes' /\ WriterTypes' /\ faults' \in 0 .. MaxFaults
  BY <1>1, AudioKept DEF Basics
<1>3. LoopTypes' /\ ButtonTypes' /\ QueueTypes'
  BY <1>1, Zenon DEF Basics, Types, LoopTypes, ButtonTypes, QueueTypes
<1>4. /\ worker = ToPrepare /\ worker' # ToPrepare /\ Staged'
      /\ \/ job' = 0 /\ prepared' = prepared
         \/ prepared' = prepared + 1 /\ job' = prepared'
  <2>1. /\ {ToFail, <<>>, ToCheck} \subseteq WorkerStages
        /\ ToFail # ToPrepare /\ <<>> # ToPrepare /\ ToCheck # ToPrepare
    BY StagesListed, StagesApart DEF Begins, Ends
  <2>2. \E to \in {ToFail, <<>>, ToCheck} : Moves(ToPrepare, to)
    BY PrepareMoves DEF Basics
  <2>3. worker = ToPrepare /\ worker' # ToPrepare /\ Staged'
    BY <2>1, <2>2, MovesStaged DEF Basics, Moves
  <2>4. \/ job' = 0 /\ prepared' = prepared
        \/ prepared' = prepared + 1 /\ job' = prepared'
    BY Zenon DEF Prepare
  <2> QED
    BY <2>3, <2>4
<1>5. /\ Count(workQueue, "RECORDING") \in Nat
      /\ Count(events, "RECORDING") \in Nat /\ Count(events, "REC_PRESS") \in Nat
  BY CountType DEF Basics, Types, QueueTypes, LoopTypes
<1>6. /\ prepared \in Nat /\ presses \in Nat /\ MaxPresses \in Nat /\ presses <= MaxPresses
      /\ session \in Nat /\ session \in Sessions
  BY AudioAssumption DEF Basics, Types, WorkTypes, ButtonTypes, Wavs, Sessions
<1>7. prepared + 1 <= presses + 1
  BY <1>4, <1>5, <1>6 DEF Basics, Owed
<1>8. prepared' \in Nat /\ prepared' <= prepared + 1 /\ prepared' \in Wavs \cup {0}
  BY <1>4, <1>6, <1>7 DEF Wavs
<1>9. WorkTypes'
  <2>1. job' \in Wavs \cup {0}
    BY <1>4, <1>8
  <2>2. again' = (again \/ (Active(session) /\ (Recording \/ session = mySession)))
    BY Zenon DEF Prepare
  <2>3. again' \in BOOLEAN
    BY <2>2
  <2> QED
    BY <1>1, <1>6, <1>8, <2>1, <2>3 DEF Basics, Types, WorkTypes
<1>10. Numbers'
  BY <1>1, <1>6 DEF Basics, Numbers
<1>11. Owed'
  BY <1>1, <1>4, <1>5, <1>6, <1>8 DEF Basics, Owed
<1> QED
  BY <1>2, <1>3, <1>4, <1>9, <1>10, <1>11 DEF Basics, Types

\* A command given up keeps them.
LEMMA FailedBasics ==
  ASSUME Basics, Failed
  PROVE  Basics'
<1>1. /\ UNCHANGED <<capture, ring, captured, writer, faults>>
      /\ UNCHANGED <<state, prevState, confirmTimer, syncing, stable, presses, age, maxSent,
           session,
                    cancelled, workQueue, dropped, mySession, again, job, prepared, saved>>
      /\ events' = Append(events, "ERROR")
  BY Zenon DEF Failed, Post, capture, writer, button, work
<1>2. CaptureTypes' /\ RingTypes' /\ WriterTypes' /\ faults' \in 0 .. MaxFaults
  BY <1>1, AudioKept DEF Basics
<1>3. ButtonTypes' /\ QueueTypes' /\ WorkTypes'
  BY <1>1, Zenon DEF Basics, Types, ButtonTypes, QueueTypes, WorkTypes
<1>4. Staged' /\ worker # ToPrepare /\ worker' # ToPrepare
  BY FailedMoves, MovesStaged, StagesListed, StagesApart DEF Basics, Moves, Ends
<1>5. Numbers'
  BY <1>1 DEF Basics, Numbers
<1>6. "ERROR" \in Events \cup States
  BY DEF Events
<1>7. LoopTypes'
  <2>1. events' \in Seq(Events \cup States)
    BY <1>1, <1>6, Posted DEF Basics, Types, LoopTypes
  <2> QED
    BY <1>1, <2>1, Zenon DEF Basics, Types, LoopTypes
<1>8. Owed'
  BY <1>1, <1>4, <1>6, OwedPosted DEF Basics
<1> QED
  BY <1>2, <1>3, <1>4, <1>5, <1>7, <1>8 DEF Basics, Types

\* The end of handle_finalizing keeps them.
LEMMA EnqueueBasics ==
  ASSUME Basics, Enqueue
  PROVE  Basics'
<1>1. /\ UNCHANGED <<capture, ring, captured, writer>> /\ (Fault \/ faults' = faults)
      /\ UNCHANGED <<state, prevState, confirmTimer, syncing, stable, presses, age, maxSent,
                     session, cancelled, workQueue, dropped, mySession, again, prepared>>
  BY Zenon DEF Enqueue, Post, button, NoFault
<1>2. CaptureTypes' /\ RingTypes' /\ WriterTypes' /\ faults' \in 0 .. MaxFaults
  BY <1>1, AudioKept DEF Basics
<1>3. ButtonTypes' /\ QueueTypes'
  BY <1>1, Zenon DEF Basics, Types, ButtonTypes, QueueTypes
<1>4. Staged' /\ worker # ToPrepare /\ worker' # ToPrepare
  BY EnqueueMoves, MovesStaged, StagesListed, StagesApart DEF Basics, Moves, Ends
<1>5. Numbers'
  BY <1>1 DEF Basics, Numbers
<1>6. WorkTypes'
  <2>1. job' = 0 \/ job' = job
    BY Zenon DEF Enqueue
  <2>2. job' \in Wavs \cup {0}
    BY <2>1, Zenon DEF Basics, Types, WorkTypes
  <2>3. CASE saved' = saved
    BY <1>1, <2>2, <2>3, Zenon DEF Basics, Types, WorkTypes
  <2>4. CASE /\ job # 0 /\ path # 0
             /\ saved' = saved \cup {[job |-> job, wav |-> path, session |-> mySession]}
    <3>1. job \in Wavs /\ path \in Wavs /\ mySession \in Sessions
      BY <2>4 DEF Basics, Types, WorkTypes, WriterTypes
    <3>2. [job |-> job, wav |-> path, session |-> mySession] \in Jobs
      BY <3>1 DEF Jobs
    <3>3. saved' \subseteq Jobs
      BY <2>4, <3>2 DEF Basics, Types, WorkTypes
    <3> QED
      BY <1>1, <2>2, <3>3, Zenon DEF Basics, Types, WorkTypes
  <2> QED
    BY <2>3, <2>4, Zenon DEF Enqueue
<1>7. PICK x \in {"FINALIZE_DONE", "ERROR"} : events' = Append(events, x)
  BY Zenon DEF Enqueue, Post
<1>8. x \in Events \cup States /\ x \notin {"RECORDING", "REC_PRESS"}
  BY DEF Events
<1>9. LoopTypes'
  <2>1. events' \in Seq(Events \cup States)
    BY <1>7, <1>8, Posted DEF Basics, Types, LoopTypes
  <2> QED
    BY <1>1, <2>1, Zenon DEF Basics, Types, LoopTypes
<1>10. Owed'
  BY <1>1, <1>4, <1>7, <1>8, OwedPosted DEF Basics
<1> QED
  BY <1>2, <1>3, <1>4, <1>5, <1>6, <1>9, <1>10 DEF Basics, Types

\* They hold at the start.
LEMMA BasicsInit == Init => Basics
<1> SUFFICES ASSUME Init PROVE Basics
  OBVIOUS
<1>1. MaxPresses \in Nat /\ MaxChunks \in Nat /\ MaxFaults \in Nat /\ RingCap \in Nat
          /\ WorkCap \in Nat
  BY AudioAssumption, RecAssumption
<1>2. 0 \in Sessions /\ 0 \in 0 .. MaxChunks /\ 0 \in 0 .. MaxFaults
  BY <1>1 DEF Sessions
<1>3. \A S : <<>> \in Seq(S) /\ Len(<<>>) = 0
  BY EmptySeq
<1>4. CaptureTypes
  BY Zenon DEF Init, AudioInit, CaptureTypes
<1>5. RingTypes
  <2>1. ring = <<>> /\ captured = [s \in Sessions |-> 0]
    BY DEF Init, AudioInit
  <2>2. captured \in [Sessions -> 0 .. MaxChunks]
    BY <1>2, <2>1
  <2> QED
    BY <1>1, <1>3, <2>1, <2>2 DEF RingTypes
<1>6. WriterTypes
  <2>1. wav = [n \in Wavs |-> <<>>]
    BY DEF Init, AudioInit
  <2>2. wav \in [Wavs -> Seq(Sessions)]
    BY <1>3, <2>1
  <2>3. file = 0 /\ path = 0 /\ writerRun = FALSE /\ writing = FALSE /\ writerDone = FALSE
    BY DEF Init, AudioInit
  <2> QED
    BY <2>2, <2>3 DEF WriterTypes
<1>7. faults \in 0 .. MaxFaults
  BY <1>2 DEF Init, AudioInit
<1>8. PICK boot \in Boots : events = <<boot>>
  BY DEF Init
<1>9. boot \in {"BOOT_COMPLETE", "REC_PRESS", "PROVISION_REQUEST"}
  BY <1>8, RecAssumption
<1>10. boot \in Events \cup States
  BY <1>9 DEF Events
<1>11. events \in Seq(Events \cup States)
  BY <1>8, <1>10
<1>12. LoopTypes
  BY <1>11 DEF Init, LoopTypes, States
<1>13. ButtonTypes
  <2>1. stable \in BOOLEAN
    BY DEF Init
  <2> QED
    BY <1>2, <2>1 DEF Init, ButtonTypes
<1>14. QueueTypes
  <2>1. workQueue = <<>> /\ dropped = FALSE
    BY DEF Init
  <2>2. workQueue \in Seq(Commands) /\ Len(workQueue) <= WorkCap
    BY <1>1, <1>3, <2>1
  <2> QED
    BY <2>1, <2>2 DEF QueueTypes
<1>15. WorkTypes
  BY <1>2 DEF Init, WorkTypes
<1>16. Staged
  <2>1. todo = [t \in Tasks |-> <<>>]
    BY DEF Init, AudioInit
  <2>2. worker = <<>> /\ tap = <<>>
    BY <2>1 DEF worker, tap, Tasks
  <2>3. todo \in [Tasks -> Seq(Calls)]
    BY <1>3, <2>1
  <2> QED
    BY <2>2, <2>3, StagesListed DEF Staged
<1>17. Numbers
  BY DEF Init, Numbers
<1>18. Owed
  <2>1. worker # ToPrepare
    BY StagesApart DEF Init, AudioInit, worker, Tasks
  <2>2. Count(workQueue, "RECORDING") = 0
    BY CountEmpty DEF Init
  <2>3. events = Append(<<>>, boot)
    BY <1>8
  <2>4. Count(events, "RECORDING") = 0 /\ Count(events, "REC_PRESS") <= 1
        /\ Count(events, "REC_PRESS") \in Nat
    <3>1. \A x : Count(<<>>, x) = 0
      BY CountEmpty
    <3>2. \A x : Count(Append(<<>>, boot), x) = Count(<<>>, x) + (IF boot = x THEN 1 ELSE 0)
      <4> DEFINE S == Events \cup States
      <4>1. <<>> \in Seq(S) /\ boot \in S
        BY <1>3, <1>10
      <4> HIDE DEF S
      <4> QED
        BY <4>1, CountPosted
    <3> QED
      BY <1>9, <2>3, <3>1, <3>2
  <2> QED
    BY <2>1, <2>2, <2>4 DEF Init, Owed
<1> QED
  BY <1>4, <1>5, <1>6, <1>7, <1>12, <1>13, <1>14, <1>15, <1>16, <1>17, <1>18 DEF Basics, Types

\* Every step keeps them.
LEMMA BasicsStep == Basics /\ [Next]_vars => Basics'
<1> SUFFICES ASSUME Basics, [Next]_vars PROVE Basics'
  OBVIOUS
<1>1. CASE EventLoop
  BY <1>1, TransitionBasics, BridgeBasics, IgnoreBasics, Zenon DEF EventLoop
<1>2. CASE ConfirmTimer \/ SyncFinishes
  BY <1>2, AnnounceBasics
<1>3. CASE Press
  BY <1>3, PressBasics
<1>4. CASE Release \/ Tap \/ TimePasses
  BY <1>4, HandBasics
<1>5. CASE ButtonTask
  BY <1>5, ButtonCallsBasics, DiscardBasics, AnnounceBasics, Zenon DEF ButtonTask
<1>6. CASE Worker
  <2>1. CASE WorkerTakes \/ Prepare \/ Enqueue \/ Failed
    BY <2>1, TakesBasics, PrepareBasics, EnqueueBasics, FailedBasics
  <2>2. CASE \/ Check("check", <<>>)
             \/ Check("checkOpen", <<"abort", "stop">>)
             \/ Check("checkCapture", <<"stop", "abort">>)
    BY <2>2, ChecksBasics
  <2>3. CASE WorkerCalls
    BY <2>3, WorkerCallsBasics
  <2> QED
    BY <1>6, <2>1, <2>2, <2>3, Zenon DEF Worker
<1>7. CASE AudioTask \/ WriterTask
  BY <1>7, TasksBasics
<1>8. CASE UNCHANGED vars
  <2>1. UNCHANGED <<capture, ring, captured, writer, todo, faults>>
        /\ UNCHANGED <<loop, button, workQueue, dropped, work, syncing>>
    BY <1>8, Zenon DEF vars, audioVars
  <2>2. Staged' /\ worker' = worker
    BY <2>1, Zenon DEF Basics, Staged, worker, tap
  <2> QED
    BY <2>1, <2>2, AudioKept, AudioBasics DEF Basics
<1> QED
  BY <1>1, <1>2, <1>3, <1>4, <1>5, <1>6, <1>7, <1>8, Zenon DEF Next

\* The type invariant of the recording flow.  That no capture is numbered
\* beyond the WAVs there may be (rec_worker.c counts s_seq up for each command it
\* serves) holds only because one command follows one press: Owed.
THEOREM RecTypes == Spec => []TypeOK
<1>1. Basics => TypeOK
  BY TypesAreTypeOK DEF Basics, Staged
<1> QED
  BY <1>1, BasicsInit, BasicsStep, PTL DEF Spec

-----------------------------------------------------------------------------
(* As long as nothing fails and no command is served twice, the state      *)
(* machine, the worker and a tap hand a recording to one another.  What is *)
(* on its way to whom is what the invariant says.                          *)

Regularly == faults = 0 /\ ~again

On == ToSet(events)
Rest == ToSet(Tail(events))
Queued == ToSet(workQueue)

\* The end of a recording.
Ending == {"REC_RELEASE", "RECORD_MAX", "REC_DISCARD"}

\* The events that may be left over when a state is entered and are ignored in it,
\* and those that are posted in it and lead out of it.
Left(s) ==
  CASE s \in {"IDLE", "FINALIZING"} -> Ending
    [] s = "RECORDING" -> {"REC_PRESS", "SYNC_REQUEST"}
    [] s = "SYNC" -> {"REC_PRESS"}
    [] OTHER -> {}
New(s) ==
  CASE s = "BOOT" -> Boots
    [] s = "IDLE" -> {"REC_PRESS", "SYNC_REQUEST"}
    [] s = "RECORDING" -> Ending
    [] s = "FINALIZING" -> {"FINALIZE_DONE", "ERROR"}
    [] s = "CONFIRM" -> {"CONFIRM_DONE"}
    [] s = "SYNC" -> {"SYNC_DONE"}
    [] OTHER -> {}

LoopShape ==
  /\ state \in {"BOOT", "IDLE", "RECORDING", "FINALIZING", "CONFIRM", "SYNC", "PROVISION"}
  /\ On \subseteq Left(state) \cup {state} \cup New(state)
  /\ Never(events, New(state), States \cup Left(state))
  /\ Never(events, {state}, {state})
  /\ state \in {"BOOT", "FINALIZING", "CONFIRM", "SYNC"} => Never(events, New(state), New(state))
  /\ Never(events, {"SYNC_REQUEST"}, {"SYNC_REQUEST"})

\* The bridge has heard of the state, or the news is on its way.
Told == state \notin On => prevState = state

\* A sync has been asked for, or the bridge is about to.
SyncAhead == "SYNC_REQUEST" \in On \/ ("IDLE" \in On /\ prevState \in {"CONFIRM", "BOOT"})

Timers ==
  /\ state = "IDLE" /\ "IDLE" \in On => "SYNC_REQUEST" \notin On
  /\ state # "CONFIRM" => ~confirmTimer
  /\ confirmTimer => "CONFIRM_DONE" \notin On
  /\ state = "SYNC" /\ "SYNC" \in On => "SYNC_DONE" \notin On
  /\ syncing => state = "SYNC" /\ "SYNC" \notin On /\ "SYNC_DONE" \notin On

\* A tap, and what it and the release make of a recording.
TapShape ==
  /\ tap # <<>> => /\ cancelled = session /\ session # 0
                   /\ On \cap {"REC_RELEASE", "RECORD_MAX"} = {}
                   /\ state \in {"RECORDING", "IDLE"}
                   /\ state = "IDLE" => "REC_PRESS" \notin On /\ ~SyncAhead
  /\ age = "short" => session # 0
  /\ age = "short" /\ state = "RECORDING" => On \cap {"REC_RELEASE", "RECORD_MAX"} = {}
  /\ state = "RECORDING" /\ cancelled = session /\ session # 0 => tap # <<>> \/ "REC_DISCARD" \in On
  /\ state = "RECORDING" /\ "REC_DISCARD" \in On => cancelled = session /\ session # 0
  /\ state = "RECORDING" => Never(events, {"REC_RELEASE", "RECORD_MAX"}, {"REC_DISCARD"})
  /\ state = "IDLE" /\ "REC_PRESS" \in On => session # cancelled
  /\ state = "FINALIZING" => session # cancelled \/ session = 0
  /\ state = "BOOT" => session = 0

\* A FINALIZING is on its way to the worker or its end on its way back, never two.
FinalizingShape ==
  /\ state # "FINALIZING" => "FINALIZING" \notin Queued /\ worker \notin Ends
  /\ state = "FINALIZING" =>
       /\ "FINALIZING" \in On => /\ "FINALIZING" \notin Queued /\ worker \notin Ends
                                 /\ On \cap New("FINALIZING") = {}
       /\ "FINALIZING" \in Queued => worker \notin Ends /\ On \cap New("FINALIZING") = {}
       /\ worker \in Ends => workQueue = <<>> /\ On \cap New("FINALIZING") = {}
       /\ On \cap New("FINALIZING") # {} => workQueue = <<>>
  /\ Never(workQueue, {"FINALIZING"}, Commands)

\* The beep of CONFIRM is the last thing the worker has to do.
ConfirmShape ==
  /\ Never(workQueue, {"RECORDING", "FINALIZING"}, {"CONFIRM"})
  /\ "CONFIRM" \in Queued => worker = <<>> /\ ~Recording

\* The worker has nothing more to do with a recording.
Settled == Queued \subseteq {"CONFIRM"} /\ worker = <<>> /\ ~Recording

Resting ==
  \/ state \in {"BOOT", "CONFIRM", "SYNC", "PROVISION"}
  \/ state = "IDLE" /\ SyncAhead
  \/ state = "FINALIZING" /\ "FINALIZE_DONE" \in On
Rests == Resting => Settled

\* The session of the button is on its way to the worker.
RecAhead ==
  /\ Active(session)
  /\ \/ state \in {"IDLE", "BOOT"} /\ "REC_PRESS" \in On
     \/ "RECORDING" \in On
     \/ "RECORDING" \in Queued
     \/ worker = ToPrepare

\* Who will stop the microphone, and who will close the WAV.
MicStages ==
  Begins \cup {UndoOpen, UndoOpenWait, UndoStop, UndoStopWait, UndoCapture, UndoCaptureWait}
FileStages ==
  Begins \cup {UndoOpen, UndoOpenWait, UndoCapture, UndoCaptureWait, UndoAbort, UndoAbortWait}
MicOwned ==
  capturing =>
    \/ Active(mySession) \/ RecAhead
    \/ worker \in MicStages
    \/ tap \in {TapStop, TapStopWait}
FileOwned ==
  writing \/ file # 0 =>
    \/ Active(mySession) \/ RecAhead
    \/ worker \in FileStages
    \/ tap \in {TapStop, TapStopWait, TapAbort, TapAbortWait}

\* What holds at the stages of the worker.
WorkShape ==
  /\ (writing \/ file # 0 \/ worker = ToSpawn) /\ Active(mySession) => path = job /\ job # 0
  /\ worker \in {Finalizing, ToEnqueue} => path = job /\ job # 0 /\ Active(mySession)
  /\ worker \in {ToCheck, ToOpen} => job # 0 /\ ~Recording
  /\ worker \in Undoes => ~Active(mySession)
  /\ worker \in Ends \ {ToStop, Stopping} => ~capturing
  /\ worker = Stopping => ~captureRun
  /\ worker \in {ToEnqueue, ToGiveUp, GivingUp, ToFail} => ~writing /\ file = 0

\* The jobs in the queue are numbered and told apart.
SavedShape ==
  /\ job \in {0, prepared}
  /\ \A j \in saved : /\ j.job = j.wav /\ j.job <= prepared
                      /\ j.session <= mySession /\ j.session # cancelled
                      /\ job # 0 => j.job # job /\ j.session # mySession
  /\ \A j, k \in saved : j.job = k.job \/ j.session = k.session => j = k
  /\ state = "BOOT" => saved = {}
  /\ state = "RECORDING" \/ (state = "IDLE" /\ "REC_PRESS" \in On) =>
       \A j \in saved : j.session # session
  /\ state = "CONFIRM" \/ (state = "FINALIZING" /\ "FINALIZE_DONE" \in On) =>
       \E j \in saved : j.session = session

\* What the two semaphores and the two flags say of the tasks.
Plain ==
  /\ stopDone => ~capturing
  /\ captureRun => capturing
  /\ writerDone => ~writing
  /\ file # 0 => writing \/ worker = ToSpawn

Regular ==
  /\ LoopShape /\ Told /\ Timers /\ TapShape
  /\ FinalizingShape /\ ConfirmShape /\ Rests
  /\ Plain /\ MicOwned /\ FileOwned /\ WorkShape /\ SavedShape

RecInv == Basics /\ (Regularly => Regular)

-----------------------------------------------------------------------------
(* The event loop. *)

\* What is on its way once something more has been posted.
LEMMA EventPosted ==
  ASSUME NEW t \in Seq(Events \cup States), NEW x \in Events \cup States
  PROVE  ToSet(Append(t, x)) = ToSet(t) \cup {x}
  BY Posted

\* The events of each state, spelled out.
LEMMA LeftAndNew ==
  /\ Left("BOOT") = {} /\ Left("CONFIRM") = {} /\ Left("PROVISION") = {}
  /\ Left("IDLE") = Ending /\ Left("FINALIZING") = Ending
  /\ Left("RECORDING") = {"REC_PRESS", "SYNC_REQUEST"} /\ Left("SYNC") = {"REC_PRESS"}
  /\ New("BOOT") = Boots /\ New("IDLE") = {"REC_PRESS", "SYNC_REQUEST"} /\ New("RECORDING") = Ending
  /\ New("FINALIZING") = {"FINALIZE_DONE", "ERROR"} /\ New("CONFIRM") = {"CONFIRM_DONE"}
  /\ New("SYNC") = {"SYNC_DONE"} /\ New("PROVISION") = {}
<1>1. /\ Left("BOOT") = {} /\ Left("CONFIRM") = {} /\ Left("PROVISION") = {}
      /\ Left("IDLE") = Ending /\ Left("FINALIZING") = Ending
      /\ Left("RECORDING") = {"REC_PRESS", "SYNC_REQUEST"} /\ Left("SYNC") = {"REC_PRESS"}
  BY DEF Left
<1>2. /\ New("BOOT") = Boots /\ New("IDLE") = {"REC_PRESS", "SYNC_REQUEST"}
      /\ New("RECORDING") = Ending /\ New("FINALIZING") = {"FINALIZE_DONE", "ERROR"}
      /\ New("CONFIRM") = {"CONFIRM_DONE"} /\ New("SYNC") = {"SYNC_DONE"} /\ New("PROVISION") = {}
  BY DEF New
<1> QED
  BY <1>1, <1>2

\* The states of a regular run, and their events, which are no states.
Stations == {"BOOT", "IDLE", "RECORDING", "FINALIZING", "CONFIRM", "SYNC", "PROVISION"}

\* None of these events is the news of a state.
LEMMA EventsAreNoStates ==
  ASSUME NEW s \in Stations
  PROVE  /\ New(s) \cap States = {} /\ Left(s) \cap States = {}
         /\ "SYNC_REQUEST" \notin States /\ "REC_DISCARD" \notin States
<1>1. Boots \cap States = {}
  BY RecAssumption DEF States
<1>2. Ending \cap States = {}
  BY DEF Ending, States
<1>3. /\ {"REC_PRESS", "SYNC_REQUEST", "REC_DISCARD"} \cap States = {}
      /\ {"FINALIZE_DONE", "ERROR", "CONFIRM_DONE", "SYNC_DONE"} \cap States = {}
  BY DEF States
<1> QED
  BY <1>1, <1>2, <1>3, LeftAndNew DEF Stations

\* The first event leads out of its state exactly if it was posted in it.
LEMMA FirstEvent ==
  ASSUME LoopTypes, LoopShape, events # <<>>
  PROVE  /\ On = {Head(events)} \cup ToSet(Tail(events))
         /\ Head(events) = state => state \notin ToSet(Tail(events))
         /\ Head(events) \in New(state) =>
              /\ ToSet(Tail(events)) \subseteq New(state)
              /\ state \notin On
              /\ state \in {"BOOT", "FINALIZING", "CONFIRM", "SYNC"} => ToSet(Tail(events)) = {}
         /\ Head(events) = "SYNC_REQUEST" => "SYNC_REQUEST" \notin ToSet(Tail(events))
<1>1. events \in Seq(Events \cup States)
  BY DEF LoopTypes
<1>2. On = {Head(events)} \cup ToSet(Tail(events))
  BY <1>1, Taken DEF On
<1>3. state \in Stations /\ On \subseteq Left(state) \cup {state} \cup New(state)
  BY DEF LoopShape, Stations
<1>4. state \in States /\ New(state) \cap States = {} /\ Left(state) \cap States = {}
  BY <1>3, EventsAreNoStates DEF LoopTypes
<1>5. Head(events) \in {state} => ToSet(Tail(events)) \cap {state} = {}
  BY <1>1, TakenNever DEF LoopShape
<1>6. Head(events) \in New(state) => ToSet(Tail(events)) \cap (States \cup Left(state)) = {}
  BY <1>1, TakenNever DEF LoopShape
<1>7. /\ Head(events) \in New(state)
      /\ state \in {"BOOT", "FINALIZING", "CONFIRM", "SYNC"}
      => ToSet(Tail(events)) \cap New(state) = {}
  BY <1>1, TakenNever DEF LoopShape
<1>8. Head(events) \in {"SYNC_REQUEST"} => ToSet(Tail(events)) \cap {"SYNC_REQUEST"} = {}
  BY <1>1, TakenNever DEF LoopShape
<1>9. Head(events) \in New(state) => ToSet(Tail(events)) \subseteq New(state)
  BY <1>2, <1>3, <1>4, <1>6
<1> QED
  BY <1>2, <1>4, <1>5, <1>7, <1>8, <1>9

\* The transitions of a regular run.
LEMMA RegularTransition ==
  ASSUME LoopTypes, LoopShape, Told, NEW s \in States, Transition(s),
         NEW rest, rest = ToSet(Tail(events))
  PROVE  /\ On = {Head(events)} \cup rest /\ On' = rest \cup {s}
         /\ state' = s /\ prevState = state /\ prevState' = prevState /\ state \notin On
         /\ confirmTimer' = (s = "CONFIRM")
         /\ \/ /\ state = "BOOT" /\ rest = {}
               /\ \/ s = "IDLE" \/ s = "PROVISION"
                  \/ s = "RECORDING" /\ Head(events) = "REC_PRESS"
            \/ /\ state = "IDLE" /\ Head(events) = "REC_PRESS"
               /\ s = "RECORDING" /\ rest \subseteq {"REC_PRESS", "SYNC_REQUEST"}
            \/ /\ state = "IDLE" /\ Head(events) = "SYNC_REQUEST"
               /\ s = "SYNC" /\ rest \subseteq {"REC_PRESS"}
            \/ /\ state = "RECORDING" /\ Head(events) \in {"REC_RELEASE", "RECORD_MAX"}
               /\ s = "FINALIZING" /\ rest \subseteq Ending
            \/ /\ state = "RECORDING" /\ Head(events) = "REC_DISCARD"
               /\ s = "IDLE" /\ rest \subseteq Ending
            \/ /\ state = "FINALIZING" /\ Head(events) = "FINALIZE_DONE" /\ s = "CONFIRM"
                    /\ rest = {}
            \/ /\ state = "FINALIZING" /\ Head(events) = "ERROR" /\ s = "IDLE" /\ rest = {}
            \/ /\ state = "CONFIRM" /\ Head(events) = "CONFIRM_DONE" /\ s = "IDLE" /\ rest = {}
            \/ /\ state = "SYNC" /\ Head(events) = "SYNC_DONE" /\ s = "IDLE" /\ rest = {}
<1>1. /\ events # <<>> /\ events \in Seq(Events \cup States)
      /\ <<state, Head(events), s>> \in Transitions
      /\ events' = Append(Tail(events), s) /\ state' = s /\ prevState' = prevState
      /\ confirmTimer' = (s = "CONFIRM")
  BY DEF Transition, LoopTypes
<1>2. /\ On = {Head(events)} \cup rest
      /\ Head(events) \in New(state) =>
           /\ rest \subseteq New(state)
           /\ state \notin On
           /\ state \in {"BOOT", "FINALIZING", "CONFIRM", "SYNC"} => rest = {}
      /\ Head(events) = "SYNC_REQUEST" => "SYNC_REQUEST" \notin rest
  BY <1>1, FirstEvent
<1>3. On' = rest \cup {s}
  <2>1. Tail(events) \in Seq(Events \cup States) /\ s \in Events \cup States
    BY <1>1, Taken
  <2>2. ToSet(Append(Tail(events), s)) = ToSet(Tail(events)) \cup {s}
    BY <2>1, EventPosted, Zenon
  <2> QED
    BY <1>1, <2>2 DEF On
<1>4. Head(events) \in Left(state) \cup {state} \cup New(state) /\ state \in Stations
  BY <1>2 DEF LoopShape, Stations
<1>5. CASE state = "BOOT"
  <2>1. Head(events) \in Boots
    BY <1>1, <1>4, <1>5, LeftAndNew DEF Transitions
  <2>2. rest = {} /\ state \notin On /\ Head(events) \in New(state)
    BY <1>2, <1>5, <2>1, LeftAndNew
  <2>3. s \in {"IDLE", "PROVISION"} \/ (s = "RECORDING" /\ Head(events) = "REC_PRESS")
    BY <1>1, <1>5, <2>1, RecAssumption DEF Transitions
  <2> QED
    BY <1>1, <1>2, <1>3, <1>5, <2>2, <2>3 DEF Told
<1>6. CASE state = "IDLE"
  <2>1. \/ Head(events) = "REC_PRESS" /\ s = "RECORDING"
        \/ Head(events) = "SYNC_REQUEST" /\ s = "SYNC"
    BY <1>1, <1>4, <1>6, LeftAndNew DEF Transitions, Ending
  <2>2. rest \subseteq {"REC_PRESS", "SYNC_REQUEST"} /\ state \notin On
    BY <1>2, <1>6, <2>1, LeftAndNew
  <2> QED
    BY <1>1, <1>2, <1>3, <1>6, <2>1, <2>2 DEF Told
<1>7. CASE state = "RECORDING"
  <2>1. \/ Head(events) \in {"REC_RELEASE", "RECORD_MAX"} /\ s = "FINALIZING"
        \/ Head(events) = "REC_DISCARD" /\ s = "IDLE"
    BY <1>1, <1>4, <1>7, LeftAndNew DEF Transitions, Ending
  <2>2. rest \subseteq Ending /\ state \notin On
    BY <1>2, <1>7, <2>1, LeftAndNew DEF Ending
  <2> QED
    BY <1>1, <1>2, <1>3, <1>7, <2>1, <2>2 DEF Told
<1>8. CASE state = "FINALIZING"
  <2>1. \/ Head(events) = "FINALIZE_DONE" /\ s = "CONFIRM"
        \/ Head(events) = "ERROR" /\ s = "IDLE"
    BY <1>1, <1>4, <1>8, LeftAndNew DEF Transitions, Ending
  <2>2. rest = {} /\ state \notin On
    BY <1>2, <1>8, <2>1, LeftAndNew
  <2> QED
    BY <1>1, <1>2, <1>3, <1>8, <2>1, <2>2 DEF Told
<1>9. CASE state = "CONFIRM"
  <2>1. Head(events) = "CONFIRM_DONE" /\ s = "IDLE"
    BY <1>1, <1>4, <1>9, LeftAndNew DEF Transitions
  <2>2. rest = {} /\ state \notin On
    BY <1>2, <1>9, <2>1, LeftAndNew
  <2> QED
    BY <1>1, <1>2, <1>3, <1>9, <2>1, <2>2 DEF Told
<1>10. CASE state = "SYNC"
  <2>1. Head(events) = "SYNC_DONE" /\ s = "IDLE"
    BY <1>1, <1>4, <1>10, LeftAndNew DEF Transitions
  <2>2. rest = {} /\ state \notin On
    BY <1>2, <1>10, <2>1, LeftAndNew
  <2> QED
    BY <1>1, <1>2, <1>3, <1>10, <2>1, <2>2 DEF Told
<1>11. CASE state = "PROVISION"
  BY <1>1, <1>4, <1>11, LeftAndNew DEF Transitions
<1> QED
  BY <1>4, <1>5, <1>6, <1>7, <1>8, <1>9, <1>10, <1>11 DEF Stations

\* The bridge hears of the present state, and only of that.
LEMMA RegularBridge ==
  ASSUME LoopTypes, LoopShape, NEW s \in States, Bridge(s), NEW rest, rest = ToSet(Tail(events))
  PROVE  /\ s = state /\ On = {state} \cup rest /\ state \notin rest
         /\ On' = rest \cup (IF state = "IDLE" /\ prevState \in {"CONFIRM", "BOOT"}
                             THEN {"SYNC_REQUEST"} ELSE {})
         /\ prevState' = state /\ state' = state
<1>1. /\ events # <<>> /\ Head(events) = s /\ prevState' = s /\ state' = state
  BY DEF Bridge
<1>2. On = {s} \cup rest /\ (s = state => state \notin rest)
  BY <1>1, FirstEvent
<1>3. s = state
  <2>1. s \in Left(state) \cup {state} \cup New(state) /\ state \in Stations
    BY <1>2 DEF LoopShape, Stations
  <2> QED
    BY <2>1, EventsAreNoStates
<1>4. /\ Tail(events) \in Seq(Events \cup States)
      /\ events' = IF s = "IDLE" /\ prevState \in {"CONFIRM", "BOOT"}
                   THEN Append(Tail(events), "SYNC_REQUEST") ELSE Tail(events)
  BY BridgedEvents
<1>5. ToSet(Append(Tail(events), "SYNC_REQUEST")) = rest \cup {"SYNC_REQUEST"}
  <2>1. "SYNC_REQUEST" \in Events \cup States
    BY DEF Events
  <2>2. ToSet(Append(Tail(events), "SYNC_REQUEST")) = ToSet(Tail(events)) \cup {"SYNC_REQUEST"}
    BY <1>4, <2>1, EventPosted, Zenon
  <2> QED
    BY <2>2
<1>6. CASE s = "IDLE" /\ prevState \in {"CONFIRM", "BOOT"}
  BY <1>1, <1>2, <1>3, <1>4, <1>5, <1>6 DEF On
<1>7. CASE ~(s = "IDLE" /\ prevState \in {"CONFIRM", "BOOT"})
  BY <1>1, <1>2, <1>3, <1>4, <1>7 DEF On
<1> QED
  BY <1>6, <1>7

\* Only what an earlier state has left is ignored.
LEMMA RegularIgnore ==
  ASSUME LoopTypes, LoopShape, Ignore, NEW rest, rest = ToSet(Tail(events))
  PROVE  /\ On = {Head(events)} \cup rest /\ On' = rest
         /\ Head(events) \in Left(state) /\ Head(events) \notin New(state) \cup States
         /\ UNCHANGED <<state, prevState, confirmTimer>>
<1>1. /\ events # <<>> /\ Head(events) \notin States /\ events' = Tail(events)
      /\ \A next \in States : <<state, Head(events), next>> \notin Transitions
      /\ UNCHANGED <<state, prevState, confirmTimer>>
  BY DEF Ignore
<1>2. On = {Head(events)} \cup rest
  BY <1>1, FirstEvent
<1>3. Head(events) \in Left(state) \cup {state} \cup New(state) /\ state \in Stations
          /\ state \in States
  BY <1>2 DEF LoopShape, Stations, LoopTypes
<1>4. ASSUME Head(events) \in New(state) PROVE FALSE
  <2>1. \E next \in States : <<state, Head(events), next>> \in Transitions
    <3>1. CASE state = "BOOT"
      <4>1. Head(events) \in {"BOOT_COMPLETE", "REC_PRESS", "PROVISION_REQUEST"}
        BY <1>4, <3>1, LeftAndNew, RecAssumption
      <4> QED
        BY <3>1, <4>1 DEF Transitions, States
    <3>2. CASE state = "IDLE"
      BY <1>4, <3>2, LeftAndNew DEF Transitions, States
    <3>3. CASE state = "RECORDING"
      BY <1>4, <3>3, LeftAndNew DEF Transitions, States, Ending
    <3>4. CASE state = "FINALIZING"
      BY <1>4, <3>4, LeftAndNew DEF Transitions, States
    <3>5. CASE state = "CONFIRM"
      BY <1>4, <3>5, LeftAndNew DEF Transitions, States
    <3>6. CASE state = "SYNC"
      BY <1>4, <3>6, LeftAndNew DEF Transitions, States
    <3>7. CASE state = "PROVISION"
      BY <1>4, <3>7, LeftAndNew
    <3> QED
      BY <1>3, <3>1, <3>2, <3>3, <3>4, <3>5, <3>6, <3>7 DEF Stations
  <2> QED
    BY <1>1, <2>1
<1> QED
  BY <1>1, <1>2, <1>3, <1>4 DEF On

\* An event that belongs to the state and of which there is no other keeps the shape.
LEMMA PostedShape ==
  ASSUME LoopTypes, LoopShape, NEW x \in Events, events' = Append(events, x), state' = state,
         x \notin States, x # "SYNC_REQUEST", x \in New(state) \cup Left(state),
         x \in Left(state) => On \cap New(state) = {},
         x \in New(state) /\ state \in {"BOOT", "FINALIZING", "CONFIRM", "SYNC"}
           => On \cap New(state) = {}
  PROVE  LoopShape' /\ On' = On \cup {x}
<1>1. events \in Seq(Events \cup States) /\ x \in Events \cup States /\ state \in States
  BY DEF LoopTypes
<1>2. On' = On \cup {x}
  <2>1. ToSet(Append(events, x)) = ToSet(events) \cup {x}
    BY <1>1, EventPosted, Zenon
  <2> QED
    BY <2>1 DEF On
<1>3. Left(state)' = Left(state) /\ New(state)' = New(state)
  BY DEF Left, New
<1>4. state' \in {"BOOT", "IDLE", "RECORDING", "FINALIZING", "CONFIRM", "SYNC", "PROVISION"}
  BY DEF LoopShape
<1>5. On' \subseteq Left(state') \cup {state'} \cup New(state')
  BY <1>2 DEF LoopShape
<1>6. Never(events', New(state'), States \cup Left(state'))
  <2>1. x \in States \cup Left(state) => ToSet(events) \cap New(state) = {}
    BY DEF On
  <2>2. Never(events, New(state), States \cup Left(state))
    BY DEF LoopShape
  <2>3. Never(Append(events, x), New(state), States \cup Left(state))
    BY <1>1, <2>1, <2>2, PostedNever
  <2> QED
    BY <2>3
<1>7. Never(events', {state'}, {state'})
  <2>1. x \in {state} => ToSet(events) \cap {state} = {}
    BY <1>1
  <2>2. Never(events, {state}, {state})
    BY DEF LoopShape
  <2>3. Never(Append(events, x), {state}, {state})
    BY <1>1, <2>1, <2>2, PostedNever
  <2> QED
    BY <2>3
<1>8. ASSUME state' \in {"BOOT", "FINALIZING", "CONFIRM", "SYNC"}
      PROVE  Never(events', New(state'), New(state'))
  <2>1. x \in New(state) => ToSet(events) \cap New(state) = {}
    BY <1>8 DEF On
  <2>2. Never(events, New(state), New(state))
    BY <1>8 DEF LoopShape
  <2>3. Never(Append(events, x), New(state), New(state))
    BY <1>1, <2>1, <2>2, PostedNever
  <2> QED
    BY <2>3
<1>9. Never(events', {"SYNC_REQUEST"}, {"SYNC_REQUEST"})
  <2>1. x \in {"SYNC_REQUEST"} => ToSet(events) \cap {"SYNC_REQUEST"} = {}
    OBVIOUS
  <2>2. Never(events, {"SYNC_REQUEST"}, {"SYNC_REQUEST"})
    BY DEF LoopShape
  <2>3. Never(Append(events, x), {"SYNC_REQUEST"}, {"SYNC_REQUEST"})
    BY <1>1, <2>1, <2>2, PostedNever
  <2> QED
    BY <2>3
<1> QED
  BY <1>2, <1>4, <1>5, <1>6, <1>7, <1>8, <1>9, Zenon DEF LoopShape

\* If nothing of A is on its way, nothing comes after it.
LEMMA NoneNever ==
  ASSUME NEW s, NEW A, NEW B, ToSet(s) \cap A = {} \/ ToSet(s) \cap B = {}
  PROVE  Never(s, A, B)
<1>1. SUFFICES ASSUME NEW i \in DOMAIN s, NEW j \in DOMAIN s, s[i] \in A, s[j] \in B
               PROVE  FALSE
  BY DEF Never
<1>2. s[i] \in ToSet(s) /\ s[j] \in ToSet(s)
  BY DEF ToSet
<1> QED
  BY <1>1, <1>2

\* A transition keeps the shape of the queue of the loop.
LEMMA TransitionShape ==
  ASSUME LoopTypes, LoopShape, Told, NEW s \in States, Transition(s)
  PROVE  LoopShape' /\ Told'
<1>1. /\ On = {Head(events)} \cup Rest /\ On' = Rest \cup {s} /\ state' = s
      /\ events' = Append(Tail(events), s) /\ events # <<>>
      /\ events \in Seq(Events \cup States)
  BY RegularTransition DEF Transition, LoopTypes, Rest
<1>2. Tail(events) \in Seq(Events \cup States) /\ s \in Events \cup States
  BY <1>1, Taken
\* What is left may be ignored in the next state, and nothing of it is new in one
\* where there can be only one.
<1>3. /\ s \in {"IDLE", "RECORDING", "FINALIZING", "CONFIRM", "SYNC", "PROVISION"}
      /\ Rest \subseteq Left(s) \cup New(s)
      /\ Rest \cap States = {}
      /\ s # "RECORDING" => Rest \cap New(s) = {}
      /\ Rest \cap New(s) = {} \/ Rest \cap Left(s) = {}
      /\ s = "RECORDING" => Rest \cap New(s) = {}
  <2>1. Ending \cap States = {} /\ {"REC_PRESS", "SYNC_REQUEST"} \cap States = {}
    BY DEF Ending, States
  <2>2. Ending \cap {"REC_PRESS", "SYNC_REQUEST"} = {}
    BY DEF Ending
  <2>3. Ending \cap {"FINALIZE_DONE", "ERROR"} = {}
    BY DEF Ending
  <2>4. \/ s \in {"IDLE", "RECORDING", "CONFIRM", "PROVISION"} /\ Rest = {}
        \/ s = "RECORDING" /\ Rest \subseteq {"REC_PRESS", "SYNC_REQUEST"}
        \/ s = "SYNC" /\ Rest \subseteq {"REC_PRESS"}
        \/ s = "FINALIZING" /\ Rest \subseteq Ending
        \/ s = "IDLE" /\ Rest \subseteq Ending
    BY RegularTransition DEF Rest
  <2>5. CASE s \in {"IDLE", "RECORDING", "CONFIRM", "PROVISION"} /\ Rest = {}
    BY <2>5
  <2>6. CASE s = "RECORDING" /\ Rest \subseteq {"REC_PRESS", "SYNC_REQUEST"}
    BY <2>1, <2>2, <2>6, LeftAndNew
  <2>7. CASE s = "SYNC" /\ Rest \subseteq {"REC_PRESS"}
    BY <2>1, <2>7, LeftAndNew
  <2>8. CASE s = "FINALIZING" /\ Rest \subseteq Ending
    BY <2>1, <2>3, <2>8, LeftAndNew
  <2>9. CASE s = "IDLE" /\ Rest \subseteq Ending
    BY <2>1, <2>2, <2>9, LeftAndNew
  <2> QED
    BY <2>4, <2>5, <2>6, <2>7, <2>8, <2>9
<1>4. s \notin Rest /\ s \notin New(s)
  BY <1>3, EventsAreNoStates DEF Stations
<1>5. On' \subseteq Left(state') \cup {state'} \cup New(state')
  BY <1>1, <1>3
<1>6. On' \cap New(s) = {}
  BY <1>1, <1>3, <1>4
<1>7. Never(events', New(s), States \cup Left(s)) /\ Never(events', New(s), New(s))
  BY <1>6, NoneNever DEF On
<1>8. Never(events', {s}, {s})
  <2>1. ToSet(Tail(events)) \cap {s} = {}
    BY <1>4 DEF Rest
  <2>2. Never(Tail(events), {s}, {s})
    BY <2>1, NoneNever
  <2>3. Never(Append(Tail(events), s), {s}, {s})
    BY <1>2, <2>1, <2>2, PostedNever
  <2> QED
    BY <1>1, <2>3
<1>9. Never(events', {"SYNC_REQUEST"}, {"SYNC_REQUEST"})
  <2>1. Never(Tail(events), {"SYNC_REQUEST"}, {"SYNC_REQUEST"})
    BY <1>1, TakenNever DEF LoopShape
  <2>2. s \notin {"SYNC_REQUEST"}
    BY <1>3
  <2>3. Never(Append(Tail(events), s), {"SYNC_REQUEST"}, {"SYNC_REQUEST"})
    BY <1>2, <2>1, <2>2, PostedNever
  <2> QED
    BY <1>1, <2>3
<1>10. LoopShape'
  <2>1. state' \in {"BOOT", "IDLE", "RECORDING", "FINALIZING", "CONFIRM", "SYNC", "PROVISION"}
    BY <1>1, <1>3
  <2> QED
    BY <1>1, <1>5, <1>7, <1>8, <1>9, <2>1, Zenon DEF LoopShape
<1>11. Told'
  BY <1>1 DEF Told
<1> QED
  BY <1>10, <1>11

\* The bridge keeps it.
LEMMA BridgeShape ==
  ASSUME LoopTypes, LoopShape, Timers, NEW s \in States, Bridge(s)
  PROVE  LoopShape' /\ Told'
<1>1. /\ s = state /\ On = {state} \cup Rest /\ state \notin Rest
      /\ On' = Rest \cup (IF state = "IDLE" /\ prevState \in {"CONFIRM", "BOOT"}
                          THEN {"SYNC_REQUEST"} ELSE {})
      /\ prevState' = state /\ state' = state
  BY RegularBridge DEF Rest
<1>2. /\ Tail(events) \in Seq(Events \cup States)
      /\ events' = IF s = "IDLE" /\ prevState \in {"CONFIRM", "BOOT"}
                   THEN Append(Tail(events), "SYNC_REQUEST") ELSE Tail(events)
  BY BridgedEvents
<1>3. events # <<>> /\ events \in Seq(Events \cup States)
  BY DEF Bridge, LoopTypes
<1>4. Told'
  BY <1>1 DEF Told
<1>5. /\ Never(Tail(events), New(state), States \cup Left(state))
      /\ Never(Tail(events), {state}, {state})
      /\ state \in {"BOOT", "FINALIZING", "CONFIRM", "SYNC"} => Never(Tail(events), New(state),
           New(state))
      /\ Never(Tail(events), {"SYNC_REQUEST"}, {"SYNC_REQUEST"})
  <2>1. \A A, B : Never(events, A, B) => Never(Tail(events), A, B)
    BY <1>3, TakenNever
  <2> QED
    BY <2>1 DEF LoopShape
<1>6. CASE events' = Tail(events) /\ On' = Rest
  BY <1>1, <1>5, <1>6, <1>4 DEF LoopShape
<1>7. CASE /\ state = "IDLE" /\ events' = Append(Tail(events), "SYNC_REQUEST")
           /\ On' = Rest \cup {"SYNC_REQUEST"}
  <2>1. "SYNC_REQUEST" \notin Rest
    BY <1>1, <1>7 DEF Timers
  <2>2. "SYNC_REQUEST" \in New(state) /\ "SYNC_REQUEST" \notin Left(state)
            /\ "SYNC_REQUEST" \notin States
        /\ "SYNC_REQUEST" \in Events \cup States
    BY <1>7, LeftAndNew DEF Ending, States, Events
  <2>3. \A A, B : Never(Tail(events), A, B) /\ ("SYNC_REQUEST" \in B => Rest \cap A = {})
          => Never(Append(Tail(events), "SYNC_REQUEST"), A, B)
    BY <1>2, <2>2, PostedNever DEF Rest
  <2>4. Never(events', New(state), States \cup Left(state))
    BY <1>5, <1>7, <2>2, <2>3
  <2>5. Never(events', {state}, {state})
    BY <1>5, <1>7, <2>3
  <2>6. Never(events', {"SYNC_REQUEST"}, {"SYNC_REQUEST"})
    BY <1>5, <1>7, <2>1, <2>3
  <2>7. On' \subseteq Left(state) \cup {state} \cup New(state)
    BY <1>1, <1>7, <2>2 DEF LoopShape
  <2> QED
    BY <1>1, <1>4, <1>7, <2>4, <2>5, <2>6, <2>7 DEF LoopShape
<1> QED
  BY <1>1, <1>2, <1>6, <1>7

\* An ignored event keeps it.
LEMMA IgnoreShape ==
  ASSUME LoopTypes, LoopShape, Told, Ignore
  PROVE  LoopShape' /\ Told'
<1>1. /\ On = {Head(events)} \cup Rest /\ On' = Rest
      /\ Head(events) \in Left(state) /\ Head(events) \notin New(state) \cup States
      /\ UNCHANGED <<state, prevState, confirmTimer>>
  BY RegularIgnore DEF Rest
<1>2. events # <<>> /\ events \in Seq(Events \cup States) /\ events' = Tail(events)
          /\ state \in States
  BY DEF Ignore, LoopTypes
<1>3. \A A, B : Never(events, A, B) => Never(Tail(events), A, B)
  BY <1>2, TakenNever
<1>4. LoopShape'
  BY <1>1, <1>2, <1>3 DEF LoopShape
<1>5. Told'
  BY <1>1, <1>2 DEF Told
<1> QED
  BY <1>4, <1>5

\* A transition keeps what the timers and the sync task are worth.
LEMMA TransitionTimers ==
  ASSUME LoopTypes, LoopShape, Told, Timers, NEW s \in States, Transition(s)
  PROVE  Timers'
<1>1. /\ On = {Head(events)} \cup Rest /\ On' = Rest \cup {s} /\ state' = s
      /\ confirmTimer' = (s = "CONFIRM")
      /\ \/ Rest = {} /\ s # "SYNC" /\ (state = "SYNC" => Head(events) = "SYNC_DONE")
         \/ state # "SYNC" /\ s = "RECORDING"
         \/ state # "SYNC" /\ s = "SYNC" /\ Rest \subseteq {"REC_PRESS"}
         \/ state # "SYNC" /\ s \in {"FINALIZING", "IDLE"} /\ Rest \subseteq Ending
  BY RegularTransition DEF Rest
<1>2. syncing' = FALSE
  <2>1. syncing' = syncing /\ syncing \in BOOLEAN
    BY DEF Transition, LoopTypes
  <2>2. ~syncing
    BY <1>1 DEF Timers
  <2> QED
    BY <2>1, <2>2, Zenon
<1>3. "SYNC_REQUEST" \notin Ending
  BY DEF Ending
<1> QED
  BY <1>1, <1>2, <1>3 DEF Timers

\* The bridge keeps it.
LEMMA BridgeTimers ==
  ASSUME LoopTypes, LoopShape, Timers, NEW s \in States, Bridge(s)
  PROVE  Timers'
<1>1. /\ s = state /\ On = {state} \cup Rest /\ state \notin Rest
      /\ On' = Rest \cup (IF state = "IDLE" /\ prevState \in {"CONFIRM", "BOOT"}
                          THEN {"SYNC_REQUEST"} ELSE {})
      /\ state' = state
  BY RegularBridge DEF Rest
<1>2. confirmTimer' = confirmTimer /\ (syncing' <=> syncing \/ state = "SYNC")
  BY <1>1, Zenon DEF Bridge
<1>3. On' \subseteq Rest \cup {"SYNC_REQUEST"} /\ state \notin On'
  <2>1. state # "SYNC_REQUEST"
    BY DEF LoopTypes, States
  <2> QED
    BY <1>1, <2>1
<1>4. ~(state' = "IDLE" /\ "IDLE" \in On')
  BY <1>1, <1>3
<1>5. state' # "CONFIRM" => ~confirmTimer'
  BY <1>1, <1>2 DEF Timers
<1>6. confirmTimer' => "CONFIRM_DONE" \notin On'
  BY <1>1, <1>2, <1>3 DEF Timers
<1>7. ~(state' = "SYNC" /\ "SYNC" \in On')
  BY <1>1, <1>3
<1>8. syncing' => state' = "SYNC" /\ "SYNC" \notin On' /\ "SYNC_DONE" \notin On'
  BY <1>1, <1>2, <1>3 DEF Timers
<1> QED
  BY <1>4, <1>5, <1>6, <1>7, <1>8, Zenon DEF Timers

\* An ignored event keeps it.
LEMMA IgnoreTimers ==
  ASSUME LoopTypes, LoopShape, Told, Timers, Ignore
  PROVE  Timers'
<1>1. On' \subseteq On /\ UNCHANGED <<state, confirmTimer, syncing>>
          /\ ("IDLE" \in On' <=> "IDLE" \in On)
  BY RegularIgnore DEF Ignore, States
<1> QED
  BY <1>1 DEF Timers

\* The events that neither a timer nor the sync task posts.
LEMMA PostedTimers ==
  ASSUME Timers, NEW x, On' = On \cup {x}, UNCHANGED <<state, confirmTimer, syncing>>,
         x \notin {"IDLE", "SYNC", "SYNC_REQUEST", "CONFIRM_DONE", "SYNC_DONE"}
  PROVE  Timers'
  BY DEF Timers

\* All of the loop: the shape of its queue, what the bridge knows, and the timers.
LoopInv == LoopShape /\ Told /\ Timers

\* The handlers of the loop keep its invariant.
LEMMA EventLoopKeepsLoop ==
  ASSUME LoopTypes, LoopInv, EventLoop
  PROVE  LoopInv'
<1>1. ASSUME NEW s \in States, Transition(s) PROVE LoopInv'
  BY <1>1, TransitionShape, TransitionTimers DEF LoopInv
<1>2. ASSUME NEW s \in States, Bridge(s) PROVE LoopInv'
  BY <1>2, BridgeShape, BridgeTimers DEF LoopInv
<1>3. CASE Ignore
  BY <1>3, IgnoreShape, IgnoreTimers DEF LoopInv
<1> QED
  BY <1>1, <1>2, <1>3 DEF EventLoop

\* The timer of CONFIRM and the sync task keep it.
LEMMA TimersKeepLoop ==
  ASSUME LoopTypes, LoopInv, ConfirmTimer \/ SyncFinishes
  PROVE  LoopInv' /\ UNCHANGED <<state, prevState>>
         /\ (On' = On \cup {"CONFIRM_DONE"} \/ On' = On \cup {"SYNC_DONE"})
         /\ state \in {"CONFIRM", "SYNC"}
<1>1. CASE ConfirmTimer
  <2>1. /\ state = "CONFIRM" /\ "CONFIRM_DONE" \notin On /\ ~syncing /\ syncing' = syncing
        /\ events' = Append(events, "CONFIRM_DONE") /\ UNCHANGED <<state, prevState>>
             /\ ~confirmTimer'
    BY <1>1 DEF ConfirmTimer, LoopInv, Timers
  <2>2. "CONFIRM_DONE" \in Events /\ "CONFIRM_DONE" \notin States
    BY DEF Events, States
  <2>3. LoopShape' /\ On' = On \cup {"CONFIRM_DONE"}
    BY <2>1, <2>2, PostedShape, LeftAndNew DEF LoopInv
  <2>4. Told'
    BY <2>1, <2>3 DEF Told, LoopInv
  <2>5. Timers'
    BY <2>1 DEF Timers
  <2> QED
    BY <2>1, <2>3, <2>4, <2>5 DEF LoopInv
<1>2. CASE SyncFinishes
  <2>1. /\ state = "SYNC" /\ "SYNC_DONE" \notin On /\ "SYNC" \notin On /\ ~confirmTimer
        /\ events' = Append(events, "SYNC_DONE") /\ UNCHANGED <<state, prevState, confirmTimer>>
             /\ ~syncing'
    BY <1>2 DEF SyncFinishes, Post, LoopInv, Timers
  <2>2. "SYNC_DONE" \in Events /\ "SYNC_DONE" \notin States
    BY DEF Events, States
  <2>3. LoopShape' /\ On' = On \cup {"SYNC_DONE"}
    BY <2>1, <2>2, PostedShape, LeftAndNew DEF LoopInv
  <2>4. Told'
    BY <2>1, <2>3 DEF Told, LoopInv
  <2>5. Timers'
    BY <2>1, <2>3 DEF Timers
  <2> QED
    BY <2>1, <2>3, <2>4, <2>5 DEF LoopInv
<1> QED
  BY <1>1, <1>2

\* An event that a task posts in a state that it belongs to.
LEMMA PostKeepsLoop ==
  ASSUME LoopTypes, LoopInv, NEW x \in Ending \cup {"REC_PRESS", "FINALIZE_DONE", "ERROR"},
         Post(x), syncing' = syncing,
         x \in New(state) \cup Left(state),
         x \in Left(state) => On \cap New(state) = {},
         state = "FINALIZING" => On \cap New(state) = {},
         state \notin {"BOOT", "CONFIRM", "SYNC"}
  PROVE  LoopInv' /\ On' = On \cup {x} /\ UNCHANGED <<state, prevState, confirmTimer>>
<1>1. x \in Events /\ x \notin States /\ x # "SYNC_REQUEST"
      /\ x \notin {"IDLE", "SYNC", "SYNC_REQUEST", "CONFIRM_DONE", "SYNC_DONE"}
  BY DEF Ending, Events, States
<1>2. events' = Append(events, x) /\ UNCHANGED <<state, prevState, confirmTimer>>
  BY DEF Post
<1>3. LoopShape' /\ On' = On \cup {x}
  BY <1>1, <1>2, PostedShape DEF LoopInv
<1>4. Told'
  BY <1>2, <1>3 DEF Told, LoopInv
<1>5. Timers'
  BY <1>1, <1>2, <1>3, PostedTimers DEF LoopInv
<1> QED
  BY <1>2, <1>3, <1>4, <1>5 DEF LoopInv

\* So does every step that leaves the loop alone.
LEMMA LoopKept ==
  ASSUME LoopInv, UNCHANGED <<state, events, prevState, confirmTimer, syncing>>
  PROVE  LoopInv' /\ On' = On
  BY DEF LoopInv, LoopShape, Told, Timers, On, Left, New, Never

\* The stages differ from one another.
LEMMA StagesDiffer ==
  /\ ToPrepare \notin {ToCheck, ToOpen, ToSpawn, ToCheckOpen, ToCapture, ToRun,
                        ToCheckCapture}
  /\ ToCheck \notin {ToOpen, ToSpawn, ToCheckOpen, ToCapture, ToRun, ToCheckCapture}
  /\ ToOpen \notin {ToSpawn, ToCheckOpen, ToCapture, ToRun, ToCheckCapture}
  /\ ToSpawn \notin {ToCheckOpen, ToCapture, ToRun, ToCheckCapture}
  /\ ToCheckOpen \notin {ToCapture, ToRun, ToCheckCapture}
  /\ ToCapture \notin {ToRun, ToCheckCapture}
  /\ ToRun \notin {ToCheckCapture}
  /\ UndoOpen \notin {UndoOpenWait, UndoStop, UndoStopWait, UndoCapture, UndoCaptureWait,
                       UndoAbort, UndoAbortWait}
  /\ UndoOpenWait \notin {UndoStop, UndoStopWait, UndoCapture, UndoCaptureWait, UndoAbort,
                           UndoAbortWait}
  /\ UndoStop \notin {UndoStopWait, UndoCapture, UndoCaptureWait, UndoAbort, UndoAbortWait}
  /\ UndoStopWait \notin {UndoCapture, UndoCaptureWait, UndoAbort, UndoAbortWait}
  /\ UndoCapture \notin {UndoCaptureWait, UndoAbort, UndoAbortWait}
  /\ UndoCaptureWait \notin {UndoAbort, UndoAbortWait}
  /\ UndoAbort \notin {UndoAbortWait}
  /\ ToStop \notin {Stopping, ToFinalize, Finalizing, ToEnqueue, ToGiveUp, GivingUp, ToFail}
  /\ Stopping \notin {ToFinalize, Finalizing, ToEnqueue, ToGiveUp, GivingUp, ToFail}
  /\ ToFinalize \notin {Finalizing, ToEnqueue, ToGiveUp, GivingUp, ToFail}
  /\ Finalizing \notin {ToEnqueue, ToGiveUp, GivingUp, ToFail}
  /\ ToEnqueue \notin {ToGiveUp, GivingUp, ToFail}
  /\ ToGiveUp \notin {GivingUp, ToFail}
  /\ GivingUp \notin {ToFail}
  /\ TapStop \notin {TapStopWait, TapAbort, TapAbortWait, TapDone}
  /\ TapStopWait \notin {TapAbort, TapAbortWait, TapDone}
  /\ TapAbort \notin {TapAbortWait, TapDone}
  /\ TapAbortWait \notin {TapDone}
  BY SMTT(60) DEF ToPrepare, ToCheck, ToOpen, ToSpawn, ToCheckOpen, ToCapture, ToRun, ToCheckCapture,
    UndoOpen, UndoOpenWait, UndoStop, UndoStopWait, UndoCapture, UndoCaptureWait, UndoAbort,
    UndoAbortWait, ToStop, Stopping, ToFinalize, Finalizing, ToEnqueue, ToGiveUp, GivingUp, ToFail,
    TapStop, TapStopWait, TapAbort, TapAbortWait, TapDone

\* A failure is counted.
LEMMA FaultsCount ==
  ASSUME [Next]_vars
  PROVE  faults' = faults \/ faults' = faults + 1
  BY Zenon DEF Next, EventLoop, Transition, Bridge, Ignore, ConfirmTimer, SyncFinishes, Press,
    Release, Tap, TimePasses, ButtonTask, ButtonCalls, Discard, RecordMax, Worker, WorkerTakes,
    Prepare, Enqueue, Failed, Check, WorkerCalls, AudioTask, WriterTask, CaptureStart, CaptureRun,
    CaptureStop, CaptureStopped, OpenWav, SpawnWriter, Finalize, Finalized, Abort, Aborted,
    AudioReads, AudioEnds, WriterWrites, WriterFinishes, WriterFails, WriterGone, WriterTimeout,
    Fault, NoFault, audioVars, vars

\* A failure is counted, and a second serving is not forgotten.
LEMMA StaysRegular ==
  ASSUME Basics, [Next]_vars, Regularly'
  PROVE  Regularly /\ UNCHANGED faults
<1>1. faults \in Nat
  BY AudioAssumption DEF Basics, Types
<1>2. faults' = faults \/ faults' = faults + 1
  BY FaultsCount
<1>3. again => again'
  BY Zenon DEF Next, EventLoop, Transition, Bridge, Ignore, ConfirmTimer, SyncFinishes, Press,
    Release, Tap, TimePasses, ButtonTask, ButtonCalls, Discard, RecordMax, Worker, WorkerTakes,
    Prepare, Enqueue, Failed, Check, WorkerCalls, AudioTask, WriterTask, work, vars
<1> QED
  BY <1>1, <1>2, <1>3 DEF Regularly

-----------------------------------------------------------------------------
(* A tap and the release of the button. *)

\* No state but the present one is announced.
LEMMA OneState ==
  ASSUME LoopTypes, LoopShape
  PROVE  On \cap States \subseteq {state}
<1>1. state \in Stations /\ On \subseteq Left(state) \cup {state} \cup New(state)
  BY DEF LoopShape, Stations
<1> QED
  BY <1>1, EventsAreNoStates

\* A transition keeps what is known of a tap.
LEMMA TransitionTap ==
  ASSUME LoopTypes, LoopInv, TapShape, NEW s \in States, Transition(s)
  PROVE  TapShape'
<1>1. /\ On = {Head(events)} \cup Rest /\ On' = Rest \cup {s}
      /\ state' = s /\ prevState = state /\ prevState' = prevState
      /\ \/ state = "BOOT" /\ Rest = {} /\ s \in {"IDLE", "PROVISION", "RECORDING"}
         \/ /\ state = "IDLE" /\ "REC_PRESS" \in On /\ s = "RECORDING"
            /\ Rest \subseteq {"REC_PRESS", "SYNC_REQUEST"}
         \/ state = "IDLE" /\ "SYNC_REQUEST" \in On /\ s = "SYNC"
         \/ /\ state = "RECORDING" /\ Head(events) \in {"REC_RELEASE", "RECORD_MAX"}
            /\ s = "FINALIZING"
         \/ /\ state = "RECORDING" /\ Head(events) = "REC_DISCARD"
            /\ s = "IDLE" /\ Rest \subseteq Ending
         \/ state \in {"FINALIZING", "CONFIRM", "SYNC"} /\ s \in {"CONFIRM", "IDLE"} /\ Rest = {}
  BY RegularTransition DEF LoopInv, Rest
<1>2. UNCHANGED <<tap, cancelled, session, age>>
  BY Zenon DEF Transition, audioVars, button, tap
<1>3. s \notin {"REC_RELEASE", "RECORD_MAX", "REC_DISCARD", "REC_PRESS", "SYNC_REQUEST"}
  BY DEF States
<1>4. "REC_PRESS" \notin Ending /\ "SYNC_REQUEST" \notin Ending
  BY DEF Ending
<1>5. On' \cap {"REC_RELEASE", "RECORD_MAX"} \subseteq On \cap {"REC_RELEASE", "RECORD_MAX"}
  BY <1>1, <1>3
<1>6. SyncAhead' => "SYNC_REQUEST" \in On' \/ state \in {"CONFIRM", "BOOT"}
  BY <1>1 DEF SyncAhead
<1>7. ASSUME tap' # <<>>
      PROVE  /\ cancelled' = session' /\ session' # 0
             /\ On' \cap {"REC_RELEASE", "RECORD_MAX"} = {}
             /\ state' \in {"RECORDING", "IDLE"}
             /\ state' = "IDLE" => "REC_PRESS" \notin On' /\ ~SyncAhead'
  <2>1. /\ cancelled = session /\ session # 0 /\ On \cap {"REC_RELEASE", "RECORD_MAX"} = {}
        /\ state = "RECORDING" \/ (state = "IDLE" /\ "REC_PRESS" \notin On
             /\ "SYNC_REQUEST" \notin On)
    BY <1>2, <1>7 DEF TapShape, SyncAhead
  <2>2. state = "RECORDING" /\ s = "IDLE" /\ Rest \subseteq Ending
    BY <1>1, <2>1
  <2>3. "REC_PRESS" \notin On' /\ "SYNC_REQUEST" \notin On'
    BY <1>1, <1>3, <1>4, <2>2
  <2> QED
    BY <1>1, <1>2, <1>5, <1>6, <2>1, <2>2, <2>3
<1>8. ASSUME state' = "RECORDING"
      PROVE  /\ On' \cap {"REC_RELEASE", "RECORD_MAX"} = {}
             /\ "REC_DISCARD" \notin On'
             /\ ~(cancelled' = session' /\ session' # 0)
             /\ Never(events', {"REC_RELEASE", "RECORD_MAX"}, {"REC_DISCARD"})
  <2>1. On' \cap {"REC_RELEASE", "RECORD_MAX"} = {} /\ "REC_DISCARD" \notin On'
    BY <1>1, <1>3, <1>8
  <2>2. ~(cancelled = session /\ session # 0)
    BY <1>1, <1>8 DEF TapShape
  <2> QED
    BY <1>2, <2>1, <2>2, NoneNever DEF On
<1>9. state' = "IDLE" => "REC_PRESS" \notin On'
  BY <1>1, <1>3, <1>4
<1>10. ASSUME state' = "FINALIZING" PROVE session' # cancelled' \/ session' = 0
  <2>1. state = "RECORDING" /\ Head(events) \in {"REC_RELEASE", "RECORD_MAX"} /\ events # <<>>
    BY <1>1, <1>10 DEF Transition
  <2>2. tap = <<>>
    BY <1>1, <2>1 DEF TapShape
  <2>3. "REC_DISCARD" \notin Rest
    BY <2>1, TakenNever DEF TapShape, LoopTypes, Rest
  <2>4. "REC_DISCARD" \notin On
    BY <1>1, <2>1, <2>3
  <2> QED
    BY <1>2, <2>1, <2>2, <2>4 DEF TapShape
<1>11. state' # "BOOT"
  BY <1>1
<1>12. age' = "short" => session' # 0
  BY <1>2 DEF TapShape
<1> QED
  BY <1>7, <1>8, <1>9, <1>10, <1>11, <1>12, Zenon DEF TapShape

\* The bridge keeps it.
LEMMA BridgeTap ==
  ASSUME LoopTypes, LoopInv, TapShape, NEW s \in States, Bridge(s)
  PROVE  TapShape'
<1>1. /\ s = state /\ On = {state} \cup Rest /\ state \notin Rest
      /\ On' = Rest \cup (IF state = "IDLE" /\ prevState \in {"CONFIRM", "BOOT"}
                          THEN {"SYNC_REQUEST"} ELSE {})
      /\ prevState' = state /\ state' = state
  BY RegularBridge DEF LoopInv, Rest
<1>2. UNCHANGED <<tap, cancelled, session, age>>
  BY Zenon DEF Bridge, audioVars, button, tap
<1>3. state \notin {"REC_RELEASE", "RECORD_MAX", "REC_DISCARD", "REC_PRESS", "SYNC_REQUEST"}
  BY DEF LoopTypes, States
<1>4. \A x \in {"REC_RELEASE", "RECORD_MAX", "REC_DISCARD", "REC_PRESS"} : x \in On' <=> x \in On
  BY <1>1, <1>3
<1>5. SyncAhead' => SyncAhead
  <2>1. "IDLE" \in On => state = "IDLE"
    BY OneState DEF LoopInv, States
  <2>2. "IDLE" \notin On'
    BY <1>1, <2>1
  <2> QED
    BY <1>1, <2>2 DEF SyncAhead
<1>6. ASSUME state' = "RECORDING" PROVE Never(events', {"REC_RELEASE", "RECORD_MAX"},
                 {"REC_DISCARD"})
  <2>1. events' = Tail(events) /\ events # <<>> /\ events \in Seq(Events \cup States)
    BY <1>1, <1>6, BridgedEvents DEF Bridge, LoopTypes
  <2>2. Never(events, {"REC_RELEASE", "RECORD_MAX"}, {"REC_DISCARD"})
    BY <1>1, <1>6 DEF TapShape
  <2> QED
    BY <2>1, <2>2, TakenNever
<1>7. On' \cap {"REC_RELEASE", "RECORD_MAX"} = On \cap {"REC_RELEASE", "RECORD_MAX"}
  BY <1>4
<1> QED
  BY <1>1, <1>2, <1>4, <1>5, <1>6, <1>7 DEF TapShape

\* An ignored event keeps it: REC_DISCARD is not ignored in RECORDING.
LEMMA IgnoreTap ==
  ASSUME LoopTypes, LoopInv, TapShape, Ignore
  PROVE  TapShape'
<1>1. /\ On = {Head(events)} \cup Rest /\ On' = Rest
      /\ Head(events) \in Left(state) /\ Head(events) \notin New(state) \cup States
      /\ UNCHANGED <<state, prevState, confirmTimer>>
  BY RegularIgnore DEF LoopInv, Rest
<1>2. UNCHANGED <<tap, cancelled, session, age>>
  BY Zenon DEF Ignore, audioVars, button, tap
<1>3. On' \subseteq On
  BY <1>1
<1>4. SyncAhead' => SyncAhead
  BY <1>1, <1>3 DEF SyncAhead
<1>5. state = "RECORDING" /\ "REC_DISCARD" \in On => "REC_DISCARD" \in On'
  BY <1>1, LeftAndNew DEF Ending
<1>6. ASSUME state' = "RECORDING" PROVE Never(events', {"REC_RELEASE", "RECORD_MAX"},
                 {"REC_DISCARD"})
  <2>1. events' = Tail(events) /\ events # <<>> /\ events \in Seq(Events \cup States)
    BY DEF Ignore, LoopTypes
  <2>2. Never(events, {"REC_RELEASE", "RECORD_MAX"}, {"REC_DISCARD"})
    BY <1>1, <1>6 DEF TapShape
  <2> QED
    BY <2>1, <2>2, TakenNever
<1> QED
  BY <1>1, <1>2, <1>3, <1>4, <1>5, <1>6 DEF TapShape

\* What neither the button's task nor the loop does leaves a tap as it is, and the
\* events posted meanwhile are others.
LEMMA TapKept ==
  ASSUME TapShape, UNCHANGED <<tap, cancelled, session, state, prevState, age>>,
         \/ events' = events
         \/ \E x \in {"CONFIRM_DONE", "SYNC_DONE", "FINALIZE_DONE", "ERROR"} :
              On' = On \cup {x} /\ state # "RECORDING"
  PROVE  TapShape'
<1>1. On' = On \/ \E x \in {"CONFIRM_DONE", "SYNC_DONE", "FINALIZE_DONE",
          "ERROR"} : On' = On \cup {x}
  BY DEF On
<1>2. /\ "REC_PRESS" \in On' <=> "REC_PRESS" \in On
      /\ "REC_DISCARD" \in On' <=> "REC_DISCARD" \in On
      /\ On' \cap {"REC_RELEASE", "RECORD_MAX"} = On \cap {"REC_RELEASE", "RECORD_MAX"}
      /\ "SYNC_REQUEST" \in On' <=> "SYNC_REQUEST" \in On
      /\ "IDLE" \in On' <=> "IDLE" \in On
  BY <1>1
<1>3. SyncAhead' <=> SyncAhead
  BY <1>2 DEF SyncAhead
<1>4. state = "RECORDING" => events' = events
  OBVIOUS
<1> QED
  BY <1>2, <1>3, <1>4 DEF TapShape

\* What the steps of the button's task, but for its calls, do to the rest.
LEMMA HandFrame ==
  ASSUME Press \/ Release \/ Tap \/ TimePasses \/ RecordMax \/ Discard
  PROVE  /\ UNCHANGED <<codec, captureRun, capturing, stopDone, ring, captured, file, path,
                        writerRun, writing, writerDone, wav, faults>>
         /\ UNCHANGED <<state, prevState, confirmTimer, syncing, workQueue, dropped, mySession,
                        again, job, prepared, saved>>
  BY Zenon DEF Press, Release, Tap, TimePasses, RecordMax, Discard, Post, loop, audioVars, capture,
    writer, button, work

\* A press, to the loop and to a tap.
LEMMA PressTap ==
  ASSUME Basics, LoopInv, TapShape, Press
  PROVE  /\ LoopInv' /\ TapShape' /\ UNCHANGED <<worker, tap, cancelled>>
         /\ \/ On' = On /\ session' = session
            \/ /\ state = "IDLE" /\ tap = <<>> /\ On' = On \cup {"REC_PRESS"}
               /\ session' = session + 1 /\ session < session' /\ session' # 0
                    /\ cancelled < session'
<1>1. /\ UNCHANGED <<state, prevState, confirmTimer, syncing>>
      /\ UNCHANGED <<worker, tap, cancelled>> /\ tap = <<>>
  BY HandFrame, Zenon DEF Press, audioVars, worker, tap
<1>2. /\ LoopTypes /\ session \in Nat /\ cancelled \in Nat /\ cancelled <= session
  BY AudioAssumption DEF Basics, Types, ButtonTypes, Sessions, Numbers
<1>3. CASE state = "IDLE"
  <2>1. Post("REC_PRESS") /\ session' = session + 1
    BY <1>3, Zenon DEF Press
  <2>2. "REC_PRESS" \in New(state) /\ "REC_PRESS" \notin Left(state)
    BY <1>3, LeftAndNew DEF Ending
  <2>3. LoopInv' /\ On' = On \cup {"REC_PRESS"}
    BY <1>1, <1>2, <1>3, <2>1, <2>2, PostKeepsLoop
  <2>4. session < session' /\ session' # 0 /\ session' # cancelled' /\ cancelled < session'
    BY <1>1, <1>2, <2>1
  <2>5. TapShape'
    BY <1>1, <1>3, <2>4 DEF TapShape
  <2> QED
    BY <1>1, <1>3, <2>1, <2>3, <2>4, <2>5
<1>4. CASE state # "IDLE"
  <2>1. events' = events /\ session' = session /\ age' = age
    BY <1>4, Zenon DEF Press, loop
  <2>2. LoopInv' /\ On' = On
    BY <1>1, <2>1, LoopKept
  <2>3. TapShape'
    BY <1>1, <2>1, TapKept
  <2> QED
    BY <1>1, <2>1, <2>2, <2>3
<1> QED
  BY <1>3, <1>4

\* The release, and the limit, which counts as one.
LEMMA ReleaseTap ==
  ASSUME LoopTypes, LoopInv, TapShape, Release \/ RecordMax
  PROVE  /\ LoopInv' /\ TapShape' /\ UNCHANGED <<worker, tap, cancelled, session>>
         /\ \/ On' = On
            \/ state = "RECORDING" /\ (On' = On \cup {"REC_RELEASE"}
                 \/ On' = On \cup {"RECORD_MAX"})
<1>1. /\ UNCHANGED <<state, prevState, confirmTimer, syncing>>
      /\ UNCHANGED <<worker, tap, cancelled, session, age>> /\ tap = <<>>
  BY HandFrame, Zenon DEF Release, RecordMax, audioVars, button, worker, tap
<1>2. ASSUME NEW x \in {"REC_RELEASE", "RECORD_MAX"}, Post(x), state = "RECORDING", age # "short"
      PROVE  LoopInv' /\ TapShape' /\ On' = On \cup {x}
  <2>1. x \in New(state) /\ x \notin Left(state) /\ x \in Ending
    BY <1>2, LeftAndNew DEF Ending
  <2>2. LoopInv' /\ On' = On \cup {x}
    BY <1>1, <1>2, <2>1, PostKeepsLoop
  <2>3. /\ events' = Append(events, x) /\ events \in Seq(Events \cup States)
             /\ x \in Events \cup States
        /\ Never(events, {"REC_RELEASE", "RECORD_MAX"}, {"REC_DISCARD"})
    BY <1>2 DEF Post, LoopTypes, TapShape, Events
  <2>4. Never(events', {"REC_RELEASE", "RECORD_MAX"}, {"REC_DISCARD"})
    BY <1>2, <2>3, PostedNever
  <2>5. "REC_DISCARD" \in On' <=> "REC_DISCARD" \in On
    BY <1>2, <2>2
  <2>6. TapShape'
    BY <1>1, <1>2, <2>4, <2>5 DEF TapShape
  <2> QED
    BY <2>2, <2>6
<1>3. CASE events' = events
  BY <1>1, <1>3, LoopKept, TapKept
<1>4. \/ events' = events
      \/ \E x \in {"REC_RELEASE", "RECORD_MAX"} : Post(x) /\ state = "RECORDING" /\ age # "short"
  <2>1. "max" # "short"
    OBVIOUS
  <2> QED
    BY <2>1, Zenon DEF Release, RecordMax, loop
<1> QED
  BY <1>1, <1>2, <1>3, <1>4

\* A tap, to the loop and to itself.
LEMMA TapTap ==
  ASSUME Staged, LoopInv, TapShape, Tap
  PROVE  /\ LoopInv' /\ TapShape' /\ UNCHANGED <<worker, session>> /\ On' = On
         /\ state = "RECORDING" /\ cancelled' = session /\ session # 0 /\ tap' = TapStop
              /\ tap = <<>>
<1>1. /\ UNCHANGED <<state, events, prevState, confirmTimer, syncing, session, age>>
      /\ state = "RECORDING" /\ age = "short" /\ cancelled' = session
  BY HandFrame, Zenon DEF Tap, loop
<1>2. tap = <<>> /\ tap' = TapStop /\ worker' = worker
  BY TapMovesIn DEF TapMoves
<1>3. LoopInv' /\ On' = On
  BY <1>1, LoopKept
<1>4. session # 0 /\ On \cap {"REC_RELEASE", "RECORD_MAX"} = {}
  BY <1>1 DEF TapShape
<1>5. TapStop # <<>>
  BY DEF TapStop
<1>6. TapShape'
  BY <1>1, <1>2, <1>3, <1>4, <1>5 DEF TapShape
<1> QED
  BY <1>1, <1>2, <1>3, <1>4, <1>6

\* Time makes a press long, and no tap any more.
LEMMA TimeTap ==
  ASSUME LoopInv, TapShape, TimePasses
  PROVE  LoopInv' /\ TapShape' /\ UNCHANGED <<worker, tap, cancelled, session>> /\ On' = On
<1>1. /\ UNCHANGED <<state, events, prevState, confirmTimer, syncing, session, cancelled, worker,
           tap>>
      /\ age' # "short"
  <2>1. UNCHANGED <<state, events, prevState, confirmTimer, syncing, session, cancelled, worker,
            tap>>
    BY HandFrame, Zenon DEF TimePasses, loop, audioVars, worker, tap
  <2>2. age' # "short"
    BY DEF TimePasses
  <2> QED
    BY <2>1, <2>2
<1>2. LoopInv' /\ On' = On
  BY <1>1, LoopKept
<1>3. SyncAhead' <=> SyncAhead
  BY <1>1, <1>2 DEF SyncAhead
<1>4. TapShape'
  BY <1>1, <1>2, <1>3 DEF TapShape
<1> QED
  BY <1>1, <1>2, <1>4

\* The REC_DISCARD of a tap.
LEMMA DiscardTap ==
  ASSUME LoopTypes, Staged, LoopInv, TapShape, Discard
  PROVE  /\ LoopInv' /\ TapShape' /\ UNCHANGED <<worker, cancelled, session>>
         /\ On' = On \cup {"REC_DISCARD"} /\ state \in {"RECORDING", "IDLE"}
         /\ tap = TapDone /\ tap' = <<>> /\ cancelled = session
<1>1. /\ UNCHANGED <<state, prevState, confirmTimer, syncing, cancelled, session, age>>
      /\ Post("REC_DISCARD")
  BY HandFrame, Zenon DEF Discard, button
<1>2. tap = TapDone /\ tap' = <<>> /\ worker' = worker
  BY DiscardMoves DEF TapMoves
<1>3. TapDone # <<>>
  BY DEF TapDone
<1>4. /\ cancelled = session /\ session # 0 /\ On \cap {"REC_RELEASE", "RECORD_MAX"} = {}
      /\ state = "RECORDING" \/ (state = "IDLE" /\ "REC_PRESS" \notin On /\ ~SyncAhead)
  BY <1>2, <1>3 DEF TapShape
<1>5. LoopInv' /\ On' = On \cup {"REC_DISCARD"}
  <2>1. "REC_DISCARD" \in Ending /\ "REC_DISCARD" \in New(state) \cup Left(state)
    BY <1>4, LeftAndNew DEF Ending
  <2>2. "REC_DISCARD" \in Left(state) => On \cap New(state) = {}
    BY <1>4, LeftAndNew DEF SyncAhead
  <2> QED
    BY <1>1, <1>4, <2>1, <2>2, PostKeepsLoop
<1>6. Never(events', {"REC_RELEASE", "RECORD_MAX"}, {"REC_DISCARD"})
  BY <1>4, <1>5, NoneNever DEF On
<1>7. "REC_PRESS" \in On' <=> "REC_PRESS" \in On
  BY <1>5
<1>8. On' \cap {"REC_RELEASE", "RECORD_MAX"} = {}
  BY <1>4, <1>5
<1>9. "REC_DISCARD" \in On'
  BY <1>5
<1>10. TapShape'
  BY <1>1, <1>2, <1>4, <1>6, <1>7, <1>8, <1>9 DEF TapShape
<1> QED
  BY <1>1, <1>2, <1>4, <1>5, <1>10

-----------------------------------------------------------------------------
(* The calls, as long as nothing fails. *)

\* A step that is not counted as a failure is none.
LEMMA NoFailure ==
  ASSUME Basics, UNCHANGED faults
  PROVE  ~Fault
  BY AudioAssumption DEF Basics, Types, Fault

\* The calls and the tasks of the audio path leave the rest alone.
LEMMA CallFrame ==
  ASSUME WorkerCalls \/ ButtonCalls \/ AudioTask \/ WriterTask
  PROVE  /\ UNCHANGED <<state, events, prevState, confirmTimer, syncing, stable, presses, age,
              maxSent>>
         /\ UNCHANGED <<session, cancelled, workQueue, dropped, mySession, again, job, prepared,
              saved>>
  BY Zenon DEF WorkerCalls, ButtonCalls, AudioTask, WriterTask, loop, button, work

\* Nothing of the recording itself has changed.
Same == UNCHANGED <<captureRun, capturing, stopDone, file, path, writing, writerDone>>

\* The calls that begin a recording.
LEMMA BeginSteps ==
  ASSUME Basics, UNCHANGED faults,
         \/ CaptureStart("worker", GiveUp) \/ CaptureRun("worker")
         \/ OpenWav("worker", job, <<"error">>) \/ SpawnWriter("worker")
  PROVE  \/ Same /\ (Moves(ToCapture, ToCheckCapture) \/ Moves(ToCapture, ToRun))
         \/ /\ Moves(ToRun, ToCheckCapture)
            /\ captureRun' = TRUE /\ capturing' = TRUE /\ stopDone' = FALSE
            /\ UNCHANGED <<file, path, writing, writerDone>>
         \/ Same /\ (writing \/ file # 0) /\ Moves(ToOpen, ToFail)
         \/ /\ Moves(ToOpen, ToSpawn) /\ path' = job /\ file' = job
            /\ UNCHANGED <<captureRun, capturing, stopDone, writing, writerDone>>
         \/ /\ Moves(ToSpawn, ToCheckOpen) /\ writing' = TRUE /\ writerDone' = FALSE
            /\ UNCHANGED <<captureRun, capturing, stopDone, file, path>>
<1>1. Staged /\ ~Fault
  BY NoFailure DEF Basics
<1>2. CASE CaptureStart("worker", GiveUp)
  <2>1. Same
    BY <1>2, Zenon DEF CaptureStart, writer, Same
  <2> QED
    BY <1>1, <1>2, <2>1, StartMoves
<1>3. CASE CaptureRun("worker")
  BY <1>1, <1>3, RunMoves DEF CaptureRun, writer
<1>4. CASE OpenWav("worker", job, <<"error">>)
  <2>1. UNCHANGED <<captureRun, capturing, stopDone, writing, writerDone>>
    BY <1>4, Zenon DEF OpenWav, capture
  <2>2. (writing \/ file # 0) /\ UNCHANGED <<file, path>> => Same
    BY <2>1, Zenon DEF Same
  <2>3. \/ (writing \/ file # 0) /\ Moves(ToOpen, ToFail) /\ UNCHANGED <<file, path>>
        \/ Moves(ToOpen, ToSpawn) /\ path' = job /\ file' = job
    BY <1>1, <1>4, OpenMoves, Zenon
  <2> QED
    BY <2>1, <2>2, <2>3, Zenon
<1>5. CASE SpawnWriter("worker")
  BY <1>1, <1>5, SpawnMoves DEF SpawnWriter, capture
<1> QED
  BY <1>2, <1>3, <1>4, <1>5, Zenon

\* How audio_capture_stop ends, and how it waits.
Stops ==
  \/ /\ ~capturing
     /\ \/ Moves(UndoStop, <<>>) \/ Moves(UndoStopWait, <<>>)
        \/ Moves(UndoCapture, UndoAbort) \/ Moves(UndoCaptureWait, UndoAbort)
        \/ Moves(ToStop, ToFinalize) \/ Moves(Stopping, ToFinalize)
  \/ /\ ~captureRun'
     /\ \/ Moves(UndoStop, UndoStopWait) \/ Moves(UndoCapture, UndoCaptureWait)
        \/ Moves(ToStop, Stopping)

\* The stop of the worker: tk_audio is gone, or has been told to go.
LEMMA StopSteps ==
  ASSUME Staged, Plain, CaptureStop("worker") \/ CaptureStopped("worker")
  PROVE  /\ UNCHANGED <<capturing, file, path, writing, writerDone>> /\ (stopDone' => stopDone)
         /\ (captureRun' => captureRun) /\ Stops
<1>1. CASE CaptureStop("worker")
  <2>1. UNCHANGED <<capturing, stopDone, file, path, writing, writerDone>>
    BY <1>1, Zenon DEF CaptureStop, writer
  <2>2. captureRun' => captureRun
    BY <1>1 DEF CaptureStop
  <2>3. \/ ~capturing /\ (Moves(UndoStop, <<>>) \/ Moves(UndoCapture, UndoAbort) \/ Moves(ToStop,
             ToFinalize))
        \/ /\ ~captureRun'
           /\ \/ Moves(UndoStop, UndoStopWait) \/ Moves(UndoCapture, UndoCaptureWait)
              \/ Moves(ToStop, Stopping)
    BY <1>1, StopMoves, Zenon
  <2> QED
    BY <2>1, <2>2, <2>3 DEF Stops
<1>2. CASE CaptureStopped("worker")
  <2>1. UNCHANGED <<captureRun, capturing, file, path, writing, writerDone>> /\ stopDone' = FALSE
    BY <1>2, Zenon DEF CaptureStopped, writer
  <2>2. ~capturing
    BY <1>2, Zenon DEF CaptureStopped, Plain
  <2> QED
    BY <1>2, <2>1, <2>2, StoppedMoves, Zenon DEF Stops
<1> QED
  BY <1>1, <1>2

\* How the session of the WAV ends: finalized, waited for or dropped.
Closes ==
  \/ /\ UNCHANGED <<file, path>> /\ ~writing
     /\ \/ Moves(ToFinalize, ToGiveUp) \/ Moves(Finalizing, ToGiveUp)
        \/ Moves(Finalizing, ToEnqueue)
  \/ /\ UNCHANGED <<file, path>> /\ writing
     /\ \/ Moves(ToFinalize, Finalizing) \/ Moves(UndoOpen, UndoOpenWait)
        \/ Moves(UndoAbort, UndoAbortWait) \/ Moves(ToGiveUp, GivingUp)
  \/ /\ file' = 0 /\ path' = 0 /\ ~writing
     /\ \/ Moves(UndoOpen, UndoStop) \/ Moves(UndoOpenWait, UndoStop)
        \/ Moves(UndoAbort, <<>>) \/ Moves(UndoAbortWait, <<>>)
        \/ Moves(ToGiveUp, ToFail) \/ Moves(GivingUp, ToFail)

\* The finalize and the abort of the worker.
LEMMA CloseSteps ==
  ASSUME Basics, Plain, UNCHANGED faults,
         \/ Finalize("worker", GiveUp) \/ Finalized("worker", GiveUp)
         \/ Abort("worker") \/ Aborted("worker")
  PROVE  /\ UNCHANGED <<captureRun, capturing, stopDone, writing>> /\ (writerDone' => writerDone)
         /\ Closes
<1>1. Staged /\ ~Fault
  BY NoFailure DEF Basics
<1>2. WriterGone \/ WriterTimeout => ~writing /\ (writerDone' => writerDone)
  <2>1. WriterGone => ~writing /\ writerDone
    BY Zenon DEF WriterGone, Plain
  <2>2. WriterTimeout => ~writing
    BY <1>1, SMT DEF WriterTimeout
  <2>3. WriterTimeout => writerDone' = writerDone
    BY Zenon DEF WriterTimeout
  <2> QED
    BY <2>1, <2>2, <2>3, Zenon
<1>3. UNCHANGED <<captureRun, capturing, stopDone, writing>>
  BY Zenon DEF Finalize, Finalized, Abort, Aborted, capture
<1>4. CASE Finalize("worker", GiveUp)
  <2>1. UNCHANGED <<file, path, writerDone>>
    BY <1>4, Zenon DEF Finalize
  <2> QED
    BY <1>1, <1>3, <1>4, <2>1, FinalizeMoves, Zenon DEF Closes
<1>5. CASE Finalized("worker", GiveUp)
  <2>1. UNCHANGED <<file, path>>
    BY <1>5, Zenon DEF Finalized
  <2> QED
    BY <1>1, <1>2, <1>3, <1>5, <2>1, FinalizedMoves, Zenon DEF Closes
<1>6. CASE Abort("worker")
  <2>1. writerDone' = writerDone /\ (DropSession("worker") => file' = 0 /\ path' = 0)
    BY <1>6, Zenon DEF Abort, DropSession
  <2> QED
    BY <1>1, <1>3, <1>6, <2>1, AbortMoves, Zenon DEF Closes
<1>7. CASE Aborted("worker")
  <2>1. file' = 0 /\ path' = 0 /\ (WriterGone \/ WriterTimeout)
    BY <1>7, Zenon DEF Aborted, DropSession
  <2> QED
    BY <1>1, <1>2, <1>3, <1>7, <2>1, AbortedMoves, Zenon DEF Closes
<1> QED
  BY <1>4, <1>5, <1>6, <1>7

\* The stop and the abort of a tap.
LEMMA TapSteps ==
  ASSUME Basics, Plain, ButtonCalls, UNCHANGED faults
  PROVE  /\ UNCHANGED <<capturing, writing>> /\ (captureRun' => captureRun)
         /\ (stopDone' => stopDone) /\ (writerDone' => writerDone)
         /\ \/ UNCHANGED <<file, path>> /\ ~capturing
               /\ (TapMoves(TapStop, TapAbort) \/ TapMoves(TapStopWait, TapAbort))
            \/ UNCHANGED <<file, path>> /\ ~captureRun' /\ TapMoves(TapStop, TapStopWait)
            \/ UNCHANGED <<file, path>> /\ TapMoves(TapAbort, TapAbortWait)
            \/ file' = 0 /\ path' = 0 /\ ~writing
               /\ (TapMoves(TapAbort, TapDone) \/ TapMoves(TapAbortWait, TapDone))
<1>1. Staged /\ ~Fault
  BY NoFailure DEF Basics
<1>2. WriterGone \/ WriterTimeout => ~writing /\ (writerDone' => writerDone)
  <2>1. WriterGone => ~writing /\ writerDone
    BY Zenon DEF WriterGone, Plain
  <2>2. WriterTimeout => ~writing
    BY <1>1, SMT DEF WriterTimeout
  <2>3. WriterTimeout => writerDone' = writerDone
    BY Zenon DEF WriterTimeout
  <2> QED
    BY <2>1, <2>2, <2>3, Zenon
<1>3. CASE CaptureStop("button")
  <2>1. UNCHANGED <<capturing, stopDone, file, path, writing, writerDone>>
    BY <1>3, Zenon DEF CaptureStop, writer
  <2>2. captureRun' => captureRun
    BY <1>3 DEF CaptureStop
  <2>3. \/ ~capturing /\ TapMoves(TapStop, TapAbort)
        \/ ~captureRun' /\ TapMoves(TapStop, TapStopWait)
    BY <1>1, <1>3, TapStopMoves, Zenon
  <2> QED
    BY <2>1, <2>2, <2>3
<1>4. CASE CaptureStopped("button")
  <2>1. UNCHANGED <<captureRun, capturing, file, path, writing, writerDone>> /\ stopDone' = FALSE
    BY <1>4, Zenon DEF CaptureStopped, writer
  <2>2. ~capturing
    BY <1>4, Zenon DEF CaptureStopped, Plain
  <2> QED
    BY <1>1, <1>4, <2>1, <2>2, TapStoppedMoves, Zenon
<1>5. CASE Abort("button")
  <2>1. UNCHANGED <<captureRun, capturing, stopDone, writing, writerDone>>
        /\ (DropSession("button") => file' = 0 /\ path' = 0)
    BY <1>5, Zenon DEF Abort, DropSession, capture
  <2> QED
    BY <1>1, <1>5, <2>1, TapAbortMoves, Zenon
<1>6. CASE Aborted("button")
  <2>1. /\ UNCHANGED <<captureRun, capturing, stopDone, writing>> /\ file' = 0 /\ path' = 0
        /\ WriterGone \/ WriterTimeout
    BY <1>6, Zenon DEF Aborted, DropSession, capture
  <2> QED
    BY <1>1, <1>2, <1>6, <2>1, TapAbortedMoves, Zenon
<1> QED
  BY <1>3, <1>4, <1>5, <1>6, Zenon DEF ButtonCalls

\* tk_audio and tk_writer only ever end what they are in.
LEMMA TaskSteps ==
  ASSUME AudioTask \/ WriterTask
  PROVE  /\ UNCHANGED <<captureRun, path, worker, tap>>
         /\ \/ UNCHANGED <<capturing, stopDone, file, writing, writerDone>>
            \/ ~captureRun /\ ~capturing' /\ UNCHANGED <<file, writing, writerDone>>
            \/ file' = 0 /\ ~writing' /\ UNCHANGED <<capturing, stopDone>>
<1>1. CASE AudioReads(mySession)
  BY <1>1, Zenon DEF AudioReads, capture, writer, worker, tap
<1>2. CASE AudioEnds(mySession)
  BY <1>2, Zenon DEF AudioEnds, writer, worker, tap
<1>3. CASE WriterWrites
  BY <1>3, Zenon DEF WriterWrites, capture, worker, tap
<1>4. CASE WriterFinishes \/ WriterFails
  BY <1>4, Zenon DEF WriterFinishes, WriterFails, WriterEnds, capture, worker, tap
<1> QED
  BY <1>1, <1>2, <1>3, <1>4, Zenon DEF AudioTask, WriterTask

-----------------------------------------------------------------------------
(* What the worker's calls keep. *)

\* The events that have nothing to do with what the worker has to end.
Apart == {"REC_PRESS", "REC_RELEASE", "RECORD_MAX", "REC_DISCARD", "CONFIRM_DONE", "SYNC_DONE"}

\* A step that neither the queue of the worker nor its stage shows keeps the order
\* of FINALIZING and CONFIRM.
LEMMA QuietKept ==
  ASSUME FinalizingShape, ConfirmShape, Rests, UNCHANGED <<state, prevState, workQueue, worker>>,
         On' = On \/ \E x \in Apart : On' = On \cup {x},
         Recording' => Recording
  PROVE  FinalizingShape' /\ ConfirmShape' /\ Rests'
<1>1. /\ "FINALIZING" \in On' <=> "FINALIZING" \in On
      /\ "FINALIZE_DONE" \in On' <=> "FINALIZE_DONE" \in On
      /\ "SYNC_REQUEST" \in On' <=> "SYNC_REQUEST" \in On
      /\ "IDLE" \in On' <=> "IDLE" \in On
      /\ On' \cap New("FINALIZING") = On \cap New("FINALIZING")
  <2>1. \A x \in Apart : x \notin {"FINALIZING", "FINALIZE_DONE", "ERROR", "SYNC_REQUEST", "IDLE"}
    BY DEF Apart
  <2> QED
    BY <2>1, LeftAndNew
<1>2. Queued' = Queued
  BY DEF Queued
<1>3. FinalizingShape'
  BY <1>1, <1>2 DEF FinalizingShape
<1>4. ConfirmShape'
  BY <1>2 DEF ConfirmShape
<1>5. Resting' => Resting
  BY <1>1 DEF Resting, SyncAhead
<1>6. Rests'
  BY <1>2, <1>5 DEF Rests, Settled
<1> QED
  BY <1>3, <1>4, <1>6

\* While the worker works nothing rests, so a step of its own that starts no end
\* of a recording keeps them too.
LEMMA WorkingQuiet ==
  ASSUME FinalizingShape, ConfirmShape, Rests, UNCHANGED <<state, events, prevState, workQueue>>,
         worker # <<>>, worker' \in Ends => worker \in Ends
  PROVE  FinalizingShape' /\ ConfirmShape' /\ Rests'
<1>1. On' = On /\ Queued' = Queued
  BY DEF On, Queued
<1>2. FinalizingShape'
  BY <1>1 DEF FinalizingShape
<1>3. ConfirmShape'
  BY <1>1 DEF ConfirmShape
<1>4. ~Resting
  BY DEF Rests, Settled
<1>5. ~Resting'
  BY <1>1, <1>4 DEF Resting, SyncAhead
<1> QED
  BY <1>2, <1>3, <1>5 DEF Rests

\* A session on its way to the worker stays on its way.
LEMMA AheadKept ==
  ASSUME UNCHANGED <<session, cancelled, state, workQueue>>, On \subseteq On',
         worker = ToPrepare => worker' = ToPrepare
  PROVE  RecAhead => RecAhead'
  BY DEF RecAhead, Queued, Active

\* The parts about the recording itself.
Owned == Plain /\ MicOwned /\ FileOwned /\ WorkShape

\* The calls that begin a recording keep its owners.
LEMMA BeginOwned ==
  ASSUME Basics, Owned, UNCHANGED faults,
         UNCHANGED <<state, events, session, cancelled, mySession, job, workQueue>>,
         \/ CaptureStart("worker", GiveUp) \/ CaptureRun("worker")
         \/ OpenWav("worker", job, <<"error">>) \/ SpawnWriter("worker")
  PROVE  Owned' /\ \E from, to \in Begins : Moves(from, to)
<1>1. Active(mySession)' <=> Active(mySession)
  BY DEF Active
<1>2. worker = ToOpen => ~writing /\ file = 0 /\ job # 0
  BY DEF Owned, WorkShape, Recording
<1>3. /\ \A s \in Begins : s \notin Undoes \cup Ends
      /\ ToOpen # ToCheck /\ ToOpen # ToSpawn /\ ToSpawn # ToCheck /\ ToCheckOpen # ToOpen
      /\ ToCheckOpen # ToCheck /\ ToCheckOpen # ToSpawn /\ ToCapture \notin {ToCheck, ToOpen,
           ToSpawn}
      /\ ToRun \notin {ToCheck, ToOpen, ToSpawn} /\ ToCheckCapture \notin {ToCheck, ToOpen, ToSpawn}
  BY StagesApart, StagesDiffer
<1>4. {ToCapture, ToRun, ToCheckCapture, ToOpen, ToSpawn, ToCheckOpen} \subseteq Begins
  BY Zenon DEF Begins
<1>5. ASSUME NEW from \in Begins \ {ToCheck, ToOpen, ToSpawn}, NEW to \in Begins \ {ToCheck,
                 ToOpen, ToSpawn},
             Moves(from, to), UNCHANGED <<file, path, writing, writerDone>>,
             \/ UNCHANGED <<captureRun, capturing, stopDone>>
             \/ captureRun' = TRUE /\ capturing' = TRUE /\ stopDone' = FALSE
      PROVE  Owned'
  <2>1. worker = from /\ worker' = to
    BY <1>5 DEF Moves
  <2>2. Plain'
    BY <1>5, <2>1 DEF Owned, Plain
  <2>3. MicOwned' /\ FileOwned'
    BY <1>5, <2>1 DEF MicOwned, FileOwned, MicStages, FileStages
  <2>4. WorkShape'
    <3>1. to \notin Undoes \cup Ends /\ to # ToSpawn /\ to # ToCheck /\ to # ToOpen
      BY <1>3, <1>5
    <3>2. {Stopping, Finalizing, ToEnqueue, ToGiveUp, GivingUp, ToFail} \subseteq Ends
      BY Zenon DEF Ends
    <3> QED
      BY <1>1, <1>5, <2>1, <3>1, <3>2 DEF Owned, WorkShape
  <2> QED
    BY <2>2, <2>3, <2>4 DEF Owned
<1>6. CASE Same /\ (Moves(ToCapture, ToCheckCapture) \/ Moves(ToCapture, ToRun))
  BY <1>3, <1>4, <1>5, <1>6 DEF Same
<1>7. CASE /\ Moves(ToRun, ToCheckCapture)
           /\ captureRun' = TRUE /\ capturing' = TRUE /\ stopDone' = FALSE
           /\ UNCHANGED <<file, path, writing, writerDone>>
  BY <1>3, <1>4, <1>5, <1>7
<1>8. CASE /\ Moves(ToOpen, ToSpawn) /\ path' = job /\ file' = job
           /\ UNCHANGED <<captureRun, capturing, stopDone, writing, writerDone>>
  <2>1. worker = ToOpen /\ worker' = ToSpawn
    BY <1>8 DEF Moves
  <2>2. Plain'
    BY <1>8, <2>1 DEF Owned, Plain
  <2>3. MicOwned' /\ FileOwned'
    BY <1>4, <2>1 DEF MicOwned, FileOwned, MicStages, FileStages
  <2>4. WorkShape'
    <3>1. ToSpawn \notin Undoes \cup Ends /\ ToSpawn # ToCheck /\ ToSpawn # ToOpen
      BY <1>3, <1>4
    <3>2. {Stopping, Finalizing, ToEnqueue, ToGiveUp, GivingUp, ToFail} \subseteq Ends
      BY Zenon DEF Ends
    <3> QED
      BY <1>1, <1>2, <1>8, <2>1, <3>1, <3>2 DEF WorkShape
  <2> QED
    BY <1>4, <1>8, <2>2, <2>3, <2>4 DEF Owned
<1>9. CASE /\ Moves(ToSpawn, ToCheckOpen) /\ writing' = TRUE /\ writerDone' = FALSE
           /\ UNCHANGED <<captureRun, capturing, stopDone, file, path>>
  <2>1. worker = ToSpawn /\ worker' = ToCheckOpen
    BY <1>9 DEF Moves
  <2>2. Plain'
    BY <1>9, <2>1 DEF Owned, Plain
  <2>3. MicOwned' /\ FileOwned'
    BY <1>4, <2>1 DEF MicOwned, FileOwned, MicStages, FileStages
  <2>4. WorkShape'
    <3>1. ToCheckOpen \notin Undoes \cup Ends /\ ToCheckOpen # ToCheck /\ ToCheckOpen # ToOpen
      BY <1>3, <1>4
    <3>2. {Stopping, Finalizing, ToEnqueue, ToGiveUp, GivingUp, ToFail} \subseteq Ends
      BY Zenon DEF Ends
    <3> QED
      BY <1>1, <1>9, <2>1, <3>1, <3>2 DEF WorkShape, Owned
  <2> QED
    BY <1>4, <1>9, <2>2, <2>3, <2>4 DEF Owned
<1>10. ~(Moves(ToOpen, ToFail) /\ (writing \/ file # 0))
  BY <1>2 DEF Moves
<1> QED
  BY BeginSteps, <1>4, <1>6, <1>7, <1>8, <1>9, <1>10 DEF Owned

\* Whoever has to stop the microphone, or to close the WAV, still has to.
LEMMA OwnersMoved ==
  ASSUME MicOwned, FileOwned, UNCHANGED <<state, events, session, cancelled, mySession, workQueue,
             tap>>,
         worker # ToPrepare,
         capturing' => capturing /\ (worker \in MicStages => worker' \in MicStages),
         writing' \/ file' # 0 => (writing \/ file # 0) /\ (worker \in FileStages
             => worker' \in FileStages)
  PROVE  MicOwned' /\ FileOwned'
<1>1. Active(mySession)' <=> Active(mySession)
  BY DEF Active
<1>2. RecAhead => RecAhead'
  BY AheadKept DEF On
<1> QED
  BY <1>1, <1>2 DEF MicOwned, FileOwned

\* The stop of the worker keeps them.
LEMMA StopOwned ==
  ASSUME Basics, Owned,
         UNCHANGED <<state, events, session, cancelled, mySession, job, workQueue>>,
         CaptureStop("worker") \/ CaptureStopped("worker")
  PROVE  Owned' /\ worker # <<>> /\ (worker' \in Ends => worker \in Ends)
         /\ UNCHANGED tap
<1>1. Active(mySession)' <=> Active(mySession)
  BY DEF Active
<1>2. /\ UNCHANGED <<capturing, file, path, writing, writerDone>> /\ (stopDone' => stopDone)
      /\ (captureRun' => captureRun)
      /\ Stops
  BY StopSteps DEF Basics, Owned
<1>3. /\ worker \in Undoes \cup Ends /\ tap' = tap
      /\ worker' \in Undoes => worker \in Undoes
      /\ worker' \in Ends => worker \in Ends
      /\ worker' = Stopping => ~captureRun'
      /\ worker' \in Ends \ {ToStop, Stopping} => ~capturing
  BY <1>2, StagesDiffer, StagesApart DEF Stops, Moves, Undoes, Ends
<1>4. worker' \notin {ToPrepare, ToSpawn, ToCheck, ToOpen, Finalizing, ToEnqueue, ToGiveUp,
          GivingUp, ToFail}
  BY <1>2, StagesDiffer, StagesApart DEF Stops, Moves, Undoes, Ends, Begins
<1>5. capturing /\ worker \in MicStages => worker' \in MicStages
  BY <1>2, StagesDiffer, StagesApart DEF Stops, Moves, Undoes, Ends, Begins, MicStages
<1>6. worker \in FileStages => worker' \in FileStages
  BY <1>2, StagesDiffer, StagesApart DEF Stops, Moves, Undoes, Ends, Begins, FileStages
<1>7. worker \notin {ToPrepare, ToSpawn, <<>>}
  BY <1>3, StagesApart DEF Begins
<1>8. MicOwned' /\ FileOwned'
  BY <1>2, <1>3, <1>5, <1>6, <1>7, OwnersMoved DEF Owned
<1>9. Plain'
  BY <1>2, <1>7 DEF Owned, Plain
<1>10. WorkShape'
  BY <1>1, <1>2, <1>3, <1>4 DEF Owned, WorkShape
<1> QED
  BY <1>3, <1>7, <1>8, <1>9, <1>10 DEF Owned

\* The finalize and the abort of the worker keep them.
LEMMA CloseOwned ==
  ASSUME Basics, Owned, UNCHANGED faults,
         UNCHANGED <<state, events, session, cancelled, mySession, job, workQueue>>,
         worker \in Ends => tap = <<>> /\ ~RecAhead,
         \/ Finalize("worker", GiveUp) \/ Finalized("worker", GiveUp)
         \/ Abort("worker") \/ Aborted("worker")
  PROVE  Owned' /\ worker # <<>> /\ (worker' \in Ends => worker \in Ends)
         /\ UNCHANGED tap
<1>1. Active(mySession)' <=> Active(mySession)
  BY DEF Active
<1>2. /\ UNCHANGED <<captureRun, capturing, stopDone, writing>> /\ (writerDone' => writerDone)
      /\ Closes
  BY CloseSteps DEF Owned
<1>3. /\ worker \in Undoes \cup Ends /\ tap' = tap
      /\ worker' \in Undoes => worker \in Undoes
      /\ worker' \in Ends => worker \in Ends \ {ToStop, Stopping}
      /\ worker' # Stopping
      /\ worker' = ToEnqueue => worker = Finalizing
      /\ worker' \in {ToEnqueue, Finalizing} => path' = path
      /\ worker' = Finalizing => worker = ToFinalize /\ writing /\ worker \in Ends
      /\ worker' = GivingUp => worker = ToGiveUp /\ writing
      /\ worker' \in {ToEnqueue, ToGiveUp, ToFail} => ~writing
  BY <1>2, StagesDiffer, StagesApart DEF Closes, Moves, Undoes, Ends
<1>4. worker' \notin {ToPrepare, ToSpawn, ToCheck, ToOpen}
  BY <1>2, StagesDiffer, StagesApart DEF Closes, Moves, Undoes, Ends, Begins
<1>5. worker \in MicStages => worker' \in MicStages
  BY <1>2, StagesDiffer, StagesApart DEF Closes, Moves, Undoes, Ends, Begins, MicStages
<1>6. writing \/ file' # 0 => (worker \in FileStages => worker' \in FileStages)
  BY <1>2, StagesDiffer, StagesApart DEF Closes, Moves, Undoes, Ends, Begins, FileStages
<1>7. worker \notin {ToPrepare, ToSpawn, <<>>}
  BY <1>3, StagesApart DEF Begins
<1>8. MicOwned' /\ FileOwned'
  BY <1>2, <1>3, <1>5, <1>6, <1>7, OwnersMoved DEF Closes, Owned
<1>9. Plain'
  BY <1>2, <1>7 DEF Closes, Owned, Plain
<1>10. worker' = Finalizing => Active(mySession) /\ path = job /\ job # 0
  <2>1. <<>> \notin {TapStop, TapStopWait, TapAbort, TapAbortWait}
    BY DEF TapStop, TapStopWait, TapAbort, TapAbortWait
  <2>2. worker \in Ends => worker \notin FileStages
    BY StagesApart DEF FileStages, Undoes
  <2>3. worker' = Finalizing => Active(mySession)
    BY <1>3, <2>1, <2>2 DEF Owned, FileOwned
  <2> QED
    BY <1>3, <2>3 DEF Owned, WorkShape
<1>11. WorkShape'
  BY <1>1, <1>2, <1>3, <1>4, <1>7, <1>10 DEF Closes, Owned, WorkShape, Plain
<1> QED
  BY <1>3, <1>7, <1>8, <1>9, <1>11 DEF Owned

\* The looks at the session keep them: the undo of a recording becomes its owner.
LEMMA CheckOwned ==
  ASSUME Basics, Owned,
         \/ Check("check", <<>>)
         \/ Check("checkOpen", <<"abort", "stop">>)
         \/ Check("checkCapture", <<"stop", "abort">>)
  PROVE  /\ Owned' /\ worker # <<>> /\ worker' \notin Ends /\ UNCHANGED tap
         /\ UNCHANGED <<captureRun, capturing, stopDone, file, path, writing, writerDone>>
         /\ UNCHANGED <<state, events, prevState, confirmTimer, syncing, age, session, cancelled>>
         /\ UNCHANGED <<workQueue, mySession, job, prepared, saved>>
<1>1. /\ UNCHANGED <<captureRun, capturing, stopDone, file, path, writing, writerDone>>
      /\ UNCHANGED <<state, events, prevState, confirmTimer, syncing, age, session, cancelled>>
      /\ UNCHANGED <<workQueue, mySession, job, prepared, saved>>
  BY Zenon DEF Check, capture, writer, loop, button, work
<1>2. Active(mySession)' <=> Active(mySession)
  BY <1>1 DEF Active
<1>3. \/ Active(mySession) /\ Moves(ToCheck, ToOpen)
      \/ ~Active(mySession) /\ Moves(ToCheck, <<>>)
      \/ Active(mySession) /\ Moves(ToCheckOpen, ToCapture)
      \/ ~Active(mySession) /\ Moves(ToCheckOpen, UndoOpen)
      \/ Active(mySession) /\ Moves(ToCheckCapture, <<>>)
      \/ ~Active(mySession) /\ Moves(ToCheckCapture, UndoCapture)
  BY CheckMoves, CheckOpenMoves, CheckCaptureMoves, Zenon DEF Basics
<1>4. /\ worker \in Begins \ {ToSpawn} /\ tap' = tap
      /\ worker' \in Undoes => ~Active(mySession)
      /\ worker' \notin {ToPrepare, ToSpawn, ToCheck}
      /\ worker' = ToOpen => worker = ToCheck
      /\ worker = ToCheck => worker' \in {ToOpen, <<>>}
      /\ worker' = <<>> => worker = ToCheck \/ Active(mySession)
      /\ worker' \in Begins \cup Undoes \cup {<<>>}
  BY <1>3, StagesDiffer, StagesApart DEF Moves, Undoes, Begins
<1>5. /\ worker' \in MicStages \/ worker = ToCheck \/ Active(mySession)
      /\ worker' \in FileStages \/ worker = ToCheck \/ Active(mySession)
  BY <1>3 DEF Moves, Begins, MicStages, FileStages
<1>6. worker' \notin Ends /\ worker \notin {ToPrepare, ToSpawn, <<>>}
  BY <1>4, StagesApart
<1>7. worker = ToCheck => ~capturing /\ ~writing /\ file = 0 /\ job # 0
  BY DEF Owned, WorkShape, Recording
<1>8. MicOwned' /\ FileOwned'
  BY <1>1, <1>2, <1>5, <1>7 DEF MicOwned, FileOwned
<1>9. Plain'
  BY <1>1, <1>6 DEF Owned, Plain
<1>10. WorkShape'
  <2>1. worker' \notin {ToEnqueue, Finalizing, Stopping, ToGiveUp, GivingUp, ToFail}
    BY <1>6 DEF Ends
  <2>2. worker' = ToOpen => job' # 0 /\ ~Recording'
    BY <1>1, <1>4 DEF Owned, WorkShape, Recording
  <2> QED
    BY <1>1, <1>2, <1>4, <1>6, <2>1, <2>2 DEF Owned, WorkShape
<1> QED
  BY <1>1, <1>4, <1>6, <1>8, <1>9, <1>10, Zenon DEF Owned

\* The stop and the abort of a tap keep them.
LEMMA TapOwned ==
  ASSUME Basics, Owned, TapShape, FinalizingShape, ButtonCalls, UNCHANGED faults
  PROVE  /\ Owned' /\ TapShape' /\ UNCHANGED worker /\ (Recording' => Recording)
<1>1. /\ UNCHANGED <<state, events, prevState, confirmTimer, syncing, stable, presses, age,
           maxSent>>
      /\ UNCHANGED <<session, cancelled, workQueue, dropped, mySession, again, job, prepared,
           saved>>
  BY CallFrame
<1>2. /\ UNCHANGED <<capturing, writing>> /\ (captureRun' => captureRun)
      /\ (stopDone' => stopDone) /\ (writerDone' => writerDone)
      /\ \/ UNCHANGED <<file, path>> /\ ~capturing
            /\ (TapMoves(TapStop, TapAbort) \/ TapMoves(TapStopWait, TapAbort))
         \/ UNCHANGED <<file, path>> /\ ~captureRun' /\ TapMoves(TapStop, TapStopWait)
         \/ UNCHANGED <<file, path>> /\ TapMoves(TapAbort, TapAbortWait)
         \/ file' = 0 /\ path' = 0 /\ ~writing
            /\ (TapMoves(TapAbort, TapDone) \/ TapMoves(TapAbortWait, TapDone))
  BY TapSteps DEF Owned
<1>3. /\ tap \in Taps /\ tap' \in Taps /\ worker' = worker
      /\ capturing /\ tap \in {TapStop, TapStopWait} => tap' \in {TapStop, TapStopWait}
      /\ writing \/ file' # 0 => tap' \in {TapStop, TapStopWait, TapAbort, TapAbortWait}
  BY <1>2, StagesDiffer DEF TapMoves, Taps
<1>4. tap # <<>> /\ tap' # <<>>
  BY <1>3, StagesApart
<1>5. cancelled = session /\ state \in {"RECORDING", "IDLE"}
  BY <1>4 DEF TapShape
<1>6. ~Active(mySession) /\ ~Active(session) /\ ~Active(mySession)'
  BY <1>1, <1>5 DEF Active
<1>7. worker \notin Ends
  BY <1>5 DEF FinalizingShape
<1>8. Recording' => Recording
  BY <1>2 DEF Recording
<1>9. Plain'
  BY <1>2, <1>3 DEF Owned, Plain
<1>10. MicOwned' /\ FileOwned'
  <2>1. capturing' => \/ worker' \in MicStages
                      \/ tap' \in {TapStop, TapStopWait}
    BY <1>2, <1>3, <1>6 DEF Owned, MicOwned, RecAhead
  <2> QED
    BY <1>2, <1>3, <2>1 DEF MicOwned, FileOwned
<1>11. WorkShape'
  <2>1. worker' \notin Ends /\ worker' \notin {ToEnqueue, Finalizing, Stopping, ToGiveUp, GivingUp,
            ToFail}
    BY <1>3, <1>7 DEF Ends
  <2>2. worker' \in {ToCheck, ToOpen} => job' # 0 /\ ~Recording'
    BY <1>1, <1>3, <1>8 DEF Owned, WorkShape
  <2> QED
    BY <1>6, <2>1, <2>2 DEF WorkShape
<1>12. TapShape'
  <2>1. On' = On
    BY <1>1 DEF On
  <2>2. SyncAhead' <=> SyncAhead
    BY <1>1, <2>1 DEF SyncAhead
  <2> QED
    BY <1>1, <1>4, <2>1, <2>2 DEF TapShape
<1> QED
  BY <1>3, <1>8, <1>9, <1>10, <1>11, <1>12 DEF Owned

\* tk_audio and tk_writer keep them.
LEMMA TaskOwned ==
  ASSUME Owned, AudioTask \/ WriterTask
  PROVE  Owned' /\ UNCHANGED <<worker, tap>> /\ (Recording' => Recording)
<1>1. /\ UNCHANGED <<state, events, prevState, confirmTimer, syncing, stable, presses, age,
           maxSent>>
      /\ UNCHANGED <<session, cancelled, workQueue, dropped, mySession, again, job, prepared,
           saved>>
  BY CallFrame
<1>2. /\ UNCHANGED <<captureRun, path, worker, tap>>
      /\ \/ UNCHANGED <<capturing, stopDone, file, writing, writerDone>>
         \/ ~captureRun /\ ~capturing' /\ UNCHANGED <<file, writing, writerDone>>
         \/ file' = 0 /\ ~writing' /\ UNCHANGED <<capturing, stopDone>>
  BY TaskSteps
<1>3. Active(mySession)' <=> Active(mySession)
  BY <1>1 DEF Active
<1>4. RecAhead' <=> RecAhead
  BY <1>1, <1>2 DEF RecAhead, Active, On, Queued
<1>5. /\ captureRun => capturing
      /\ capturing' => capturing /\ (writing' \/ file' # 0 => writing \/ file # 0)
      /\ writing' \/ file' # 0 => writing \/ file # 0
  BY <1>2 DEF Owned, Plain
<1>6. Recording' => Recording
  BY <1>2, <1>5 DEF Recording
<1>7. Plain'
  BY <1>2 DEF Owned, Plain
<1>8. MicOwned' /\ FileOwned'
  BY <1>2, <1>3, <1>4, <1>5 DEF Owned, MicOwned, FileOwned
<1>9. WorkShape'
  BY <1>1, <1>2, <1>3, <1>5, <1>6 DEF Owned, WorkShape
<1> QED
  BY <1>2, <1>6, <1>7, <1>8, <1>9 DEF Owned

-----------------------------------------------------------------------------
(* The worker takes a command, prepares, enqueues and gives up. *)

\* The worker takes a command: a RECORDING ahead is now with the worker.
LEMMA TakesOwned ==
  ASSUME Basics, Owned, FinalizingShape, ConfirmShape, Rests, WorkerTakes
  PROVE  /\ Owned' /\ FinalizingShape' /\ ConfirmShape' /\ Rests'
         /\ UNCHANGED <<tap, state, events, prevState, confirmTimer, syncing, age, session,
              cancelled>>
         /\ UNCHANGED <<mySession, job, prepared, saved>>
<1> DEFINE rest == ToSet(Tail(workQueue))
<1>1. /\ UNCHANGED <<captureRun, capturing, stopDone, file, path, writing, writerDone>>
      /\ UNCHANGED <<state, events, prevState, confirmTimer, syncing, age, session, cancelled>>
      /\ UNCHANGED <<mySession, job, prepared, saved>>
      /\ workQueue # <<>> /\ workQueue' = Tail(workQueue)
  BY Zenon DEF WorkerTakes, capture, writer, loop, button, work
<1>2. workQueue \in Seq(Commands)
  BY DEF Basics, Types, QueueTypes
<1>3. Queued = {Head(workQueue)} \cup rest /\ Queued' = rest /\ rest \subseteq Commands
  <2>1. ToSet(workQueue) = {Head(workQueue)} \cup ToSet(Tail(workQueue))
            /\ Tail(workQueue) \in Seq(Commands)
    BY <1>1, <1>2, Taken
  <2>2. ToSet(Tail(workQueue)) \subseteq Commands
    BY <2>1, LenProperties DEF ToSet
  <2> QED
    BY <1>1, <2>1, <2>2 DEF Queued
<1>4. /\ Head(workQueue) = "FINALIZING" => rest = {} /\ workQueue' = <<>>
      /\ Head(workQueue) \in {"RECORDING", "FINALIZING"} => "CONFIRM" \notin rest
      /\ Never(workQueue', {"FINALIZING"}, Commands)
      /\ Never(workQueue', {"RECORDING", "FINALIZING"}, {"CONFIRM"})
  <2>1. /\ Never(workQueue, {"FINALIZING"}, Commands)
        /\ Never(workQueue, {"RECORDING", "FINALIZING"}, {"CONFIRM"})
    BY DEF FinalizingShape, ConfirmShape
  <2>2. Never(workQueue', {"FINALIZING"}, Commands)
        /\ (Head(workQueue) = "FINALIZING" => rest \cap Commands = {})
    BY <1>1, <1>2, <2>1, TakenNever
  <2>3. Never(workQueue', {"RECORDING", "FINALIZING"}, {"CONFIRM"})
        /\ (Head(workQueue) \in {"RECORDING", "FINALIZING"} => rest \cap {"CONFIRM"} = {})
    BY <1>1, <1>2, <2>1, TakenNever
  <2>4. rest = {} => workQueue' = <<>>
    <3>1. Tail(workQueue) \in Seq(Commands)
      BY <1>1, <1>2, Taken
    <3>2. Tail(workQueue) # <<>> => Head(Tail(workQueue)) \in ToSet(Tail(workQueue))
      BY <3>1, Taken
    <3> QED
      BY <1>1, <3>2
  <2> QED
    BY <1>3, <2>2, <2>3, <2>4
<1> HIDE DEF rest
<1>5. \/ Head(workQueue) = "RECORDING" /\ Moves(<<>>, ToPrepare)
      \/ Head(workQueue) = "FINALIZING" /\ Moves(<<>>, ToStop)
      \/ Head(workQueue) = "CONFIRM" /\ Moves(<<>>, <<>>)
  BY <1>2, TakesMoves DEF Basics
<1>6. /\ worker = <<>> /\ tap' = tap /\ worker' \in {<<>>, ToPrepare, ToStop}
      /\ worker' = ToPrepare <=> Head(workQueue) = "RECORDING"
      /\ worker' = ToStop <=> Head(workQueue) = "FINALIZING"
      /\ worker' = <<>> <=> Head(workQueue) = "CONFIRM"
  BY <1>5, StagesApart DEF Moves, Ends
<1>7. /\ worker' \in Ends => worker' = ToStop
      /\ worker' \notin Begins \cup Undoes
      /\ worker \notin Begins \cup Undoes \cup Ends \cup {ToPrepare}
  <2>1. ToStop \in Ends
    BY DEF Ends
  <2> QED
    BY <1>6, <2>1, StagesApart
<1>8. ToStop \notin {Stopping, ToFinalize, Finalizing, ToEnqueue, ToGiveUp, GivingUp, ToFail}
  BY StagesDiffer
<1>9. Active(mySession)' <=> Active(mySession)
  BY <1>1 DEF Active
<1>10. On' = On
  BY <1>1 DEF On
<1>11. Plain'
  BY <1>1, <1>6, <1>7 DEF Owned, Plain, Begins
<1>12. MicOwned' /\ FileOwned'
  <2>1. ASSUME RecAhead PROVE RecAhead'
    <3>1. "RECORDING" \in Queued => "RECORDING" \in Queued' \/ worker' = ToPrepare
      BY <1>3, <1>6
    <3> QED
      BY <1>1, <1>7, <1>10, <2>1, <3>1 DEF RecAhead, Active
  <2>2. worker \notin MicStages \cup FileStages
    BY <1>7 DEF MicStages, FileStages, Undoes
  <2> QED
    BY <1>1, <1>6, <1>9, <2>1, <2>2 DEF Owned, MicOwned, FileOwned
<1>13. WorkShape'
  <2>1. worker' \notin {ToSpawn, Finalizing, ToEnqueue, ToCheck, ToOpen, Stopping, ToGiveUp,
            GivingUp, ToFail}
    BY <1>6, <1>7, <1>8, StagesApart DEF Begins, Ends
  <2>2. worker' \in Ends \ {ToStop, Stopping} => FALSE
    BY <1>7
  <2> QED
    BY <1>1, <1>7, <1>9, <2>1, <2>2 DEF Owned, WorkShape
<1>14. FinalizingShape'
  <2>1. state # "FINALIZING" => "FINALIZING" \notin Queued' /\ worker' \notin Ends
    BY <1>3, <1>6, <1>7 DEF FinalizingShape
  <2>2. ASSUME state = "FINALIZING"
        PROVE  /\ On \cap New("FINALIZING") = {}
               /\ "FINALIZING" \in On => "FINALIZING" \notin Queued' /\ worker' \notin Ends
               /\ "FINALIZING" \in Queued' => worker' \notin Ends
               /\ worker' \in Ends => workQueue' = <<>>
    BY <1>1, <1>3, <1>4, <1>6, <1>7, <2>2 DEF FinalizingShape
  <2> QED
    BY <1>1, <1>4, <1>10, <2>1, <2>2 DEF FinalizingShape
<1>15. Recording' <=> Recording
  BY <1>1 DEF Recording
<1>16. ConfirmShape'
  <2>1. "CONFIRM" \in Queued' => worker' = <<>>
    <3>1. Head(workQueue) \in Commands
      BY <1>1, <1>2, Taken
    <3> QED
      BY <1>3, <1>4, <1>6, <3>1 DEF Commands
  <2> QED
    BY <1>3, <1>4, <1>15, <2>1 DEF ConfirmShape
<1>17. Rests'
  <2>1. Resting' <=> Resting
    BY <1>1, <1>10 DEF Resting, SyncAhead
  <2>2. Settled => Settled'
    BY <1>3, <1>6, <1>15 DEF Settled
  <2> QED
    BY <2>1, <2>2 DEF Rests
<1> QED
  BY <1>1, <1>6, <1>11, <1>12, <1>13, <1>14, <1>16, <1>17, Zenon DEF Owned

\* The worker is not idle, so nothing rests.
LEMMA WorkingRests ==
  ASSUME Rests, worker # <<>>
  PROVE  ~Resting
  BY DEF Rests, Settled

\* A preparation keeps them, as long as the session is not one that is being served.
LEMMA PrepareOwned ==
  ASSUME Basics, Owned, SavedShape, FinalizingShape, ConfirmShape, Rests, Prepare,
             UNCHANGED faults, ~again'
  PROVE  /\ Owned' /\ SavedShape' /\ FinalizingShape' /\ ConfirmShape' /\ Rests'
         /\ UNCHANGED <<tap, state, events, prevState, confirmTimer, syncing, age, session,
              cancelled>>
<1>1. /\ UNCHANGED <<captureRun, capturing, stopDone, file, path, writing, writerDone>>
      /\ UNCHANGED <<state, events, prevState, confirmTimer, syncing, age, session, cancelled>>
      /\ UNCHANGED <<workQueue, saved>> /\ mySession' = session
      /\ Active(session) => ~Recording /\ session # mySession
  <2>1. /\ UNCHANGED <<captureRun, capturing, stopDone, file, path, writing, writerDone>>
        /\ UNCHANGED <<state, events, prevState, confirmTimer, syncing, age, session, cancelled>>
        /\ UNCHANGED <<workQueue, saved>> /\ mySession' = session
    BY Zenon DEF Prepare, capture, writer, loop, button
  <2>2. ~(Active(session) /\ (Recording \/ session = mySession))
    BY Zenon DEF Prepare
  <2> QED
    BY <2>1, <2>2, Zenon
<1>2. \/ ~Active(session) /\ job' = 0 /\ UNCHANGED prepared /\ Moves(ToPrepare, <<>>)
      \/ Active(session) /\ prepared' = prepared + 1 /\ job' = prepared' /\ Moves(ToPrepare,
           ToCheck)
  <2>1. ~Fault
    BY NoFailure
  <2> QED
    BY <2>1, PrepareMoves, Zenon DEF Basics
<1>3. /\ worker = ToPrepare /\ tap' = tap /\ worker' \in {<<>>, ToCheck}
      /\ worker' = ToCheck => Active(session)
      /\ worker' = <<>> => ~Active(session)
  BY <1>2, StagesApart DEF Moves, Begins
<1>4. /\ worker # <<>> /\ worker \notin Begins \cup Undoes \cup Ends
      /\ worker' \notin Undoes \cup Ends /\ worker' # ToSpawn /\ worker' # ToPrepare
           /\ worker' # ToOpen
      /\ worker' \in Begins => worker' = ToCheck
  BY <1>3, StagesApart, StagesDiffer DEF Begins
<1>5. Active(mySession)' <=> Active(session)
  BY <1>1 DEF Active
<1>6. On' = On /\ Queued' = Queued
  BY <1>1 DEF On, Queued
<1>7. Plain'
  BY <1>1, <1>4 DEF Owned, Plain, Begins
<1>8. Recording' <=> Recording
  BY <1>1 DEF Recording
<1>9. MicOwned' /\ FileOwned'
  <2>1. CASE Active(session)
    BY <1>1, <2>1 DEF Recording, MicOwned, FileOwned
  <2>2. CASE ~Active(session)
    <3>1. ~RecAhead /\ ~Active(mySession)
      BY <2>2 DEF RecAhead, Active
    <3>2. worker \notin MicStages \cup FileStages
      BY <1>4 DEF MicStages, FileStages, Undoes
    <3> QED
      BY <1>1, <1>3, <3>1, <3>2 DEF Owned, MicOwned, FileOwned
  <2> QED
    BY <2>1, <2>2
<1>10. prepared \in Nat /\ prepared' \in Nat /\ mySession \in Nat /\ session \in Nat
           /\ mySession <= session
  <2>1. prepared \in Nat /\ mySession \in Nat /\ session \in Nat /\ mySession <= session
    BY AudioAssumption DEF Basics, Types, WorkTypes, ButtonTypes, Sessions, Wavs, Numbers
  <2> QED
    BY <1>2, <2>1
<1>11. WorkShape'
  <2>1. worker' \notin {Finalizing, ToEnqueue, Stopping, ToGiveUp, GivingUp, ToFail}
    BY <1>4 DEF Ends
  <2>2. worker' = ToCheck => job' # 0 /\ ~Recording'
    BY <1>1, <1>2, <1>3, <1>8, <1>10
  <2>3. Active(mySession)' => ~writing' /\ file' = 0
    BY <1>1, <1>5 DEF Recording
  <2> QED
    BY <1>4, <2>1, <2>2, <2>3 DEF WorkShape
<1>12. SavedShape'
  <2>1. job' \in {0, prepared'} /\ prepared <= prepared' /\ (job' # 0 => job' = prepared + 1
            /\ mySession < session)
    BY <1>1, <1>2, <1>10
  <2>2. ASSUME NEW j \in saved
        PROVE  /\ j.job = j.wav /\ j.job <= prepared' /\ j.session <= mySession'
                    /\ j.session # cancelled'
               /\ job' # 0 => j.job # job' /\ j.session # mySession'
    <3>1. j.job \in Nat /\ j.session \in Nat
      BY <2>2, AudioAssumption DEF Basics, Types, WorkTypes, Jobs, Wavs, Sessions
    <3>2. j.job = j.wav /\ j.job <= prepared /\ j.session <= mySession /\ j.session # cancelled
      BY <2>2 DEF SavedShape
    <3> QED
      BY <1>1, <1>10, <2>1, <3>1, <3>2
  <2> QED
    BY <1>1, <1>6, <2>1, <2>2 DEF SavedShape
<1>13. FinalizingShape'
  BY <1>1, <1>4, <1>6 DEF FinalizingShape
<1>14. ConfirmShape'
  BY <1>1, <1>4, <1>6 DEF ConfirmShape
<1>15. Rests'
  <2>1. ~Resting
    BY <1>4, WorkingRests
  <2>2. ~Resting'
    BY <1>1, <1>6, <2>1 DEF Resting, SyncAhead
  <2> QED
    BY <2>2 DEF Rests
<1> QED
  BY <1>1, <1>3, <1>7, <1>9, <1>11, <1>12, <1>13, <1>14, <1>15, Zenon DEF Owned

\* The worker's last word about a recording.
LEMMA LastWord ==
  ASSUME Basics, Owned, LoopInv, TapShape, FinalizingShape, ConfirmShape,
         NEW x \in {"FINALIZE_DONE", "ERROR"}, Post(x), syncing' = syncing,
         UNCHANGED <<session, cancelled, age, workQueue, mySession, tap>>,
         UNCHANGED <<captureRun, capturing, stopDone, file, path, writing, writerDone>>,
         worker \in {ToEnqueue, ToFail}, worker' = <<>>
  PROVE  /\ LoopInv' /\ TapShape' /\ FinalizingShape' /\ ConfirmShape' /\ Owned'
         /\ state = "FINALIZING" /\ On \cap New("FINALIZING") = {} /\ On' = On \cup {x}
         /\ state' = state /\ workQueue = <<>> /\ ~Recording'
<1>1. worker \in Ends \ {ToStop, Stopping}
  BY StagesDiffer DEF Ends
<1>2. /\ state = "FINALIZING" /\ workQueue = <<>> /\ On \cap New("FINALIZING") = {}
      /\ "FINALIZING" \notin On
  BY <1>1 DEF FinalizingShape
<1>3. x \in New(state) /\ x \notin Left(state) /\ New(state) = New("FINALIZING")
  BY <1>2, LeftAndNew DEF Ending
<1>4. LoopInv' /\ On' = On \cup {x} /\ UNCHANGED <<state, prevState, confirmTimer>>
  BY <1>2, <1>3, PostKeepsLoop DEF Basics, Types
<1>5. TapShape'
  BY <1>2, <1>4, TapKept
<1>6. Queued = {} /\ Queued' = {}
  BY <1>2 DEF Queued, ToSet
<1>7. <<>> \notin Begins \cup Undoes \cup Ends \cup {ToPrepare}
  BY StagesApart
<1>8. "FINALIZING" \notin On'
  BY <1>2, <1>4
<1>9. FinalizingShape'
  BY <1>2, <1>4, <1>6, <1>7, <1>8 DEF FinalizingShape
<1>10. ConfirmShape'
  BY <1>6 DEF ConfirmShape
<1>11. ~capturing /\ ~captureRun /\ ~writing /\ file = 0
  BY <1>1 DEF Owned, WorkShape, Plain
<1>12. ~Recording'
  BY <1>11 DEF Recording
<1>13. Plain' /\ MicOwned' /\ FileOwned'
  BY <1>11 DEF Owned, Plain, MicOwned, FileOwned
<1>14. WorkShape'
  <2>1. worker' \notin {ToSpawn, Finalizing, ToEnqueue, ToCheck, ToOpen, Stopping, ToGiveUp,
            GivingUp, ToFail}
    BY <1>7 DEF Begins, Ends
  <2> QED
    BY <1>7, <1>11, <2>1 DEF WorkShape
<1> QED
  BY <1>2, <1>4, <1>5, <1>9, <1>10, <1>12, <1>13, <1>14 DEF Owned

\* The ERROR of the worker keeps the whole invariant.
LEMMA FailedOwned ==
  ASSUME Basics, Owned, LoopInv, TapShape, FinalizingShape, ConfirmShape, SavedShape, Failed
  PROVE  /\ LoopInv' /\ TapShape' /\ FinalizingShape' /\ ConfirmShape' /\ Owned'
         /\ Rests' /\ SavedShape'
<1>1. /\ UNCHANGED <<captureRun, capturing, stopDone, file, path, writing, writerDone>>
      /\ UNCHANGED <<session, cancelled, age, workQueue, mySession, job, prepared, saved, syncing>>
      /\ Post("ERROR")
  BY Zenon DEF Failed, capture, writer, button, work
<1>2. worker = ToFail /\ worker' = <<>> /\ tap' = tap
  BY FailedMoves DEF Moves, Basics
<1>3. /\ LoopInv' /\ TapShape' /\ FinalizingShape' /\ ConfirmShape' /\ Owned'
      /\ state = "FINALIZING" /\ On \cap New("FINALIZING") = {} /\ On' = On \cup {"ERROR"}
           /\ state' = state
  BY <1>1, <1>2, LastWord
<1>4. "FINALIZE_DONE" \notin On'
  BY <1>3, LeftAndNew
<1>5. Rests'
  BY <1>3, <1>4 DEF Rests, Resting
<1>6. SavedShape'
  BY <1>1, <1>3, <1>4 DEF SavedShape
<1> QED
  BY <1>3, <1>5, <1>6

\* So does the end of handle_finalizing: the job saved is that of the session pressed.
LEMMA EnqueueOwned ==
  ASSUME Basics, Owned, LoopInv, TapShape, FinalizingShape, ConfirmShape, SavedShape, Enqueue,
             UNCHANGED faults
  PROVE  /\ LoopInv' /\ TapShape' /\ FinalizingShape' /\ ConfirmShape' /\ Owned'
         /\ Rests' /\ SavedShape'
<1>1. /\ UNCHANGED <<captureRun, capturing, stopDone, file, path, writing, writerDone>>
      /\ UNCHANGED <<session, cancelled, age, workQueue, mySession, prepared, syncing>>
  BY Zenon DEF Enqueue, Post, capture, writer, button
<1>2. worker = ToEnqueue /\ worker' = <<>> /\ tap' = tap
  BY EnqueueMoves DEF Moves, Basics
<1>3. path = job /\ job # 0 /\ Active(mySession)
  BY <1>2 DEF Owned, WorkShape
<1>4. /\ saved' = saved \cup {[job |-> job, wav |-> job, session |-> mySession]}
      /\ job' = 0 /\ Post("FINALIZE_DONE")
  BY <1>3, NoFailure DEF Enqueue
<1>5. /\ LoopInv' /\ TapShape' /\ FinalizingShape' /\ ConfirmShape' /\ Owned'
      /\ state = "FINALIZING" /\ On \cap New("FINALIZING") = {} /\ On' = On \cup {"FINALIZE_DONE"}
      /\ state' = state /\ workQueue = <<>> /\ ~Recording'
  BY <1>1, <1>2, <1>4, LastWord
<1>6. Rests'
  BY <1>1, <1>2, <1>5 DEF Rests, Settled, Queued, ToSet
<1>7. SavedShape'
  <2> DEFINE new == [job |-> job, wav |-> job, session |-> mySession]
  <2>1. new.job = job /\ new.wav = job /\ new.session = mySession
    OBVIOUS
  <2>2. /\ saved' = saved \cup {new} /\ mySession = session /\ mySession # cancelled
        /\ prepared \in Nat /\ mySession \in Nat /\ job = prepared
    BY <1>3, <1>4, AudioAssumption DEF Basics, Types, WorkTypes, Wavs, Sessions, Active, SavedShape
  <2> HIDE DEF new
  <2>3. \A j \in saved : /\ j.job = j.wav /\ j.job <= prepared /\ j.session <= mySession
                         /\ j.session # cancelled /\ j.job # job /\ j.session # mySession
    BY <1>3 DEF SavedShape
  <2>4. \A j \in saved' : /\ j.job = j.wav /\ j.job <= prepared /\ j.session <= mySession
                          /\ j.session # cancelled
    BY <2>1, <2>2, <2>3
  <2>5. \A j, k \in saved' : j.job = k.job \/ j.session = k.session => j = k
    <3>1. \A j, k \in saved : j.job = k.job \/ j.session = k.session => j = k
      BY DEF SavedShape
    <3> QED
      BY <2>1, <2>2, <2>3, <3>1
  <2>6. \E j \in saved' : j.session = session
    BY <2>1, <2>2
  <2> QED
    BY <1>1, <1>4, <1>5, <2>4, <2>5, <2>6 DEF SavedShape
<1> QED
  BY <1>5, <1>6, <1>7

-----------------------------------------------------------------------------
(* The button. *)

\* A press keeps it: its session is on its way to the worker.
LEMMA PressOwned ==
  ASSUME Basics, Owned, LoopInv, TapShape, FinalizingShape, ConfirmShape, Rests, SavedShape, Press
  PROVE  /\ LoopInv' /\ TapShape' /\ FinalizingShape' /\ ConfirmShape' /\ Owned'
         /\ Rests' /\ SavedShape'
<1>1. /\ UNCHANGED <<captureRun, capturing, stopDone, file, path, writing, writerDone>>
      /\ UNCHANGED <<state, prevState, workQueue, mySession, job, prepared, saved>>
  BY HandFrame, Zenon
<1>2. /\ LoopInv' /\ TapShape' /\ UNCHANGED <<worker, tap, cancelled>>
      /\ \/ On' = On /\ session' = session
         \/ /\ state = "IDLE" /\ tap = <<>> /\ On' = On \cup {"REC_PRESS"}
            /\ session' = session + 1 /\ session < session' /\ session' # 0 /\ cancelled < session'
  BY PressTap
<1>3. /\ session \in Nat /\ cancelled \in Nat /\ mySession \in Nat /\ mySession <= session
  BY AudioAssumption DEF Basics, Types, ButtonTypes, WorkTypes, Sessions, Numbers
<1>4. Recording' <=> Recording
  BY <1>1 DEF Recording
<1>5. FinalizingShape' /\ ConfirmShape' /\ Rests'
  <2>1. On' = On \/ \E x \in Apart : On' = On \cup {x}
    BY <1>2 DEF Apart
  <2> QED
    BY <1>1, <1>2, <1>4, <2>1, QuietKept
<1>6. Plain'
  BY <1>1, <1>2 DEF Owned, Plain
<1>7. Queued' = Queued
  BY <1>1 DEF Queued
<1>8. CASE On' = On /\ session' = session
  <2>1. (Active(mySession)' <=> Active(mySession)) /\ (RecAhead' <=> RecAhead)
    BY <1>1, <1>2, <1>7, <1>8 DEF Active, RecAhead
  <2>2. MicOwned' /\ FileOwned'
    BY <1>1, <1>2, <2>1 DEF Owned, MicOwned, FileOwned
  <2>3. WorkShape'
    BY <1>1, <1>2, <1>4, <2>1 DEF Owned, WorkShape
  <2>4. SavedShape'
    BY <1>1, <1>2, <1>8 DEF SavedShape
  <2> QED
    BY <1>2, <1>5, <1>6, <2>2, <2>3, <2>4 DEF Owned
<1>9. CASE /\ state = "IDLE" /\ On' = On \cup {"REC_PRESS"}
           /\ session' = session + 1 /\ session < session' /\ session' # 0 /\ cancelled < session'
  <2>1. ~Active(mySession)'
    BY <1>1, <1>3, <1>9 DEF Active
  <2>2. RecAhead'
    BY <1>1, <1>2, <1>3, <1>9 DEF RecAhead, Active
  <2>3. worker' \notin Ends
    BY <1>2, <1>9 DEF FinalizingShape
  <2>4. WorkShape'
    <3>1. worker' \notin {Finalizing, ToEnqueue, Stopping, ToGiveUp, GivingUp, ToFail}
      BY <2>3 DEF Ends
    <3> QED
      BY <1>1, <1>2, <1>4, <2>1, <2>3, <3>1 DEF Owned, WorkShape
  <2>5. SavedShape'
    <3>1. ASSUME NEW j \in saved PROVE j.session # session'
      <4>1. j.session \in Nat /\ j.session <= mySession
        BY <3>1, AudioAssumption DEF SavedShape, Basics, Types, WorkTypes, Jobs, Sessions
      <4> QED
        BY <1>3, <1>9, <4>1
    <3> QED
      BY <1>1, <1>2, <1>9, <3>1 DEF SavedShape
  <2> QED
    BY <1>2, <1>5, <1>6, <2>2, <2>4, <2>5 DEF Owned, MicOwned, FileOwned
<1> QED
  BY <1>2, <1>8, <1>9

\* A step of the button that leaves the sessions alone.
LEMMA HandOwned ==
  ASSUME Owned, SavedShape, FinalizingShape, ConfirmShape, Rests,
         UNCHANGED <<captureRun, capturing, stopDone, file, path, writing, writerDone>>,
         UNCHANGED <<state, prevState, workQueue, mySession, job, prepared, saved>>,
         UNCHANGED <<worker, cancelled, session>>,
         tap' = tap \/ tap = TapDone,
         On' = On \/ \E x \in Apart \ {"REC_PRESS"} : On' = On \cup {x}
  PROVE  Owned' /\ SavedShape' /\ FinalizingShape' /\ ConfirmShape' /\ Rests'
<1>1. Recording' <=> Recording
  BY DEF Recording
<1>2. FinalizingShape' /\ ConfirmShape' /\ Rests'
  <2>1. On' = On \/ \E x \in Apart : On' = On \cup {x}
    OBVIOUS
  <2> QED
    BY <1>1, <2>1, QuietKept
<1>3. Active(mySession)' <=> Active(mySession)
  BY DEF Active
<1>4. Plain'
  BY DEF Owned, Plain
<1>5. On \subseteq On'
  OBVIOUS
<1>6. RecAhead => RecAhead'
  BY <1>5, AheadKept
<1>7. tap \notin {TapStop, TapStopWait, TapAbort, TapAbortWait} \/ tap' = tap
  BY StagesDiffer
<1>8. MicOwned' /\ FileOwned'
  BY <1>3, <1>6, <1>7 DEF Owned, MicOwned, FileOwned
<1>9. WorkShape'
  BY <1>1, <1>3 DEF Owned, WorkShape
<1>10. ("REC_PRESS" \in On' <=> "REC_PRESS" \in On)
           /\ ("FINALIZE_DONE" \in On' <=> "FINALIZE_DONE" \in On)
  BY DEF Apart
<1>11. SavedShape'
  BY <1>10 DEF SavedShape
<1> QED
  BY <1>2, <1>4, <1>8, <1>9, <1>11 DEF Owned

\* A tap keeps it: what it has cancelled it will itself stop and abort.
LEMMA TappedOwned ==
  ASSUME Basics, Owned, LoopInv, TapShape, FinalizingShape, ConfirmShape, Rests, SavedShape, Tap
  PROVE  /\ LoopInv' /\ TapShape' /\ FinalizingShape' /\ ConfirmShape' /\ Owned'
         /\ Rests' /\ SavedShape'
<1>1. /\ UNCHANGED <<captureRun, capturing, stopDone, file, path, writing, writerDone>>
      /\ UNCHANGED <<state, prevState, workQueue, mySession, job, prepared, saved>>
  BY HandFrame, Zenon
<1>2. /\ LoopInv' /\ TapShape' /\ UNCHANGED <<worker, session>> /\ On' = On
      /\ state = "RECORDING" /\ cancelled' = session /\ session # 0 /\ tap' = TapStop
  BY TapTap DEF Basics
<1>3. Recording' <=> Recording
  BY <1>1 DEF Recording
<1>4. FinalizingShape' /\ ConfirmShape' /\ Rests'
  BY <1>1, <1>2, <1>3, QuietKept
<1>5. ~Active(mySession)' /\ worker' \notin Ends
  BY <1>1, <1>2 DEF Active, FinalizingShape
<1>6. Plain' /\ MicOwned' /\ FileOwned'
  BY <1>1, <1>2 DEF Owned, Plain, MicOwned, FileOwned
<1>7. WorkShape'
  <2>1. worker' \notin {Finalizing, ToEnqueue, Stopping, ToGiveUp, GivingUp, ToFail}
    BY <1>5 DEF Ends
  <2> QED
    BY <1>1, <1>2, <1>3, <1>5, <2>1 DEF Owned, WorkShape
<1>8. SavedShape'
  BY <1>1, <1>2 DEF SavedShape
<1> QED
  BY <1>2, <1>4, <1>6, <1>7, <1>8 DEF Owned

\* The rest of the button keeps it.
LEMMA HandsOwned ==
  ASSUME Basics, Owned, LoopInv, TapShape, FinalizingShape, ConfirmShape, Rests, SavedShape,
         Release \/ RecordMax \/ TimePasses \/ Discard
  PROVE  /\ LoopInv' /\ TapShape' /\ FinalizingShape' /\ ConfirmShape' /\ Owned'
         /\ Rests' /\ SavedShape'
<1>1. /\ UNCHANGED <<captureRun, capturing, stopDone, file, path, writing, writerDone>>
      /\ UNCHANGED <<state, prevState, workQueue, mySession, job, prepared, saved>>
  BY HandFrame, Zenon
<1>2. /\ LoopInv' /\ TapShape' /\ UNCHANGED <<worker, cancelled, session>>
      /\ tap' = tap \/ tap = TapDone
      /\ On' = On \/ \E x \in Apart \ {"REC_PRESS"} : On' = On \cup {x}
  <2>1. {"REC_RELEASE", "RECORD_MAX", "REC_DISCARD"} \subseteq Apart \ {"REC_PRESS"}
    BY DEF Apart
  <2>2. CASE Release \/ RecordMax
    BY <2>1, <2>2, ReleaseTap DEF Basics, Types
  <2>3. CASE TimePasses
    BY <2>3, TimeTap
  <2>4. CASE Discard
    BY <2>1, <2>4, DiscardTap DEF Basics, Types
  <2> QED
    BY <2>2, <2>3, <2>4
<1> QED
  BY <1>1, <1>2, HandOwned

-----------------------------------------------------------------------------
(* The event loop and the rest of the recording. *)

\* The loop and its timers leave the recording alone.
LEMMA LoopFrame ==
  ASSUME EventLoop \/ ConfirmTimer \/ SyncFinishes
  PROVE  /\ UNCHANGED <<captureRun, capturing, stopDone, file, path, writing, writerDone>>
         /\ UNCHANGED <<session, cancelled, age, mySession, job, prepared, saved, worker, tap>>
  BY Zenon DEF EventLoop, Transition, Bridge, Ignore, ConfirmTimer, SyncFinishes, audioVars,
    capture, writer, button, work, worker, tap

\* A transition keeps it: a REC_PRESS ahead is now a RECORDING ahead.
LEMMA TransitionOwned ==
  ASSUME Basics, Owned, LoopInv, TapShape, FinalizingShape, ConfirmShape, Rests, SavedShape,
         NEW s \in States, Transition(s)
  PROVE  Owned' /\ FinalizingShape' /\ ConfirmShape' /\ Rests' /\ SavedShape'
<1>1. /\ UNCHANGED <<captureRun, capturing, stopDone, file, path, writing, writerDone>>
      /\ UNCHANGED <<session, cancelled, age, mySession, job, prepared, saved, worker, tap>>
  BY LoopFrame DEF EventLoop
<1>2. /\ On = {Head(events)} \cup Rest /\ On' = Rest \cup {s}
      /\ state' = s /\ prevState = state /\ prevState' = prevState /\ state \notin On
      /\ \/ state = "BOOT" /\ Rest = {} /\ s \in {"IDLE", "PROVISION", "RECORDING"}
         \/ state = "IDLE" /\ Head(events) = "REC_PRESS" /\ s = "RECORDING"
         \/ state = "IDLE" /\ Head(events) = "SYNC_REQUEST" /\ s = "SYNC"
         \/ state = "RECORDING" /\ s = "FINALIZING" /\ Rest \subseteq Ending
         \/ state = "RECORDING" /\ s = "IDLE" /\ Rest \subseteq Ending
         \/ state = "FINALIZING" /\ Head(events) = "FINALIZE_DONE" /\ s = "CONFIRM"
         \/ state = "FINALIZING" /\ Head(events) = "ERROR" /\ s = "IDLE" /\ Rest = {}
         \/ state \in {"CONFIRM", "SYNC"} /\ s = "IDLE" /\ Rest = {}
  BY RegularTransition DEF LoopInv, Basics, Types, Rest
<1>3. workQueue' = workQueue /\ Queued' = Queued
  BY DEF Transition, Queued
<1>4. Ending \cap {"FINALIZE_DONE", "ERROR", "REC_PRESS", "SYNC_REQUEST", "FINALIZING", "IDLE"} = {}
  BY DEF Ending
<1>5. Recording' <=> Recording
  BY <1>1 DEF Recording
<1>6. On \cap New("FINALIZING") # {} /\ state = "FINALIZING"
      => Queued = {} /\ workQueue = <<>> /\ worker \notin Ends
  BY DEF FinalizingShape, Queued, ToSet
<1>7. FinalizingShape'
  <2>1. CASE s = "FINALIZING"
    <3>1. state = "RECORDING" /\ Rest \subseteq Ending
      BY <1>2, <2>1
    <3>2. On' \cap New("FINALIZING") = {}
      BY <1>2, <1>4, <2>1, <3>1, LeftAndNew
    <3>3. "FINALIZING" \notin Queued /\ worker \notin Ends
      BY <3>1 DEF FinalizingShape
    <3> QED
      BY <1>1, <1>2, <1>3, <2>1, <3>2, <3>3 DEF FinalizingShape
  <2>2. CASE s # "FINALIZING"
    <3>1. "FINALIZING" \notin Queued /\ worker \notin Ends
      <4>1. CASE state # "FINALIZING"
        BY <4>1 DEF FinalizingShape
      <4>2. CASE state = "FINALIZING"
        <5>1. On \cap New("FINALIZING") # {}
          BY <1>2, <4>2, LeftAndNew
        <5> QED
          BY <1>6, <4>2, <5>1
      <4> QED
        BY <4>1, <4>2
    <3> QED
      BY <1>1, <1>2, <1>3, <2>2, <3>1 DEF FinalizingShape
  <2> QED
    BY <2>1, <2>2
<1>8. ConfirmShape'
  BY <1>1, <1>3, <1>5 DEF ConfirmShape
<1>9. Resting' => Resting
  <2>1. SyncAhead' => "SYNC_REQUEST" \in On' \/ state \in {"CONFIRM", "BOOT"}
    BY <1>2 DEF SyncAhead
  <2>2. CASE s = "IDLE" /\ SyncAhead'
    <3>1. "SYNC_REQUEST" \in Rest \/ state \in {"CONFIRM", "BOOT"}
      BY <1>2, <2>1, <2>2
    <3> QED
      BY <1>2, <1>4, <2>2, <3>1 DEF Resting
  <2>3. CASE s \in {"CONFIRM", "SYNC", "PROVISION"}
    BY <1>2, <2>3 DEF Resting, SyncAhead
  <2>4. CASE s = "FINALIZING" /\ "FINALIZE_DONE" \in On'
    BY <1>2, <1>4, <2>4
  <2> QED
    BY <1>2, <2>2, <2>3, <2>4 DEF Resting
<1>10. Rests'
  BY <1>1, <1>3, <1>5, <1>9 DEF Rests, Settled
<1>11. RecAhead => RecAhead' \/ ~Recording
  <2>1. SUFFICES ASSUME RecAhead PROVE RecAhead' \/ ~Recording
    OBVIOUS
  <2>2. Active(session)'
    BY <1>1, <2>1 DEF RecAhead, Active
  <2>3. CASE state \in {"IDLE", "BOOT"} /\ "REC_PRESS" \in On
    <3>1. CASE state = "BOOT"
      BY <3>1 DEF Rests, Resting, Settled
    <3>2. CASE state = "IDLE" /\ s = "SYNC"
      BY <1>2, <3>2 DEF Rests, Resting, Settled, SyncAhead
    <3>3. CASE s = "RECORDING"
      BY <1>2, <2>2, <3>3 DEF RecAhead
    <3> QED
      BY <1>2, <2>3, <3>1, <3>2, <3>3
  <2>4. "RECORDING" \notin On
    BY <1>2, OneState DEF LoopInv, Basics, Types, States
  <2>5. CASE "RECORDING" \in Queued \/ worker = ToPrepare
    BY <1>1, <1>3, <2>2, <2>5 DEF RecAhead
  <2> QED
    BY <2>1, <2>3, <2>4, <2>5 DEF RecAhead
<1>12. Active(mySession)' <=> Active(mySession)
  BY <1>1 DEF Active
<1>13. Owned'
  <2>1. Plain'
    BY <1>1 DEF Owned, Plain
  <2>2. MicOwned' /\ FileOwned'
    BY <1>1, <1>11, <1>12 DEF Owned, MicOwned, FileOwned, Recording
  <2>3. WorkShape'
    BY <1>1, <1>5, <1>12 DEF Owned, WorkShape
  <2> QED
    BY <2>1, <2>2, <2>3 DEF Owned
<1>14. SavedShape'
  <2>1. state' # "BOOT"
    BY <1>2
  <2>2. state' = "RECORDING" \/ (state' = "IDLE" /\ "REC_PRESS" \in On')
            => \A j \in saved : j.session # session
    <3>1. ~(state' = "IDLE" /\ "REC_PRESS" \in On')
      BY <1>2, <1>4
    <3>2. state' = "RECORDING" => state = "BOOT" \/ (state = "IDLE" /\ "REC_PRESS" \in On)
      BY <1>2
    <3> QED
      BY <3>1, <3>2 DEF SavedShape
  <2>3. state' = "CONFIRM" \/ (state' = "FINALIZING" /\ "FINALIZE_DONE" \in On')
          => \E j \in saved : j.session = session
    <3>1. ~(state' = "FINALIZING" /\ "FINALIZE_DONE" \in On')
      BY <1>2, <1>4
    <3>2. state' = "CONFIRM" => state = "FINALIZING" /\ "FINALIZE_DONE" \in On
      BY <1>2
    <3> QED
      BY <3>1, <3>2 DEF SavedShape
  <2> QED
    BY <1>1, <2>1, <2>2, <2>3 DEF SavedShape
<1> QED
  BY <1>7, <1>8, <1>10, <1>13, <1>14

\* What the bridge does to the worker's queue.
LEMMA Commanded ==
  ASSUME QueueTypes, NEW s, Command(s)
  PROVE  \/ s \notin Commands /\ workQueue' = workQueue
         \/ s \in Commands /\ workQueue' = workQueue /\ \E c \in Commands : c \in Queued
         \/ s \in Commands /\ workQueue' = Append(workQueue, s) /\ Queued' = Queued \cup {s}
<1>1. CASE s \notin Commands
  BY <1>1 DEF Command
<1>2. CASE s \in Commands /\ Len(workQueue) < WorkCap
  <2>1. workQueue' = Append(workQueue, s)
    BY <1>2 DEF Command
  <2>2. ToSet(Append(workQueue, s)) = ToSet(workQueue) \cup {s}
    BY <1>2, Posted DEF QueueTypes
  <2> QED
    BY <1>2, <2>1, <2>2 DEF Queued
<1>3. CASE s \in Commands /\ ~(Len(workQueue) < WorkCap)
  <2>1. workQueue' = workQueue
    BY <1>3 DEF Command
  <2>2. workQueue # <<>>
    BY <1>3, RecAssumption, EmptySeq DEF QueueTypes
  <2>3. Head(workQueue) \in Commands /\ Head(workQueue) \in ToSet(workQueue)
    BY <2>2, Taken DEF QueueTypes
  <2> QED
    BY <1>3, <2>1, <2>3 DEF Queued
<1> QED
  BY <1>1, <1>2, <1>3

\* The bridge keeps it: a RECORDING ahead is now a command ahead, and if the
\* queue of the worker has no room there is nothing left of the recording before.
LEMMA BridgeOwned ==
  ASSUME Basics, Owned, LoopInv, TapShape, FinalizingShape, ConfirmShape, Rests, SavedShape,
         NEW s \in States, Bridge(s)
  PROVE  Owned' /\ FinalizingShape' /\ ConfirmShape' /\ Rests' /\ SavedShape'
<1>1. /\ UNCHANGED <<captureRun, capturing, stopDone, file, path, writing, writerDone>>
      /\ UNCHANGED <<session, cancelled, age, mySession, job, prepared, saved, worker, tap>>
  BY LoopFrame DEF EventLoop
<1>2. /\ s = state /\ On = {state} \cup Rest /\ state \notin Rest
      /\ On' = Rest \cup (IF state = "IDLE" /\ prevState \in {"CONFIRM", "BOOT"}
                          THEN {"SYNC_REQUEST"} ELSE {})
      /\ state' = state /\ prevState' = state
  BY RegularBridge DEF LoopInv, Basics, Types, Rest
<1>3. /\ "REC_PRESS" \in On' <=> "REC_PRESS" \in On
      /\ "FINALIZE_DONE" \in On' <=> "FINALIZE_DONE" \in On
      /\ state \notin On'
      /\ state = "FINALIZING" => On' \cap New("FINALIZING") = On \cap New("FINALIZING")
  <2>1. state \notin {"REC_PRESS", "FINALIZE_DONE", "SYNC_REQUEST", "ERROR"}
    BY DEF LoopInv, LoopShape
  <2> QED
    BY <1>2, <2>1, LeftAndNew
<1>4. \/ state \notin Commands /\ workQueue' = workQueue
      \/ state \in Commands /\ workQueue' = workQueue /\ \E c \in Commands : c \in Queued
      \/ state \in Commands /\ workQueue' = Append(workQueue, state)
           /\ Queued' = Queued \cup {state}
  <2>1. Command(state)
    BY <1>2 DEF Bridge
  <2> QED
    BY <2>1, Commanded DEF Basics, Types
<1>5. /\ Queued' = Queued \/ (state \in Commands /\ Queued' = Queued \cup {state})
      /\ Queued \subseteq Queued'
  BY <1>4 DEF Queued
<1>6. Recording' <=> Recording
  BY <1>1 DEF Recording
<1>7. state = "FINALIZING" => /\ "FINALIZING" \notin Queued /\ worker \notin Ends
                              /\ On \cap New("FINALIZING") = {}
  BY <1>2 DEF FinalizingShape
<1>8. FinalizingShape'
  <2>1. Never(workQueue', {"FINALIZING"}, Commands)
    <3>1. (Never(workQueue, {"FINALIZING"}, Commands) /\ "FINALIZING" \notin Queued)
              \/ workQueue' = workQueue
      BY <1>4, <1>7 DEF FinalizingShape
    <3>2. Never(workQueue, {"FINALIZING"}, Commands) /\ workQueue \in Seq(Commands)
      BY DEF FinalizingShape, Basics, Types, QueueTypes
    <3>3. CASE workQueue' = workQueue
      BY <3>2, <3>3
    <3>4. CASE "FINALIZING" \notin Queued /\ state \in Commands /\ workQueue' = Append(workQueue,
                   state)
      <4>1. ToSet(workQueue) \cap {"FINALIZING"} = {}
        BY <3>4 DEF Queued
      <4> QED
        BY <3>2, <3>4, <4>1, PostedNever
    <3> QED
      BY <1>4, <3>1, <3>3, <3>4
  <2>2. CASE state # "FINALIZING"
    BY <1>1, <1>2, <1>5, <2>1, <2>2 DEF FinalizingShape
  <2>3. CASE state = "FINALIZING"
    BY <1>1, <1>2, <1>3, <1>7, <2>1, <2>3 DEF FinalizingShape
  <2> QED
    BY <2>2, <2>3
<1>9. state = "CONFIRM" => Settled
  BY DEF Rests, Resting
<1>10. ConfirmShape'
  <2>1. Never(workQueue', {"RECORDING", "FINALIZING"}, {"CONFIRM"})
    <3>1. Never(workQueue, {"RECORDING", "FINALIZING"}, {"CONFIRM"}) /\ workQueue \in Seq(Commands)
      BY DEF ConfirmShape, Basics, Types, QueueTypes
    <3>2. CASE state \in Commands /\ workQueue' = Append(workQueue, state)
      <4>1. state \in {"CONFIRM"} => ToSet(workQueue) \cap {"RECORDING", "FINALIZING"} = {}
        BY <1>9 DEF Settled, Queued
      <4> QED
        BY <3>1, <3>2, <4>1, PostedNever
    <3>3. CASE workQueue' = workQueue
      BY <3>1, <3>3
    <3> QED
      BY <1>4, <3>2, <3>3
  <2>2. "CONFIRM" \in Queued' => worker = <<>> /\ ~Recording
    BY <1>5, <1>9 DEF ConfirmShape, Settled
  <2> QED
    BY <1>1, <1>6, <2>1, <2>2 DEF ConfirmShape
<1>11. Rests'
  <2>1. Resting' => Resting
    <3>1. state = "IDLE" /\ SyncAhead' => SyncAhead
      BY <1>2 DEF SyncAhead
    <3> QED
      BY <1>2, <1>3, <3>1 DEF Resting
  <2>2. Resting /\ state \in Commands => state = "CONFIRM"
    <3>1. "FINALIZE_DONE" \in New("FINALIZING")
      BY LeftAndNew
    <3> QED
      BY <1>7, <3>1 DEF Resting, Commands
  <2> QED
    BY <1>1, <1>5, <1>6, <2>1, <2>2 DEF Rests, Settled
<1>12. RecAhead => RecAhead' \/ ~Recording
  <2>1. SUFFICES ASSUME RecAhead PROVE RecAhead' \/ ~Recording
    OBVIOUS
  <2>2. Active(session)'
    BY <1>1, <2>1 DEF RecAhead, Active
  <2>3. CASE state \in {"IDLE", "BOOT"} /\ "REC_PRESS" \in On
    BY <1>2, <1>3, <2>2, <2>3 DEF RecAhead
  <2>4. CASE "RECORDING" \in On
    <3>1. state = "RECORDING"
      BY <2>4, OneState DEF LoopInv, Basics, Types, States
    <3>2. "FINALIZING" \notin Queued
      BY <3>1 DEF FinalizingShape
    <3>3. "RECORDING" \in Queued' \/ "CONFIRM" \in Queued
      BY <1>4, <1>5, <3>1, <3>2 DEF Commands
    <3> QED
      BY <2>2, <3>3 DEF RecAhead, ConfirmShape
  <2>5. CASE "RECORDING" \in Queued \/ worker = ToPrepare
    BY <1>1, <1>5, <2>2, <2>5 DEF RecAhead
  <2> QED
    BY <2>1, <2>3, <2>4, <2>5 DEF RecAhead
<1>13. Active(mySession)' <=> Active(mySession)
  BY <1>1 DEF Active
<1>14. Owned'
  <2>1. Plain'
    BY <1>1 DEF Owned, Plain
  <2>2. MicOwned' /\ FileOwned'
    BY <1>1, <1>12, <1>13 DEF Owned, MicOwned, FileOwned, Recording
  <2>3. WorkShape'
    BY <1>1, <1>6, <1>13 DEF Owned, WorkShape
  <2> QED
    BY <2>1, <2>2, <2>3 DEF Owned
<1>15. SavedShape'
  BY <1>1, <1>2, <1>3 DEF SavedShape
<1> QED
  BY <1>8, <1>10, <1>11, <1>14, <1>15

\* An ignored event keeps it.
LEMMA IgnoreOwned ==
  ASSUME Basics, Owned, LoopInv, TapShape, FinalizingShape, ConfirmShape, Rests, SavedShape, Ignore
  PROVE  Owned' /\ FinalizingShape' /\ ConfirmShape' /\ Rests' /\ SavedShape'
<1>1. /\ UNCHANGED <<captureRun, capturing, stopDone, file, path, writing, writerDone>>
      /\ UNCHANGED <<session, cancelled, age, mySession, job, prepared, saved, worker, tap>>
  BY LoopFrame DEF EventLoop
<1>2. /\ On = {Head(events)} \cup Rest /\ On' = Rest
      /\ Head(events) \in Left(state) /\ Head(events) \notin New(state) \cup States
      /\ UNCHANGED <<state, prevState, confirmTimer>>
  BY RegularIgnore DEF LoopInv, Basics, Types, Rest
<1>3. workQueue' = workQueue /\ Queued' = Queued
  BY DEF Ignore, Queued
<1>4. \A x \in New(state) \cup States : x \in On' <=> x \in On
  BY <1>2
<1>5. /\ "RECORDING" \in On' <=> "RECORDING" \in On
      /\ "FINALIZING" \in On' <=> "FINALIZING" \in On
      /\ "IDLE" \in On' <=> "IDLE" \in On
      /\ state = "IDLE" => ("REC_PRESS" \in On' <=> "REC_PRESS" \in On)
                           /\ ("SYNC_REQUEST" \in On' <=> "SYNC_REQUEST" \in On)
      /\ On' \cap {"FINALIZE_DONE", "ERROR"} = On \cap {"FINALIZE_DONE", "ERROR"}
  <2>1. Head(events) \notin {"FINALIZE_DONE", "ERROR"}
    BY <1>2, LeftAndNew DEF LoopInv, LoopShape, Ending
  <2> QED
    BY <1>2, <1>4, <2>1, LeftAndNew DEF States
<1>6. FinalizingShape'
  BY <1>1, <1>2, <1>3, <1>5, LeftAndNew DEF FinalizingShape
<1>7. Recording' <=> Recording
  BY <1>1 DEF Recording
<1>8. ConfirmShape'
  BY <1>1, <1>3, <1>7 DEF ConfirmShape
<1>9. Rests'
  <2>1. state = "IDLE" => (SyncAhead' <=> SyncAhead)
    BY <1>2, <1>5 DEF SyncAhead
  <2>2. Resting' <=> Resting
    BY <1>2, <1>5, <2>1 DEF Resting
  <2> QED
    BY <1>1, <1>3, <1>7, <2>2 DEF Rests, Settled
<1>10. state \in {"IDLE", "BOOT"} => ("REC_PRESS" \in On' <=> "REC_PRESS" \in On)
  BY <1>2, <1>5, LeftAndNew
<1>11. Active(mySession)' <=> Active(mySession)
  BY <1>1 DEF Active
<1>12. RecAhead' <=> RecAhead
  BY <1>1, <1>2, <1>3, <1>5, <1>10 DEF RecAhead, Active
<1>13. Owned'
  <2>1. Plain'
    BY <1>1 DEF Owned, Plain
  <2>2. MicOwned' /\ FileOwned'
    BY <1>1, <1>11, <1>12 DEF Owned, MicOwned, FileOwned
  <2>3. WorkShape'
    BY <1>1, <1>7, <1>11 DEF Owned, WorkShape
  <2> QED
    BY <2>1, <2>2, <2>3 DEF Owned
<1>14. SavedShape'
  <2>1. "FINALIZE_DONE" \in On' <=> "FINALIZE_DONE" \in On
    BY <1>5
  <2> QED
    BY <1>1, <1>2, <1>5, <2>1 DEF SavedShape
<1> QED
  BY <1>6, <1>8, <1>9, <1>13, <1>14

\* The timer of CONFIRM and the end of a sync.
LEMMA TimersOwned ==
  ASSUME Basics, Owned, LoopInv, TapShape, FinalizingShape, ConfirmShape, Rests, SavedShape,
         ConfirmTimer \/ SyncFinishes
  PROVE  LoopInv' /\ TapShape' /\ Owned' /\ FinalizingShape' /\ ConfirmShape' /\ Rests'
             /\ SavedShape'
<1>1. /\ UNCHANGED <<captureRun, capturing, stopDone, file, path, writing, writerDone>>
      /\ UNCHANGED <<session, cancelled, age, mySession, job, prepared, saved, worker, tap>>
  BY LoopFrame
<1>2. workQueue' = workQueue
  BY DEF ConfirmTimer, SyncFinishes
<1>3. LoopInv' /\ UNCHANGED <<state, prevState>>
      /\ (On' = On \cup {"CONFIRM_DONE"} \/ On' = On \cup {"SYNC_DONE"})
      /\ state \in {"CONFIRM", "SYNC"}
  BY TimersKeepLoop DEF Basics, Types
<1>4. TapShape'
  <2>1. \E x \in {"CONFIRM_DONE", "SYNC_DONE", "FINALIZE_DONE", "ERROR"} : On' = On \cup {x}
            /\ state # "RECORDING"
    BY <1>3
  <2> QED
    BY <1>1, <1>3, <2>1, TapKept
<1>5. \E x \in Apart \ {"REC_PRESS"} : On' = On \cup {x}
  BY <1>3 DEF Apart
<1> QED
  BY <1>1, <1>2, <1>3, <1>4, <1>5, HandOwned

-----------------------------------------------------------------------------
(* The calls of AudioPath, and the whole step. *)

\* Where neither the loop's queue nor the jobs change.
LEMMA CallOwned ==
  ASSUME LoopInv, SavedShape,
         UNCHANGED <<state, events, prevState, confirmTimer, syncing, session, cancelled>>,
         UNCHANGED <<mySession, job, prepared, saved>>
  PROVE  LoopInv' /\ SavedShape'
<1>1. LoopInv' /\ On' = On
  BY LoopKept, Zenon
<1>2. SavedShape'
  BY <1>1 DEF SavedShape
<1> QED
  BY <1>1, <1>2

\* While the worker ends a recording there is no tap and no other recording on its way.
LEMMA EndsAlone ==
  ASSUME Basics, LoopInv, TapShape, FinalizingShape, worker \in Ends
  PROVE  tap = <<>> /\ ~RecAhead
<1>1. state = "FINALIZING" /\ workQueue = <<>>
  BY DEF FinalizingShape
<1>2. tap = <<>>
  BY <1>1 DEF TapShape
<1>3. "RECORDING" \notin On
  BY <1>1, OneState DEF LoopInv, Basics, Types, States
<1>4. "RECORDING" \notin Queued
  BY <1>1 DEF Queued, ToSet
<1>5. worker # ToPrepare
  BY StagesApart
<1> QED
  BY <1>1, <1>2, <1>3, <1>4, <1>5 DEF RecAhead

\* The calls of the worker keep the whole invariant.
LEMMA WorkerCallsOwned ==
  ASSUME Basics, Owned, LoopInv, TapShape, FinalizingShape, ConfirmShape, Rests, SavedShape,
         WorkerCalls, UNCHANGED faults
  PROVE  LoopInv' /\ TapShape' /\ Owned' /\ FinalizingShape' /\ ConfirmShape' /\ Rests'
             /\ SavedShape'
<1>1. /\ UNCHANGED <<state, events, prevState, confirmTimer, syncing, age>>
      /\ UNCHANGED <<session, cancelled, workQueue, mySession, job, prepared, saved>>
  BY CallFrame, Zenon
<1>2. LoopInv' /\ SavedShape'
  BY <1>1, CallOwned
<1>3. Owned' /\ worker # <<>> /\ (worker' \in Ends => worker \in Ends) /\ UNCHANGED tap
  <2>1. CASE \/ CaptureStart("worker", GiveUp) \/ CaptureRun("worker")
             \/ OpenWav("worker", job, <<"error">>) \/ SpawnWriter("worker")
    <3>1. Owned' /\ \E from, to \in Begins : Moves(from, to)
      BY <1>1, <2>1, BeginOwned, Zenon
    <3> QED
      BY <3>1, StagesApart DEF Moves
  <2>2. CASE CaptureStop("worker") \/ CaptureStopped("worker")
    BY <1>1, <2>2, StopOwned, Zenon
  <2>3. CASE \/ Finalize("worker", GiveUp) \/ Finalized("worker", GiveUp)
             \/ Abort("worker") \/ Aborted("worker")
    BY <1>1, <2>3, EndsAlone, CloseOwned, Zenon
  <2> QED
    BY <2>1, <2>2, <2>3, Zenon DEF WorkerCalls
<1>4. TapShape'
  BY <1>1, <1>3, TapKept
<1>5. FinalizingShape' /\ ConfirmShape' /\ Rests'
  BY <1>1, <1>3, WorkingQuiet
<1> QED
  BY <1>2, <1>3, <1>4, <1>5

\* The looks at the session keep it.
LEMMA ChecksOwned ==
  ASSUME Basics, Owned, LoopInv, TapShape, FinalizingShape, ConfirmShape, Rests, SavedShape,
         \/ Check("check", <<>>)
         \/ Check("checkOpen", <<"abort", "stop">>)
         \/ Check("checkCapture", <<"stop", "abort">>)
  PROVE  LoopInv' /\ TapShape' /\ Owned' /\ FinalizingShape' /\ ConfirmShape' /\ Rests'
             /\ SavedShape'
<1>1. /\ Owned' /\ worker # <<>> /\ worker' \notin Ends /\ UNCHANGED tap
      /\ UNCHANGED <<captureRun, capturing, stopDone, file, path, writing, writerDone>>
      /\ UNCHANGED <<state, events, prevState, confirmTimer, syncing, age, session, cancelled>>
      /\ UNCHANGED <<workQueue, mySession, job, prepared, saved>>
  BY CheckOwned, Zenon
<1>2. LoopInv' /\ SavedShape'
  BY <1>1, CallOwned
<1>3. TapShape'
  BY <1>1, TapKept
<1>4. FinalizingShape' /\ ConfirmShape' /\ Rests'
  BY <1>1, WorkingQuiet
<1> QED
  BY <1>1, <1>2, <1>3, <1>4

\* A tap, tk_audio and tk_writer keep it.
LEMMA OthersOwned ==
  ASSUME Basics, Owned, LoopInv, TapShape, FinalizingShape, ConfirmShape, Rests, SavedShape,
         ButtonCalls \/ AudioTask \/ WriterTask, UNCHANGED faults
  PROVE  LoopInv' /\ TapShape' /\ Owned' /\ FinalizingShape' /\ ConfirmShape' /\ Rests'
             /\ SavedShape'
<1>1. /\ UNCHANGED <<state, events, prevState, confirmTimer, syncing, age>>
      /\ UNCHANGED <<session, cancelled, workQueue, mySession, job, prepared, saved>>
  BY CallFrame, Zenon
<1>2. LoopInv' /\ SavedShape' /\ On' = On
  BY <1>1, CallOwned, LoopKept
<1>3. Owned' /\ TapShape' /\ UNCHANGED worker /\ (Recording' => Recording)
  <2>1. CASE ButtonCalls
    BY <2>1, TapOwned
  <2>2. CASE AudioTask \/ WriterTask
    <3>1. Owned' /\ UNCHANGED <<worker, tap>> /\ (Recording' => Recording)
      BY <2>2, TaskOwned
    <3> QED
      BY <1>1, <3>1, TapKept
  <2> QED
    BY <2>1, <2>2
<1>4. FinalizingShape' /\ ConfirmShape' /\ Rests'
  BY <1>1, <1>2, <1>3, QuietKept
<1> QED
  BY <1>2, <1>3, <1>4

\* A command taken and a capture prepared keep it.
LEMMA TakesRegular ==
  ASSUME Basics, Owned, LoopInv, TapShape, FinalizingShape, ConfirmShape, Rests, SavedShape,
         WorkerTakes \/ (Prepare /\ UNCHANGED faults /\ ~again')
  PROVE  LoopInv' /\ TapShape' /\ Owned' /\ FinalizingShape' /\ ConfirmShape' /\ Rests'
             /\ SavedShape'
<1>1. CASE WorkerTakes
  <2>1. /\ Owned' /\ FinalizingShape' /\ ConfirmShape' /\ Rests'
        /\ UNCHANGED <<tap, state, events, prevState, confirmTimer, syncing, age, session,
             cancelled>>
        /\ UNCHANGED <<mySession, job, prepared, saved>>
    BY <1>1, TakesOwned
  <2>2. LoopInv' /\ SavedShape'
    BY <2>1, CallOwned
  <2>3. TapShape'
    BY <2>1, TapKept
  <2> QED
    BY <2>1, <2>2, <2>3
<1>2. CASE Prepare /\ UNCHANGED faults /\ ~again'
  <2>1. /\ Owned' /\ SavedShape' /\ FinalizingShape' /\ ConfirmShape' /\ Rests'
        /\ UNCHANGED <<tap, state, events, prevState, confirmTimer, syncing, age, session,
             cancelled>>
    BY <1>2, PrepareOwned
  <2>2. LoopInv'
    BY <2>1, LoopKept
  <2>3. TapShape'
    BY <2>1, TapKept
  <2> QED
    BY <2>1, <2>2, <2>3
<1> QED
  BY <1>1, <1>2

\* The handlers of the loop keep it.
LEMMA EventLoopRegular ==
  ASSUME Basics, Owned, LoopInv, TapShape, FinalizingShape, ConfirmShape, Rests, SavedShape,
             EventLoop
  PROVE  LoopInv' /\ TapShape' /\ Owned' /\ FinalizingShape' /\ ConfirmShape' /\ Rests'
             /\ SavedShape'
<1>1. LoopInv'
  BY EventLoopKeepsLoop DEF Basics, Types
<1>2. LoopTypes
  BY DEF Basics, Types
<1>3. TapShape'
  BY <1>2, TransitionTap, BridgeTap, IgnoreTap DEF EventLoop
<1>4. Owned' /\ FinalizingShape' /\ ConfirmShape' /\ Rests' /\ SavedShape'
  BY TransitionOwned, BridgeOwned, IgnoreOwned DEF EventLoop
<1> QED
  BY <1>1, <1>3, <1>4

\* Every step keeps it.
LEMMA RegularStep ==
  ASSUME Basics, Regular, Next, UNCHANGED faults, ~again'
  PROVE  Regular'
<1> DEFINE Parts == /\ LoopInv /\ TapShape /\ Owned /\ FinalizingShape /\ ConfirmShape
                    /\ Rests /\ SavedShape
<1>1. Regular <=> Parts
  BY Zenon DEF Regular, LoopInv, Owned
<1>2. Regular' <=> Parts'
  BY Zenon DEF Regular, LoopInv, Owned
<1>3. Parts
  BY <1>1
<1>4. CASE EventLoop
  BY <1>2, <1>3, <1>4, EventLoopRegular
<1>5. CASE ConfirmTimer \/ SyncFinishes
  BY <1>2, <1>3, <1>5, TimersOwned
<1>6. CASE Press
  BY <1>2, <1>3, <1>6, PressOwned
<1>7. CASE Tap
  BY <1>2, <1>3, <1>7, TappedOwned
<1>8. CASE Release \/ TimePasses \/ Discard \/ RecordMax
  BY <1>2, <1>3, <1>8, HandsOwned
<1>9. CASE ButtonCalls \/ AudioTask \/ WriterTask
  BY <1>2, <1>3, <1>9, OthersOwned
<1>10. CASE WorkerTakes \/ Prepare
  BY <1>2, <1>3, <1>10, TakesRegular
<1>11. CASE Enqueue
  BY <1>2, <1>3, <1>11, EnqueueOwned
<1>12. CASE Failed
  BY <1>2, <1>3, <1>12, FailedOwned
<1>13. CASE \/ Check("check", <<>>) \/ Check("checkOpen", <<"abort", "stop">>)
            \/ Check("checkCapture", <<"stop", "abort">>)
  BY <1>2, <1>3, <1>13, ChecksOwned
<1>14. CASE WorkerCalls
  BY <1>2, <1>3, <1>14, WorkerCallsOwned
<1> QED
  BY <1>4, <1>5, <1>6, <1>7, <1>8, <1>9, <1>10, <1>11, <1>12, <1>13, <1>14, Zenon
  DEF Next, Worker, ButtonTask

\* It holds at the start.
LEMMA RegularInit ==
  ASSUME Init
  PROVE  Regular
<1>1. PICK boot \in Boots : events = <<boot>>
  BY DEF Init
<1>2. boot \in {"BOOT_COMPLETE", "REC_PRESS", "PROVISION_REQUEST"}
  BY RecAssumption
<1>3. On = {boot} /\ Queued = {} /\ DOMAIN events = {1}
  <2>1. workQueue = <<>>
    BY DEF Init
  <2> QED
    BY <1>1, <2>1 DEF On, Queued, ToSet
<1>4. /\ state = "BOOT" /\ prevState = "BOOT" /\ ~confirmTimer /\ ~syncing
      /\ age = "none" /\ session = 0 /\ cancelled = 0 /\ mySession = 0
      /\ workQueue = <<>> /\ job = 0 /\ prepared = 0 /\ saved = {}
  BY DEF Init
<1>5. ~captureRun /\ ~capturing /\ ~stopDone /\ file = 0 /\ path = 0 /\ ~writing /\ ~writerDone
  BY DEF Init, AudioInit
<1>6. worker = <<>> /\ tap = <<>>
  BY DEF Init, AudioInit, worker, tap, Tasks
<1>7. \A A, B : Never(events, A, B) /\ Never(workQueue, A, B)
  BY <1>3, <1>4 DEF Never
<1>8. LoopShape
  BY <1>1, <1>2, <1>3, <1>4, <1>7, LeftAndNew DEF LoopShape
<1>9. Told /\ Timers
  BY <1>4 DEF Told, Timers
<1>10. TapShape
  BY <1>4, <1>6 DEF TapShape
<1>11. worker \notin {ToPrepare} \cup Begins \cup Undoes \cup Ends
  BY <1>6, StagesApart
<1>12. FinalizingShape /\ ConfirmShape
  BY <1>3, <1>4, <1>7, <1>11 DEF FinalizingShape, ConfirmShape
<1>13. Rests
  BY <1>3, <1>4, <1>5, <1>6 DEF Rests, Settled, Recording
<1>14. Plain /\ MicOwned /\ FileOwned
  BY <1>5 DEF Plain, MicOwned, FileOwned
<1>15. WorkShape
  BY <1>5, <1>11 DEF WorkShape, Active, Begins, Ends
<1>16. SavedShape
  BY <1>2, <1>3, <1>4 DEF SavedShape
<1> QED
  BY <1>8, <1>9, <1>10, <1>12, <1>13, <1>14, <1>15, <1>16 DEF Regular

\* Without a change of any variable.
LEMMA RegularStutter ==
  ASSUME Regular, UNCHANGED vars
  PROVE  Regular'
<1>1. /\ UNCHANGED <<captureRun, capturing, stopDone, file, path, writing, writerDone>>
      /\ UNCHANGED <<state, events, prevState, confirmTimer, syncing, age, session, cancelled>>
      /\ UNCHANGED <<workQueue, mySession, job, prepared, saved, worker, tap>>
  BY Zenon DEF vars, audioVars, capture, writer, loop, button, work, worker, tap
<1>2. LoopInv' /\ SavedShape' /\ On' = On
  BY <1>1, CallOwned, LoopKept DEF Regular, LoopInv
<1>3. TapShape'
  BY <1>1, TapKept DEF Regular
<1>4. (Recording' <=> Recording) /\ Queued' = Queued
  BY <1>1 DEF Recording, Queued
<1>5. FinalizingShape' /\ ConfirmShape' /\ Rests'
  BY <1>1, <1>2, <1>4, QuietKept DEF Regular
<1>6. (Active(session)' <=> Active(session)) /\ (Active(mySession)' <=> Active(mySession))
  BY <1>1 DEF Active
<1>7. RecAhead' <=> RecAhead
  BY <1>1, <1>2, <1>4, <1>6 DEF RecAhead
<1>8. Plain' /\ MicOwned' /\ FileOwned' /\ WorkShape'
  BY <1>1, <1>4, <1>6, <1>7 DEF Regular, Plain, MicOwned, FileOwned, WorkShape
<1> QED
  BY <1>2, <1>3, <1>5, <1>8 DEF Regular, LoopInv

\* The inductive invariant at the start.
LEMMA RecInit == Init => RecInv
  BY BasicsInit, RegularInit DEF RecInv

\* The inductive invariant, step by step.
LEMMA RecStep ==
  ASSUME RecInv, [Next]_vars
  PROVE  RecInv'
<1>1. Basics'
  BY BasicsStep DEF RecInv
<1>2. ASSUME Regularly' PROVE Regular'
  <2>1. Regularly /\ UNCHANGED faults /\ ~again'
    BY <1>2, StaysRegular DEF RecInv, Regularly
  <2>2. Regular
    BY <2>1 DEF RecInv
  <2>3. CASE Next
    BY <2>1, <2>2, <2>3, RegularStep DEF RecInv
  <2>4. CASE UNCHANGED vars
    BY <2>2, <2>4, RegularStutter
  <2> QED
    BY <2>3, <2>4
<1> QED
  BY <1>1, <1>2 DEF RecInv

\* What is on its way to whom, in every run in which nothing fails and no command
\* is served twice.
THEOREM RecIsRegular == Spec => []RecInv
<1>1. RecInv /\ [Next]_vars => RecInv'
  BY RecStep
<1> QED
  BY RecInit, <1>1, PTL DEF Spec

\* A session gives at most one job, no two jobs share a name or a WAV, and a tap
\* gives none (rec_worker.c:63-115, rec_session.c).
THEOREM JobsAreSavedOnce == Spec => []SavedOnce
<1>1. RecInv => SavedOnce
  BY DEF RecInv, Regularly, Regular, SavedShape, SavedOnce
<1> QED
  BY RecIsRegular, <1>1, PTL

\* "Saved" is shown only for the last recording pressed, and when it is in the
\* queue (rec_worker.c:133-157, state_machine.c).
THEOREM ConfirmIsTrue == Spec => []ConfirmMeansSaved
<1>1. RecInv => ConfirmMeansSaved
  BY DEF RecInv, Regularly, Regular, SavedShape, ConfirmMeansSaved
<1> QED
  BY RecIsRegular, <1>1, PTL

\* tk_audio and the sync task never run together, although nothing in the code
\* compares the two (spec 01 section 6).
THEOREM SyncIsAlone == Spec => [](faults = 0 /\ ~again => ~(syncing /\ capturing))
<1>1. RecInv => (faults = 0 /\ ~again => ~(syncing /\ capturing))
  BY DEF RecInv, Regularly, Regular, Timers, Rests, Resting, Settled, Recording
<1> QED
  BY RecIsRegular, <1>1, PTL

\* A step that leaves RECORDING for FINALIZING or that leaves SYNC is a transition.
LEMMA StateChanges ==
  ASSUME Next, state' # state
  PROVE  \E s \in States : Transition(s)
  BY Zenon DEF Next, EventLoop, Bridge, Ignore, ConfirmTimer, SyncFinishes, Post, Press, Release,
    Tap, TimePasses, ButtonTask, ButtonCalls, Discard, RecordMax, Worker, WorkerTakes, Prepare,
    Enqueue, Failed, Check, WorkerCalls, AudioTask, WriterTask, loop

\* What a step that leaves RECORDING or SYNC has found.
LEMMA NothingStaleStep ==
  ASSUME RecInv, [Next]_vars
  PROVE  /\ state = "RECORDING" /\ state' = "FINALIZING" /\ Head(events) = "ERROR"
              => faults > 0 \/ again \/ session = 0
         /\ state = "SYNC" /\ state' # "SYNC" /\ faults = 0 /\ ~again
              => Head(events) = "SYNC_DONE" /\ ~syncing /\ prevState = "SYNC"
<1>1. CASE UNCHANGED state
  BY <1>1
<1>2. CASE state' # state /\ ~Regularly
  BY <1>2, AudioAssumption DEF RecInv, Basics, Types, Regularly
<1>3. CASE state' # state /\ Regularly
  <2>1. LoopTypes /\ LoopShape /\ Told /\ Timers
    BY <1>3 DEF RecInv, Regular, Basics, Types
  <2>2. PICK s \in States : Transition(s)
    <3>1. Next
      BY <1>3 DEF vars, loop
    <3> QED
      BY <1>3, <3>1, StateChanges
  <2>3. /\ On = {Head(events)} \cup Rest /\ state \notin On
        /\ state = "RECORDING" /\ s = "FINALIZING" => Head(events) \in {"REC_RELEASE", "RECORD_MAX"}
        /\ state = "SYNC" => Head(events) = "SYNC_DONE"
        /\ state' = s
    BY <2>1, <2>2, RegularTransition DEF Rest
  <2> QED
    BY <2>1, <2>3 DEF Told, Timers
<1> QED
  BY <1>1, <1>2, <1>3

\* No event of something earlier ends a state: ERROR ends a recording only after a
\* failure or a stale command, and SYNC is left for the SYNC_DONE of this sync,
\* posted when its task had finished (state_machine.c:156, 167-172).
THEOREM NothingStale == Spec => NothingStaleEnds
<1>1. RecInv /\ [Next]_vars =>
        [/\ state = "RECORDING" /\ state' = "FINALIZING" /\ Head(events) = "ERROR"
              => faults > 0 \/ again \/ session = 0
         /\ state = "SYNC" /\ state' # "SYNC" /\ faults = 0 /\ ~again
              => Head(events) = "SYNC_DONE" /\ ~syncing /\ prevState = "SYNC"]_vars
  BY NothingStaleStep
<1> QED
  BY RecIsRegular, <1>1, PTL DEF Spec, NothingStaleEnds

-----------------------------------------------------------------------------
(* A press is heard.  This needs neither ~again nor the order of Regular. *)

\* After every x comes an y.
Followed(s, x, y) == \A i \in DOMAIN s : s[i] = x => \E j \in DOMAIN s : i < j /\ s[j] = y

\* What ends a RECORDING, and is on its way.
Outs == {"ERROR", "REC_RELEASE", "RECORD_MAX", "REC_DISCARD"}

\* A tap is of the last press, which it has cancelled.
TapOwn ==
  /\ tap # <<>> => cancelled = session /\ session # 0
  /\ age = "short" => session # 0
  /\ state = "BOOT" => session = 0

\* A tap that is over has told the state machine.
TapTold ==
  session # 0 /\ cancelled = session /\ tap = <<>> =>
    /\ state = "RECORDING" => "REC_DISCARD" \in On
    /\ Followed(events, "REC_PRESS", "REC_DISCARD")

\* In RECORDING a FINALIZING on its way is of an earlier recording: the
\* RECORDING of this one comes after it.
OldEnds ==
  state = "RECORDING" =>
    /\ Followed(events, "FINALIZING", "RECORDING")
    /\ "FINALIZING" \in Queued => "RECORDING" \in On \/ Followed(workQueue, "FINALIZING",
         "RECORDING")

Written == writing /\ writerRun /\ file # 0

\* The worker is at it, or has done it.
UnderWay ==
  \/ worker \in {ToCheck, ToOpen} /\ job # 0
  \/ worker = ToSpawn /\ file # 0 /\ ~writing
  \/ worker \in {ToCheckOpen, ToCapture} /\ Written
  \/ worker = ToRun /\ Written /\ codec
  \/ worker \in {ToCheckCapture, <<>>} /\ Written /\ Heard

Served ==
  state = "RECORDING" /\ Active(session) /\ "RECORDING" \notin On \cup Queued
      /\ worker # ToPrepare =>
    /\ mySession = session
    /\ On \cap Outs # {} \/ worker \in {ToGiveUp, GivingUp, ToFail} \/ UnderWay

\* Where the codec may be off although tk_audio is told to run.
CodecShape ==
  /\ captureRun => capturing
  /\ captureRun /\ ~codec => worker \in {ToCheckCapture, UndoCapture} /\ ~Active(mySession)
  /\ worker = ToRun /\ ~codec => ~Active(mySession)
  /\ worker \in {UndoStopWait, UndoCaptureWait, Stopping} => ~captureRun
  /\ tap = TapStopWait /\ captureRun => worker \in {ToCheckCapture, UndoCapture}

Unfailed == faults = 0 /\ ~dropped

HeardShape == TapOwn /\ CodecShape /\ TapTold /\ (Unfailed => OldEnds /\ Served)

\* What comes last can follow, and needs nobody to follow it unless it is an x.
LEMMA FollowedPosted ==
  ASSUME NEW S, NEW s \in Seq(S), NEW e \in S, NEW x, NEW y,
         (e = y /\ x # y) \/ (e # x /\ Followed(s, x, y))
  PROVE  Followed(Append(s, e), x, y)
<1>1. /\ Len(s) \in Nat /\ DOMAIN s = 1 .. Len(s)
      /\ DOMAIN Append(s, e) = 1 .. Len(s) + 1
  BY LenProperties
<1>2. /\ \A i \in 1 .. Len(s) : Append(s, e)[i] = s[i]
      /\ Append(s, e)[Len(s) + 1] = e
  OBVIOUS
<1>3. SUFFICES ASSUME NEW i \in 1 .. Len(s) + 1, Append(s, e)[i] = x
               PROVE  \E j \in 1 .. Len(s) + 1 : i < j /\ Append(s, e)[j] = y
  BY <1>1 DEF Followed
<1>4. i \in 1 .. Len(s) /\ s[i] = x
  BY <1>1, <1>2, <1>3
<1>5. CASE e = y
  BY <1>1, <1>2, <1>4, <1>5
<1>6. CASE e # y
  <2>1. PICK j \in 1 .. Len(s) : i < j /\ s[j] = y
    BY <1>1, <1>4, <1>6 DEF Followed
  <2> QED
    BY <1>1, <1>2, <2>1
<1> QED
  BY <1>5, <1>6

\* What has been taken off the front is followed by what is left.
LEMMA FollowedTaken ==
  ASSUME NEW S, NEW s \in Seq(S), s # <<>>, NEW x, NEW y, Followed(s, x, y)
  PROVE  /\ Followed(Tail(s), x, y)
         /\ Head(s) = x => y \in ToSet(Tail(s))
<1>1. /\ Len(s) \in Nat \ {0}
      /\ DOMAIN s = 1 .. Len(s) /\ DOMAIN Tail(s) = 1 .. Len(s) - 1
      /\ s[1] = Head(s)
      /\ \A i \in 1 .. Len(s) - 1 : Tail(s)[i] = s[i + 1]
  BY Taken
<1>2. Followed(Tail(s), x, y)
  <2>1. SUFFICES ASSUME NEW i \in 1 .. Len(s) - 1, Tail(s)[i] = x
                 PROVE  \E j \in 1 .. Len(s) - 1 : i < j /\ Tail(s)[j] = y
    BY <1>1 DEF Followed
  <2>2. i + 1 \in 1 .. Len(s) /\ s[i + 1] = x
    BY <1>1, <2>1
  <2>3. PICK j \in 1 .. Len(s) : i + 1 < j /\ s[j] = y
    BY <1>1, <2>2 DEF Followed
  <2>4. j - 1 \in 1 .. Len(s) - 1 /\ i < j - 1 /\ (j - 1) + 1 = j
    BY <1>1, <2>3
  <2> QED
    BY <1>1, <2>3, <2>4
<1>3. ASSUME Head(s) = x PROVE y \in ToSet(Tail(s))
  <2>1. PICK j \in 1 .. Len(s) : 1 < j /\ s[j] = y
    BY <1>1, <1>3 DEF Followed
  <2>2. j - 1 \in 1 .. Len(s) - 1 /\ (j - 1) + 1 = j
    BY <1>1, <2>1
  <2> QED
    BY <1>1, <2>1, <2>2 DEF ToSet
<1> QED
  BY <1>2, <1>3

\* What a step of the event loop does to its queue.
LEMMA LoopQueue ==
  ASSUME LoopTypes, NEW rest, rest = ToSet(Tail(events)),
         NEW s \in States, Transition(s) \/ Bridge(s)
  PROVE  /\ events # <<>> /\ On = {Head(events)} \cup rest
         /\ Tail(events) \in Seq(Events \cup States)
         /\ Transition(s) => /\ <<state, Head(events), s>> \in Transitions /\ state' = s
                             /\ events' = Append(Tail(events), s) /\ On' = rest \cup {s}
         /\ Bridge(s) => /\ Head(events) = s /\ state' = state /\ Command(s)
                         /\ \/ events' = Tail(events) /\ On' = rest
                            \/ /\ events' = Append(Tail(events), "SYNC_REQUEST")
                               /\ On' = rest \cup {"SYNC_REQUEST"}
<1>1. events # <<>> /\ events \in Seq(Events \cup States)
  BY DEF Transition, Bridge, LoopTypes
<1>2. On = {Head(events)} \cup rest /\ Tail(events) \in Seq(Events \cup States)
  BY <1>1, Taken DEF On
<1>3. s \in Events \cup States /\ "SYNC_REQUEST" \in Events \cup States
  BY DEF Events
<1>4. CASE Transition(s)
  <2>1. /\ <<state, Head(events), s>> \in Transitions /\ state' = s
        /\ events' = Append(Tail(events), s)
    BY <1>4, Zenon DEF Transition
  <2>2. On' = rest \cup {s}
    BY <1>2, <1>3, <2>1, EventPosted DEF On
  <2>3. Bridge(s) => FALSE
    <3>1. Bridge(s) => Head(events) \in States
      BY DEF Bridge
    <3>2. \A a, b, c : <<a, b, c>> \in Transitions => b \notin States
      BY DEF Transitions, States
    <3> QED
      BY <2>1, <3>1, <3>2
  <2> QED
    BY <1>1, <1>2, <1>4, <2>1, <2>2, <2>3
<1>5. CASE Bridge(s) /\ ~Transition(s)
  <2>1. Head(events) = s /\ state' = state /\ Command(s)
    BY <1>5, Zenon DEF Bridge
  <2>2. events' = Tail(events) \/ events' = Append(Tail(events), "SYNC_REQUEST")
    BY <1>5, BridgedEvents
  <2>3. ToSet(Append(Tail(events), "SYNC_REQUEST")) = rest \cup {"SYNC_REQUEST"}
    BY <1>2, <1>3, EventPosted
  <2> QED
    BY <1>1, <1>2, <1>5, <2>1, <2>2, <2>3 DEF On
<1> QED
  BY <1>4, <1>5

\* What an ignored event leaves in the queue.
LEMMA IgnoreQueue ==
  ASSUME LoopTypes, NEW rest, rest = ToSet(Tail(events)), Ignore
  PROVE  /\ events # <<>> /\ On = {Head(events)} \cup rest
         /\ Tail(events) \in Seq(Events \cup States)
         /\ events' = Tail(events) /\ On' = rest /\ state' = state
         /\ Head(events) \notin States
         /\ \A next \in States : <<state, Head(events), next>> \notin Transitions
<1>1. events # <<>> /\ events \in Seq(Events \cup States)
  BY DEF Ignore, LoopTypes
<1>2. On = {Head(events)} \cup rest /\ Tail(events) \in Seq(Events \cup States)
  BY <1>1, Taken DEF On
<1>3. events' = Tail(events) /\ state' = state
  BY Zenon DEF Ignore
<1>4. On' = rest
  BY <1>3 DEF On
<1> QED
  BY <1>1, <1>2, <1>3, <1>4, Zenon DEF Ignore

\* What the table says of the states in question.
LEMMA TableSays ==
  /\ \A a, b, c : <<a, b, c>> \in Transitions => b \notin States /\ c \in States /\ c # "BOOT"
  /\ \A a, b : <<a, b, "RECORDING">> \in Transitions => a # "RECORDING" /\ b = "REC_PRESS"
  /\ \A b \in Outs : \E c \in States : <<"RECORDING", b, c>> \in Transitions
  /\ Outs \cap States = {}
<1>1. \A a, b, c : <<a, b, c>> \in Transitions => b \notin States /\ c \in States /\ c # "BOOT"
  BY DEF Transitions, States
<1>2. \A a, b : <<a, b, "RECORDING">> \in Transitions => a # "RECORDING" /\ b = "REC_PRESS"
  BY DEF Transitions
<1>3. \A b \in Outs : \E c \in States : <<"RECORDING", b, c>> \in Transitions
  <2>1. /\ <<"RECORDING", "REC_RELEASE", "FINALIZING">> \in Transitions
        /\ <<"RECORDING", "RECORD_MAX", "FINALIZING">> \in Transitions
        /\ <<"RECORDING", "ERROR", "FINALIZING">> \in Transitions
        /\ <<"RECORDING", "REC_DISCARD", "IDLE">> \in Transitions
    BY DEF Transitions
  <2>2. "FINALIZING" \in States /\ "IDLE" \in States
    BY DEF States
  <2> QED
    BY <2>1, <2>2 DEF Outs
<1>4. Outs \cap States = {}
  BY DEF Outs, States
<1> QED
  BY <1>1, <1>2, <1>3, <1>4

\* Only the event loop changes the state and what the bridge remembers.
LEMMA StateFrame ==
  ASSUME Next, ~EventLoop
  PROVE  UNCHANGED <<state, prevState>>
  BY Zenon DEF Next, ConfirmTimer, SyncFinishes, Post, Press, Release, Tap, TimePasses, ButtonTask,
    ButtonCalls, Discard, RecordMax, Worker, WorkerTakes, Prepare, Enqueue, Failed, Check,
    WorkerCalls, AudioTask, WriterTask, loop

\* The worker's steps and those of the two tasks below leave the button alone.
LEMMA ButtonFrame ==
  ASSUME Staged, Worker \/ AudioTask \/ WriterTask
  PROVE  UNCHANGED <<tap, session, cancelled, age>>
<1>1. UNCHANGED <<session, cancelled, age>>
  BY Zenon DEF Worker, WorkerTakes, Prepare, Enqueue, Failed, Check, WorkerCalls, AudioTask,
    WriterTask, button
<1>2. tap' = tap
  <2>1. CASE AudioTask \/ WriterTask
    BY <2>1, Zenon DEF AudioTask, WriterTask, AudioReads, AudioEnds, WriterWrites, WriterFinishes,
      WriterFails, WriterEnds, tap
  <2>2. CASE Worker
    <3>1. \A x : Go("worker", x) => tap' = tap
      BY WorkerGoes DEF Moves
    <3>2. \E x : Go("worker", x)
      BY <2>2, Zenon DEF Worker, WorkerTakes, Prepare, Enqueue, Failed, Check, WorkerCalls,
        CaptureStart, CaptureRun, CaptureStop, CaptureStopped, OpenWav, SpawnWriter, Finalize,
        Finalized, Abort, Aborted, DropSession, Return, GoOn
    <3> QED
      BY <3>1, <3>2
  <2> QED
    BY <2>1, <2>2
<1> QED
  BY <1>1, <1>2

\* A tap stays one of the last press: no other can begin before it is over.
LEMMA TapOwnStep ==
  ASSUME Basics, TapOwn, Next
  PROVE  TapOwn'
<1>1. Staged /\ LoopTypes /\ session \in Nat
  BY AudioAssumption DEF Basics, Types, ButtonTypes, Sessions
<1>2. state' = "BOOT" => state = "BOOT"
  <2>1. CASE state' # state
    <3>1. PICK s \in States : Transition(s)
      BY <2>1, StateChanges
    <3>2. <<state, Head(events), s>> \in Transitions /\ state' = s
      BY <3>1, Zenon DEF Transition
    <3> QED
      BY <3>2, TableSays
  <2> QED
    BY <2>1
<1>3. CASE UNCHANGED <<tap, session, cancelled>> /\ (age' = "short" => age = "short")
  BY <1>2, <1>3 DEF TapOwn
<1>4. CASE EventLoop \/ ConfirmTimer \/ SyncFinishes
  BY <1>3, <1>4, LoopFrame
<1>5. CASE Worker \/ AudioTask \/ WriterTask
  BY <1>1, <1>3, <1>5, ButtonFrame
<1>6. CASE Press
  <2>1. tap = <<>> /\ tap' = tap /\ cancelled' = cancelled
    BY <1>6, Zenon DEF Press, tap, audioVars
  <2>2. CASE state = "IDLE"
    <3>1. session' = session + 1 /\ state' = "IDLE"
      BY <1>6, <2>2, HandFrame DEF Press
    <3> QED
      BY <1>1, <2>1, <3>1 DEF TapOwn
  <2>3. CASE state # "IDLE"
    <3>1. UNCHANGED <<session, age>>
      BY <1>6, <2>3 DEF Press
    <3> QED
      BY <1>3, <2>1, <3>1
  <2> QED
    BY <2>2, <2>3
<1>7. CASE Tap
  <2>1. state = "RECORDING" /\ age = "short" /\ cancelled' = session /\ UNCHANGED <<session, age>>
    BY <1>7, Zenon DEF Tap
  <2> QED
    BY <1>2, <2>1 DEF TapOwn
<1>8. CASE Release \/ RecordMax
  <2>1. UNCHANGED <<tap, session, cancelled, age>>
    BY <1>8, Zenon DEF Release, RecordMax, tap, audioVars
  <2> QED
    BY <1>3, <2>1
<1>9. CASE TimePasses
  <2>1. UNCHANGED <<tap, session, cancelled>> /\ age' # "short"
    BY <1>9 DEF TimePasses, tap, audioVars
  <2> QED
    BY <1>3, <2>1
<1>10. CASE ButtonCalls \/ Discard
  <2>1. UNCHANGED <<session, cancelled, age>>
    BY <1>10, Zenon DEF ButtonCalls, Discard, button
  <2>2. tap # <<>>
    BY <1>10, Zenon DEF ButtonCalls, CaptureStop, CaptureStopped, Abort, Aborted, Discard, At, tap
  <2> QED
    BY <1>2, <2>1, <2>2 DEF TapOwn
<1> QED
  BY <1>4, <1>5, <1>6, <1>7, <1>8, <1>9, <1>10, Zenon DEF Next, ButtonTask

\* Active(mySession) is not won back by the button.
LEMMA ActiveLost ==
  ASSUME Basics, Press \/ Release \/ Tap \/ TimePasses \/ RecordMax \/ Discard
  PROVE  Active(mySession)' => Active(mySession)
<1>1. /\ session \in Nat /\ cancelled \in Nat /\ mySession \in Nat /\ mySession <= session
  BY AudioAssumption DEF Basics, Types, ButtonTypes, WorkTypes, Sessions, Numbers
<1>2. mySession' = mySession
  BY HandFrame
<1>3. \/ UNCHANGED <<session, cancelled>>
      \/ session' = session + 1
      \/ cancelled' = session /\ session' = session
  <2>1. CASE Press
    BY <2>1, Zenon DEF Press
  <2>2. CASE Tap
    BY <2>2, Zenon DEF Tap
  <2>3. CASE Release \/ TimePasses \/ RecordMax \/ Discard
    BY <2>3, Zenon DEF Release, TimePasses, RecordMax, Discard, button
  <2> QED
    BY <2>1, <2>2, <2>3
<1> QED
  BY <1>1, <1>2, <1>3 DEF Active

\* A step of the worker that has to do with neither the codec nor the microphone.
LEMMA CodecAside ==
  ASSUME CodecShape, UNCHANGED <<codec, captureRun, capturing, tap>>, NEW from, NEW to, Moves(from,
             to),
         from \notin {ToCheckCapture, UndoCapture},
         to \notin {ToRun, UndoStopWait, UndoCaptureWait, Stopping}
  PROVE  CodecShape'
<1>1. worker = from /\ worker' = to
  BY DEF Moves
<1> QED
  BY <1>1 DEF CodecShape

\* The worker starts the codec and the microphone.
LEMMA CodecBegins ==
  ASSUME Basics, CodecShape,
         UNCHANGED <<session, cancelled, mySession>>,
         CaptureStart("worker", GiveUp) \/ CaptureRun("worker")
  PROVE  CodecShape'
<1>1. Staged
  BY DEF Basics
<1>2. Active(mySession)' <=> Active(mySession)
  BY DEF Active
<1>3. /\ ToCapture \notin {ToCheckCapture, UndoCapture} /\ ToRun \notin {ToCheckCapture,
           UndoCapture}
      /\ ToCheckCapture \notin {ToRun, UndoStopWait, UndoCaptureWait, Stopping}
      /\ ToRun \notin {UndoStopWait, UndoCaptureWait, Stopping}
      /\ ToGiveUp \notin {ToRun, UndoStopWait, UndoCaptureWait, Stopping}
  BY StagesDiffer, StagesApart DEF Begins, Undoes, Ends
<1>4. CASE CaptureStart("worker", GiveUp)
  <2>1. UNCHANGED <<captureRun, capturing>> /\ UNCHANGED tap
    <3>1. UNCHANGED <<captureRun, capturing>>
      BY <1>4, Zenon DEF CaptureStart
    <3>2. UNCHANGED tap
      BY <1>1, <1>4, StartMoves, Zenon DEF Moves
    <3> QED
      BY <3>1, <3>2
  <2>2. CASE captureRun /\ UNCHANGED codec /\ Moves(ToCapture, ToCheckCapture)
    BY <1>3, <2>1, <2>2, CodecAside
  <2>3. CASE ~captureRun /\ codec' = TRUE /\ Moves(ToCapture, ToRun)
    <3>1. worker' = ToRun
      BY <2>3 DEF Moves
    <3> QED
      BY <1>3, <2>1, <2>3, <3>1 DEF CodecShape
  <2>4. CASE UNCHANGED codec /\ Moves(ToCapture, ToGiveUp)
    BY <1>3, <2>1, <2>4, CodecAside
  <2> QED
    BY <1>1, <1>4, <2>2, <2>3, <2>4, StartMoves, Zenon
<1>5. CASE CaptureRun("worker")
  <2>1. /\ worker = ToRun /\ worker' = ToCheckCapture /\ tap' = tap
        /\ captureRun' = TRUE /\ capturing' = TRUE /\ codec' = codec
    <3>1. Moves(ToRun, ToCheckCapture)
      BY <1>1, <1>5, RunMoves
    <3>2. captureRun' = TRUE /\ capturing' = TRUE /\ codec' = codec
      BY <1>5, Zenon DEF CaptureRun
    <3> QED
      BY <3>1, <3>2 DEF Moves
  <2> QED
    BY <1>2, <1>3, <2>1 DEF CodecShape
<1> QED
  BY <1>4, <1>5

\* It stops them.
LEMMA CodecStops ==
  ASSUME Basics, CodecShape,
         UNCHANGED <<session, cancelled, mySession>>,
         CaptureStop("worker") \/ CaptureStopped("worker")
  PROVE  CodecShape'
<1>1. Staged
  BY DEF Basics
<1>2. /\ \A s \in {<<>>, UndoAbort, ToFinalize, UndoStopWait, UndoCaptureWait, Stopping} : s # ToRun
      /\ \A s \in {<<>>, UndoAbort, ToFinalize} : s \notin {UndoStopWait, UndoCaptureWait, Stopping}
      /\ \A s \in {UndoStopWait, UndoCaptureWait, Stopping} : s \notin {ToCheckCapture, UndoCapture}
  <2>1. \A s \in {<<>>, UndoAbort, ToFinalize, UndoStopWait, UndoCaptureWait, Stopping} : s # ToRun
    BY StagesApart DEF Begins, Undoes, Ends
  <2>2. \A s \in {<<>>, UndoAbort, ToFinalize} : s \notin {UndoStopWait, UndoCaptureWait, Stopping}
    BY StagesDiffer, StagesApart DEF Undoes, Ends
  <2>3. \A s \in {UndoStopWait, UndoCaptureWait, Stopping} : s \notin {ToCheckCapture, UndoCapture}
    BY StagesDiffer, StagesApart DEF Begins, Undoes, Ends
  <2> QED
    BY <2>1, <2>2, <2>3
<1>3. CASE CaptureStop("worker")
  <2>1. \/ ~captureRun /\ captureRun' = captureRun
        \/ captureRun' = FALSE
    BY <1>3, Zenon DEF CaptureStop
  <2>2. capturing' = capturing
    BY <1>3, Zenon DEF CaptureStop
  <2>3. worker' \in {<<>>, UndoAbort, ToFinalize, UndoStopWait, UndoCaptureWait, Stopping}
            /\ tap' = tap
    BY <1>1, <1>3, StopMoves, Zenon DEF Moves
  <2> QED
    BY <1>2, <2>1, <2>2, <2>3 DEF CodecShape
<1>4. CASE CaptureStopped("worker")
  <2>1. UNCHANGED <<captureRun, capturing>>
    BY <1>4, Zenon DEF CaptureStopped
  <2>2. worker \in {UndoStopWait, UndoCaptureWait, Stopping} /\ worker' \in {<<>>, UndoAbort,
            ToFinalize} /\ tap' = tap
    BY <1>1, <1>4, StoppedMoves, Zenon DEF Moves
  <2> QED
    BY <1>2, <2>1, <2>2 DEF CodecShape
<1> QED
  BY <1>3, <1>4

\* The other steps of the worker.
LEMMA CodecAsides ==
  ASSUME Basics, CodecShape,
         \/ OpenWav("worker", job, <<"error">>) \/ SpawnWriter("worker")
         \/ Finalize("worker", GiveUp) \/ Finalized("worker", GiveUp)
         \/ Abort("worker") \/ Aborted("worker")
         \/ WorkerTakes \/ Prepare \/ Enqueue \/ Failed
         \/ Check("check", <<>>)
         \/ Check("checkOpen", <<"abort", "stop">>)
  PROVE  CodecShape'
<1>1. Staged /\ workQueue \in Seq(Commands)
  BY DEF Basics, Types, QueueTypes
<1>2. UNCHANGED <<codec, captureRun, capturing>>
  BY Zenon DEF OpenWav, SpawnWriter, Finalize, Finalized, Abort, Aborted, WorkerTakes, Prepare,
    Enqueue, Failed, Check, capture
<1> DEFINE From == {<<>>, ToPrepare, ToCheck, ToOpen, ToSpawn, ToCheckOpen, ToFinalize, Finalizing,
        UndoOpen,
                    UndoAbort, UndoOpenWait, UndoAbortWait, ToGiveUp, GivingUp, ToEnqueue, ToFail}
           To == {<<>>, ToPrepare, ToCheck, ToOpen, ToSpawn, ToCheckOpen, ToCapture, Finalizing,
               UndoOpen,
                  UndoOpenWait, UndoAbortWait, UndoStop, ToStop, ToGiveUp, GivingUp, ToEnqueue,
                      ToFail}
<1>3. /\ \A s \in From : s \notin {ToCheckCapture, UndoCapture}
      /\ \A s \in To : s \notin {ToRun, UndoStopWait, UndoCaptureWait, Stopping}
  <2>1. \A s \in From : s # ToCheckCapture
    BY StagesDiffer, StagesApart DEF Begins, Undoes, Ends
  <2>2. \A s \in From : s # UndoCapture
    BY StagesDiffer, StagesApart DEF Begins, Undoes, Ends
  <2>3. \A s \in To : s # ToRun
    BY StagesDiffer, StagesApart DEF Begins, Undoes, Ends
  <2>4. \A s \in To : s \notin {UndoStopWait, UndoCaptureWait}
    BY StagesDiffer, StagesApart DEF Begins, Undoes, Ends
  <2>5. \A s \in To : s # Stopping
    BY StagesDiffer, StagesApart DEF Begins, Undoes, Ends
  <2> QED
    BY <2>1, <2>2, <2>3, <2>4, <2>5
<1>4. \E from \in From, to \in To : Moves(from, to)
  <2>1. CASE OpenWav("worker", job, <<"error">>) \/ SpawnWriter("worker")
    <3>1. Moves(ToOpen, ToFail) \/ Moves(ToOpen, ToSpawn) \/ Moves(ToSpawn, ToCheckOpen)
      BY <1>1, <2>1, OpenMoves, SpawnMoves, Zenon
    <3> QED
      BY <3>1
  <2>2. CASE Finalize("worker", GiveUp) \/ Finalized("worker", GiveUp)
    <3>1. \/ Moves(ToFinalize, ToGiveUp) \/ Moves(ToFinalize, Finalizing)
          \/ Moves(Finalizing, ToEnqueue) \/ Moves(Finalizing, ToGiveUp)
      BY <1>1, <2>2, FinalizeMoves, FinalizedMoves, Zenon
    <3> QED
      BY <3>1
  <2>3. CASE Abort("worker") \/ Aborted("worker")
    <3>1. \/ Moves(UndoOpen, UndoOpenWait) \/ Moves(UndoAbort, UndoAbortWait) \/ Moves(ToGiveUp,
               GivingUp)
          \/ Moves(UndoOpen, UndoStop) \/ Moves(UndoAbort, <<>>) \/ Moves(ToGiveUp, ToFail)
          \/ Moves(UndoOpenWait, UndoStop) \/ Moves(UndoAbortWait, <<>>) \/ Moves(GivingUp, ToFail)
      BY <1>1, <2>3, AbortMoves, AbortedMoves, Zenon
    <3> QED
      BY <3>1
  <2>4. CASE WorkerTakes
    <3>1. Moves(<<>>, ToPrepare) \/ Moves(<<>>, ToStop) \/ Moves(<<>>, <<>>)
      BY <1>1, <2>4, TakesMoves, Zenon
    <3> QED
      BY <3>1
  <2>5. CASE Prepare \/ Enqueue \/ Failed
    <3>1. \/ Moves(ToPrepare, ToFail) \/ Moves(ToPrepare, <<>>) \/ Moves(ToPrepare, ToCheck)
          \/ Moves(ToEnqueue, <<>>) \/ Moves(ToFail, <<>>)
      BY <1>1, <2>5, PrepareMoves, EnqueueMoves, FailedMoves, Zenon
    <3> QED
      BY <3>1
  <2>6. CASE Check("check", <<>>) \/ Check("checkOpen", <<"abort", "stop">>)
    <3>1. \/ Moves(ToCheck, ToOpen) \/ Moves(ToCheck, <<>>)
          \/ Moves(ToCheckOpen, ToCapture) \/ Moves(ToCheckOpen, UndoOpen)
      BY <1>1, <2>6, CheckMoves, CheckOpenMoves, Zenon
    <3> QED
      BY <3>1
  <2> QED
    BY <2>1, <2>2, <2>3, <2>4, <2>5, <2>6
<1>5. PICK from \in From, to \in To : Moves(from, to)
  BY <1>4
<1>6. tap' = tap
  BY <1>5 DEF Moves
<1> HIDE DEF From, To
<1> QED
  BY <1>2, <1>3, <1>5, <1>6, CodecAside

\* Every step keeps what is known of the codec.
LEMMA CodecStep ==
  ASSUME Basics, TapOwn, CodecShape, Next
  PROVE  CodecShape'
<1>1. Staged
  BY DEF Basics
<1>2. tap # <<>> => ~Active(session) /\ ~Active(mySession)
  BY DEF TapOwn, Active
<1>3. CASE EventLoop \/ ConfirmTimer \/ SyncFinishes
  <2>1. UNCHANGED <<captureRun, capturing, codec, worker, tap, session, cancelled, mySession>>
    <3>1. codec' = codec
      BY <1>3, Zenon DEF EventLoop, Transition, Bridge, Ignore, ConfirmTimer, SyncFinishes,
        audioVars, capture
    <3> QED
      BY <1>3, <3>1, LoopFrame
  <2> QED
    BY <2>1 DEF CodecShape, Active
<1>4. CASE Press \/ Release \/ TimePasses \/ RecordMax
  <2>1. UNCHANGED <<captureRun, capturing, codec, worker, tap>>
    <3>1. UNCHANGED <<worker, tap>>
      BY <1>4, Zenon DEF Press, Release, TimePasses, RecordMax, audioVars, worker, tap
    <3> QED
      BY <1>4, <3>1, HandFrame
  <2>2. Active(mySession)' => Active(mySession)
    BY <1>4, ActiveLost
  <2> QED
    BY <2>1, <2>2 DEF CodecShape
<1>5. CASE Tap \/ Discard
  <2>1. UNCHANGED <<captureRun, capturing, codec>>
    BY <1>5, HandFrame
  <2>2. worker' = worker /\ tap' # TapStopWait
    <3>1. TapMoves(<<>>, TapStop) \/ TapMoves(TapDone, <<>>)
      BY <1>1, <1>5, TapMovesIn, DiscardMoves
    <3>2. TapStop # TapStopWait /\ TapStopWait # <<>>
      BY StagesDiffer, StagesApart DEF Taps
    <3> QED
      BY <3>1, <3>2 DEF TapMoves
  <2>3. Active(mySession)' => Active(mySession)
    BY <1>5, ActiveLost
  <2> QED
    BY <2>1, <2>2, <2>3 DEF CodecShape
<1>6. CASE ButtonCalls
  <2>1. UNCHANGED <<session, cancelled, mySession>>
    BY <1>6, CallFrame
  <2>2. Active(mySession)' <=> Active(mySession)
    BY <2>1 DEF Active
  <2>3. tap # <<>>
    BY <1>6, Zenon DEF ButtonCalls, CaptureStop, CaptureStopped, Abort, Aborted, Discard, At, tap
  <2>4. /\ TapAbort # TapStopWait /\ TapAbortWait # TapStopWait /\ TapDone # TapStopWait
        /\ ToCheckCapture \notin {ToRun, UndoStopWait, UndoCaptureWait, Stopping}
    BY StagesDiffer, StagesApart DEF Taps, Begins, Undoes, Ends
  <2>5. CASE CaptureStop("button")
    <3>1. /\ worker' = worker /\ capturing' = capturing
          /\ \/ ~captureRun /\ captureRun' = captureRun
             \/ captureRun' = FALSE
      <4>1. capturing' = capturing
        BY <2>5, Zenon DEF CaptureStop
      <4>2. \/ ~captureRun /\ captureRun' = captureRun
            \/ captureRun' = FALSE
        BY <2>5, Zenon DEF CaptureStop
      <4>3. worker' = worker
        BY <1>1, <2>5, TapStopMoves, Zenon DEF TapMoves
      <4> QED
        BY <4>1, <4>2, <4>3
    <3> QED
      BY <1>2, <2>2, <2>3, <3>1 DEF CodecShape
  <2>6. CASE CaptureStopped("button")
    <3>1. UNCHANGED <<captureRun, capturing>>
      BY <2>6, Zenon DEF CaptureStopped
    <3>2. tap = TapStopWait /\ tap' = TapAbort /\ worker' = worker
      BY <1>1, <2>6, TapStoppedMoves DEF TapMoves
    <3> QED
      BY <1>2, <2>2, <2>3, <2>4, <3>1, <3>2 DEF CodecShape
  <2>7. CASE Abort("button") \/ Aborted("button")
    <3>1. UNCHANGED <<codec, captureRun, capturing>>
      BY <2>7, Zenon DEF Abort, Aborted, capture
    <3>2. worker' = worker /\ tap' # TapStopWait
      BY <1>1, <2>4, <2>7, TapAbortMoves, TapAbortedMoves DEF TapMoves
    <3> QED
      BY <2>2, <3>1, <3>2 DEF CodecShape
  <2> QED
    BY <1>6, <2>5, <2>6, <2>7, Zenon DEF ButtonCalls
<1>7. CASE AudioTask \/ WriterTask
  <2>1. UNCHANGED <<session, cancelled, mySession>>
    BY <1>7, CallFrame
  <2>2. UNCHANGED <<captureRun, codec, worker, tap>> /\ (captureRun => capturing' = capturing)
    <3>1. UNCHANGED codec
      BY <1>7, Zenon DEF AudioTask, AudioReads, AudioEnds, WriterTask, WriterWrites, WriterFinishes,
        WriterFails, WriterEnds, capture
    <3>2. captureRun => capturing' = capturing
      BY <1>7, Zenon DEF AudioTask, AudioReads, AudioEnds, WriterTask, WriterWrites, WriterFinishes,
        WriterFails, WriterEnds, capture
    <3> QED
      BY <1>7, <3>1, <3>2, TaskSteps
  <2> QED
    BY <2>1, <2>2 DEF CodecShape, Active
<1>8. CASE Check("checkCapture", <<"stop", "abort">>)
  <2>1. UNCHANGED <<captureRun, capturing, codec, session, cancelled, mySession>>
    BY <1>8, Zenon DEF Check, capture, button, work
  <2>2. /\ worker = ToCheckCapture /\ tap' = tap
        /\ \/ Active(mySession) /\ worker' = <<>>
           \/ ~Active(mySession) /\ worker' = UndoCapture
    BY <1>1, <1>8, CheckCaptureMoves, Zenon DEF Moves
  <2>3. /\ <<>> \notin {ToRun, UndoStopWait, UndoCaptureWait, Stopping}
        /\ UndoCapture \notin {ToRun, UndoStopWait, UndoCaptureWait, Stopping}
        /\ TapStopWait # <<>>
    BY StagesDiffer, StagesApart DEF Begins, Undoes, Ends, Taps
  <2>4. Active(mySession)' <=> Active(mySession)
    BY <2>1 DEF Active
  <2>5. CASE Active(mySession) /\ worker' = <<>>
    BY <1>2, <2>1, <2>2, <2>3, <2>5 DEF CodecShape
  <2>6. CASE ~Active(mySession) /\ worker' = UndoCapture
    BY <2>1, <2>2, <2>3, <2>4, <2>6 DEF CodecShape
  <2> QED
    BY <2>2, <2>5, <2>6
<1>9. CASE WorkerCalls
  <2>1. UNCHANGED <<session, cancelled, mySession>>
    BY <1>9, CallFrame
  <2> QED
    BY <1>9, <2>1, CodecBegins, CodecStops, CodecAsides, Zenon DEF WorkerCalls
<1>10. CASE Worker
  BY <1>8, <1>9, <1>10, CodecAsides, Zenon DEF Worker
<1> QED
  BY <1>3, <1>4, <1>5, <1>6, <1>7, <1>10, Zenon DEF Next, ButtonTask

\* Where the queue of events only grows, or stays.
LEMMA TapToldKept ==
  ASSUME LoopTypes, TapTold, UNCHANGED <<state, session, cancelled, tap>>,
         \/ events' = events
         \/ \E x \in Events \ {"REC_PRESS"} : events' = Append(events, x)
  PROVE  TapTold'
<1>1. CASE events' = events
  BY <1>1 DEF TapTold, On
<1>2. CASE \E x \in Events \ {"REC_PRESS"} : events' = Append(events, x)
  <2>1. PICK x \in Events \ {"REC_PRESS"} : events' = Append(events, x)
    BY <1>2
  <2>2. events \in Seq(Events \cup States) /\ x \in Events \cup States
    BY DEF LoopTypes
  <2>3. On' = On \cup {x}
    BY <2>1, <2>2, EventPosted DEF On
  <2>4. Followed(events, "REC_PRESS", "REC_DISCARD") => Followed(events', "REC_PRESS",
            "REC_DISCARD")
    BY <2>1, <2>2, FollowedPosted
  <2> QED
    BY <2>3, <2>4 DEF TapTold
<1> QED
  BY <1>1, <1>2

\* The loop drops no REC_DISCARD that would end a RECORDING.
LEMMA LoopTapTold ==
  ASSUME LoopTypes, TapTold, EventLoop
  PROVE  TapTold'
<1>1. UNCHANGED <<session, cancelled, tap>>
  BY LoopFrame
<1>2. SUFFICES ASSUME session # 0, cancelled = session, tap = <<>>
               PROVE  /\ state' = "RECORDING" => "REC_DISCARD" \in On'
                      /\ Followed(events', "REC_PRESS", "REC_DISCARD")
  BY <1>1 DEF TapTold
<1>3. /\ state = "RECORDING" => "REC_DISCARD" \in On
      /\ Followed(events, "REC_PRESS", "REC_DISCARD")
  BY <1>2 DEF TapTold
<1>4. events \in Seq(Events \cup States) /\ {"REC_PRESS", "SYNC_REQUEST"} \subseteq Events
  BY DEF LoopTypes, Events
<1>5. "REC_DISCARD" \in Outs /\ "REC_DISCARD" \notin States /\ "REC_PRESS" \notin States
  BY DEF Outs, States
<1>6. ASSUME events # <<>>
      PROVE  /\ Followed(Tail(events), "REC_PRESS", "REC_DISCARD")
             /\ Head(events) = "REC_PRESS" => "REC_DISCARD" \in Rest
  BY <1>3, <1>4, <1>6, FollowedTaken DEF Rest
<1>7. CASE \E s \in States : Transition(s)
  <2>1. PICK s \in States : Transition(s)
    BY <1>7
  <2>2. /\ events # <<>> /\ Tail(events) \in Seq(Events \cup States)
        /\ <<state, Head(events), s>> \in Transitions /\ state' = s
        /\ events' = Append(Tail(events), s) /\ On' = Rest \cup {s}
    BY <2>1, LoopQueue DEF Rest
  <2>3. Followed(events', "REC_PRESS", "REC_DISCARD")
    <3>1. s \in Events \cup States /\ s # "REC_PRESS"
      BY <1>5
    <3> QED
      BY <1>6, <2>2, <3>1, FollowedPosted
  <2>4. s = "RECORDING" => Head(events) = "REC_PRESS"
    BY <2>2, TableSays
  <2> QED
    BY <1>6, <2>2, <2>3, <2>4
<1>8. CASE \E s \in States : Bridge(s)
  <2>1. PICK s \in States : Bridge(s)
    BY <1>8
  <2>2. /\ events # <<>> /\ Tail(events) \in Seq(Events \cup States)
             /\ On = {Head(events)} \cup Rest
        /\ Head(events) = s /\ state' = state
        /\ \/ events' = Tail(events) /\ On' = Rest
           \/ events' = Append(Tail(events), "SYNC_REQUEST") /\ On' = Rest \cup {"SYNC_REQUEST"}
    BY <2>1, LoopQueue DEF Rest
  <2>3. Followed(Append(Tail(events), "SYNC_REQUEST"), "REC_PRESS", "REC_DISCARD")
    BY <1>4, <1>6, <2>2, FollowedPosted
  <2> QED
    BY <1>3, <1>5, <1>6, <2>2, <2>3
<1>9. CASE Ignore
  <2>1. /\ events # <<>> /\ On = {Head(events)} \cup Rest /\ events' = Tail(events) /\ On' = Rest
        /\ state' = state
        /\ \A next \in States : <<state, Head(events), next>> \notin Transitions
    BY <1>9, IgnoreQueue DEF Rest
  <2>2. state = "RECORDING" => Head(events) # "REC_DISCARD"
    BY <1>5, <2>1, TableSays
  <2> QED
    BY <1>3, <1>6, <2>1, <2>2
<1> QED
  BY <1>7, <1>8, <1>9 DEF EventLoop

\* What the steps outside the event loop do to its queue.
LEMMA QueueFrame ==
  ASSUME Next, ~EventLoop
  PROVE  \/ events' = events
         \/ Press /\ state = "IDLE" /\ events' = Append(events, "REC_PRESS")
         \/ Discard /\ events' = Append(events, "REC_DISCARD")
         \/ Failed /\ events' = Append(events, "ERROR")
         \/ Enqueue /\ \E x \in {"FINALIZE_DONE", "ERROR"} : events' = Append(events, x)
         \/ /\ ConfirmTimer \/ SyncFinishes \/ Release \/ RecordMax
            /\ \E x \in {"CONFIRM_DONE", "SYNC_DONE", "REC_RELEASE",
                 "RECORD_MAX"} : events' = Append(events, x)
<1>1. CASE ConfirmTimer \/ SyncFinishes \/ Release \/ RecordMax
  <2>1. \/ events' = Append(events, "CONFIRM_DONE") \/ events' = Append(events, "SYNC_DONE")
        \/ events' = Append(events, "REC_RELEASE") \/ events' = Append(events, "RECORD_MAX")
        \/ events' = events
    BY <1>1, Zenon DEF ConfirmTimer, SyncFinishes, Release, RecordMax, Post, loop
  <2> QED
    BY <1>1, <2>1
<1>2. CASE Press
  BY <1>2, Zenon DEF Press, Post, loop
<1>3. CASE Discard \/ Failed
  BY <1>3, Zenon DEF Discard, Failed, Post
<1>4. CASE Enqueue
  <2>1. events' = Append(events, "FINALIZE_DONE") \/ events' = Append(events, "ERROR")
    BY <1>4, Zenon DEF Enqueue, Post
  <2> QED
    BY <1>4, <2>1
<1>5. CASE \/ Tap \/ TimePasses \/ WorkerTakes \/ Prepare
           \/ Check("check", <<>>) \/ Check("checkOpen", <<"abort", "stop">>)
           \/ Check("checkCapture", <<"stop", "abort">>)
  BY <1>5, Zenon DEF Tap, TimePasses, WorkerTakes, Prepare, Check, loop
<1>6. CASE WorkerCalls \/ ButtonCalls \/ AudioTask \/ WriterTask
  BY <1>6, CallFrame
<1> QED
  BY <1>1, <1>2, <1>3, <1>4, <1>5, <1>6, Zenon DEF Next, Worker, ButtonTask

\* Every step keeps it that a tap has told the state machine.
LEMMA TapToldStep ==
  ASSUME Basics, TapTold, Next
  PROVE  TapTold'
<1>1. Staged /\ LoopTypes /\ session \in Nat /\ cancelled \in Nat /\ cancelled <= session
  BY AudioAssumption DEF Basics, Types, ButtonTypes, Sessions, Numbers
<1>2. CASE EventLoop
  BY <1>1, <1>2, LoopTapTold
<1>3. CASE ~EventLoop /\ UNCHANGED <<session, cancelled, tap>>
  <2>1. state' = state
    BY <1>3, StateFrame
  <2>2. CASE Press /\ state = "IDLE" /\ events' = Append(events, "REC_PRESS")
    <3>1. session' = session + 1
      BY <2>2 DEF Press
    <3> QED
      BY <1>1, <1>3, <3>1
  <2>3. CASE \/ events' = events
             \/ \E x \in {"REC_DISCARD", "ERROR", "FINALIZE_DONE", "CONFIRM_DONE", "SYNC_DONE",
                  "REC_RELEASE", "RECORD_MAX"} :
                  events' = Append(events, x)
    <3>1. {"REC_DISCARD", "ERROR", "FINALIZE_DONE", "CONFIRM_DONE", "SYNC_DONE", "REC_RELEASE",
              "RECORD_MAX"}
             \subseteq Events \ {"REC_PRESS"}
      BY DEF Events
    <3> QED
      BY <1>1, <1>3, <2>1, <2>3, <3>1, TapToldKept
  <2> QED
    BY <1>3, <2>2, <2>3, QueueFrame
<1>4. CASE Press
  <2>1. CASE state = "IDLE"
    <3>1. session' = session + 1 /\ cancelled' = cancelled
      BY <1>4, <2>1 DEF Press
    <3> QED
      BY <1>1, <3>1 DEF TapTold
  <2>2. CASE state # "IDLE"
    <3>1. UNCHANGED <<session, cancelled, tap, events, state>>
      BY <1>4, <2>2, Zenon DEF Press, tap, audioVars, loop
    <3> QED
      BY <1>1, <3>1, TapToldKept
  <2> QED
    BY <2>1, <2>2
<1>5. CASE Tap \/ ButtonCalls
  <2>1. tap' # <<>>
    <3>1. \E x \in Taps : tap' = x
      <4>1. {TapStop, TapStopWait, TapAbort, TapAbortWait, TapDone} \subseteq Taps
        BY Zenon DEF Taps
      <4>2. CASE Tap
        BY <1>1, <4>1, <4>2, TapMovesIn DEF TapMoves
      <4>3. CASE ButtonCalls
        <5>1. tap' \in {TapAbort, TapStopWait, TapAbortWait, TapDone}
          BY <1>1, <4>3, TapStopMoves, TapStoppedMoves, TapAbortMoves, TapAbortedMoves, Zenon
          DEF ButtonCalls, TapMoves
        <5> QED
          BY <4>1, <5>1
      <4> QED
        BY <1>5, <4>2, <4>3
    <3> QED
      BY <3>1, StagesApart
  <2> QED
    BY <2>1 DEF TapTold
<1>6. CASE Discard
  <2>1. events' = Append(events, "REC_DISCARD")
    BY <1>6, Zenon DEF Discard, Post
  <2>2. events \in Seq(Events \cup States) /\ "REC_DISCARD" \in Events \cup States
    BY <1>1 DEF LoopTypes, Events
  <2>3. On' = On \cup {"REC_DISCARD"}
    BY <2>1, <2>2, EventPosted DEF On
  <2>4. Followed(events', "REC_PRESS", "REC_DISCARD")
    BY <2>1, <2>2, FollowedPosted
  <2> QED
    BY <2>3, <2>4 DEF TapTold
<1>7. CASE ConfirmTimer \/ SyncFinishes \/ Release \/ RecordMax \/ TimePasses
  <2>1. UNCHANGED <<session, cancelled, tap>>
    BY <1>7, Zenon DEF ConfirmTimer, SyncFinishes, Release, RecordMax, TimePasses, button,
      audioVars, tap
  <2> QED
    BY <1>2, <1>3, <2>1
<1>8. CASE Worker \/ AudioTask \/ WriterTask
  BY <1>1, <1>2, <1>3, <1>8, ButtonFrame
<1> QED
  BY <1>2, <1>4, <1>5, <1>6, <1>7, <1>8, Zenon DEF Next, ButtonTask

\* The bridge's command, if there is room for it.
LEMMA BridgeCommand ==
  ASSUME QueueTypes, NEW s \in States, Command(s), ~dropped'
  PROVE  /\ s \in Commands => workQueue' = Append(workQueue, s) /\ Queued' = Queued \cup {s}
         /\ s \notin Commands => workQueue' = workQueue /\ Queued' = Queued
<1>1. /\ s \in Commands => workQueue' = Append(workQueue, s)
      /\ s \notin Commands => workQueue' = workQueue
  BY Zenon DEF Command
<1>2. workQueue \in Seq(Commands)
  BY DEF QueueTypes
<1>3. s \in Commands => ToSet(Append(workQueue, s)) = Queued \cup {s}
  BY <1>2, Posted DEF Queued
<1> QED
  BY <1>1, <1>3 DEF Queued

\* The RECORDING of a press is announced after every FINALIZING before it.
LEMMA LoopOldEnds ==
  ASSUME LoopTypes, QueueTypes, OldEnds, EventLoop, ~dropped'
  PROVE  OldEnds'
<1>1. worker' = worker
  BY LoopFrame
<1>2. /\ events \in Seq(Events \cup States) /\ workQueue \in Seq(Commands)
      /\ {"RECORDING", "FINALIZING", "SYNC_REQUEST"} \subseteq Events \cup States
      /\ "SYNC_REQUEST" \notin States /\ {"RECORDING", "FINALIZING"} \subseteq Commands
  BY DEF LoopTypes, QueueTypes, Events, States, Commands
<1>3. CASE \E s \in States : Transition(s)
  <2>1. PICK s \in States : Transition(s)
    BY <1>3
  <2>2. /\ events # <<>> /\ Tail(events) \in Seq(Events \cup States)
        /\ state' = s /\ events' = Append(Tail(events), s) /\ On' = Rest \cup {s}
    BY <2>1, LoopQueue DEF Rest
  <2>3. Followed(Append(Tail(events), "RECORDING"), "FINALIZING", "RECORDING")
    BY <1>2, <2>2, FollowedPosted
  <2> QED
    BY <2>2, <2>3 DEF OldEnds
<1>4. CASE \E s \in States : Bridge(s)
  <2>1. PICK s \in States : Bridge(s)
    BY <1>4
  <2>2. /\ events # <<>> /\ Tail(events) \in Seq(Events \cup States) /\ On = {s} \cup Rest
        /\ Head(events) = s /\ state' = state /\ Command(s) /\ Rest \subseteq On'
        /\ (events' = Tail(events) \/ events' = Append(Tail(events), "SYNC_REQUEST"))
    <3>1. /\ events # <<>> /\ On = {Head(events)} \cup Rest
          /\ Tail(events) \in Seq(Events \cup States)
          /\ Head(events) = s /\ state' = state /\ Command(s)
          /\ \/ events' = Tail(events) /\ On' = Rest
             \/ events' = Append(Tail(events), "SYNC_REQUEST") /\ On' = Rest \cup {"SYNC_REQUEST"}
      BY <2>1, LoopQueue DEF Rest
    <3> QED
      BY <3>1
  <2>3. SUFFICES ASSUME state = "RECORDING"
                 PROVE  /\ Followed(events', "FINALIZING", "RECORDING")
                        /\ "FINALIZING" \in Queued' =>
                             "RECORDING" \in On' \/ Followed(workQueue', "FINALIZING", "RECORDING")
    BY <2>2 DEF OldEnds
  <2>4. /\ Followed(events, "FINALIZING", "RECORDING")
        /\ "FINALIZING" \in Queued => "RECORDING" \in On \/ Followed(workQueue, "FINALIZING",
             "RECORDING")
    BY <2>3 DEF OldEnds
  <2>5. /\ Followed(Tail(events), "FINALIZING", "RECORDING")
        /\ s = "FINALIZING" => "RECORDING" \in Rest
    BY <1>2, <2>2, <2>4, FollowedTaken DEF Rest
  <2>6. Followed(Append(Tail(events), "SYNC_REQUEST"), "FINALIZING", "RECORDING")
    BY <1>2, <2>2, <2>5, FollowedPosted
  <2>7. /\ s \in Commands => workQueue' = Append(workQueue, s) /\ Queued' = Queued \cup {s}
        /\ s \notin Commands => workQueue' = workQueue /\ Queued' = Queued
    BY <2>2, BridgeCommand
  <2>9. ASSUME "FINALIZING" \in Queued', "RECORDING" \notin On'
        PROVE  Followed(workQueue', "FINALIZING", "RECORDING")
    <3>1. CASE s = "RECORDING"
      <4>1. workQueue' = Append(workQueue, "RECORDING")
        BY <1>2, <2>7, <3>1
      <4>2. Followed(Append(workQueue, "RECORDING"), "FINALIZING", "RECORDING")
        BY <1>2, FollowedPosted
      <4> QED
        BY <4>1, <4>2
    <3>2. CASE s = "FINALIZING"
      BY <2>2, <2>5, <2>9, <3>2
    <3>3. CASE s \notin {"RECORDING", "FINALIZING"}
      <4>1. "FINALIZING" \in Queued /\ "RECORDING" \notin On
        BY <2>2, <2>7, <2>9, <3>3
      <4>2. Followed(workQueue, "FINALIZING", "RECORDING")
        BY <2>4, <4>1
      <4>3. s \in Commands => Followed(Append(workQueue, s), "FINALIZING", "RECORDING")
        BY <1>2, <3>3, <4>2, FollowedPosted
      <4> QED
        BY <2>7, <4>2, <4>3
    <3> QED
      BY <3>1, <3>2, <3>3
  <2> QED
    BY <2>2, <2>5, <2>6, <2>9
<1>5. CASE Ignore
  <2>1. /\ events # <<>> /\ On = {Head(events)} \cup Rest /\ events' = Tail(events) /\ On' = Rest
        /\ state' = state /\ Head(events) \notin States
    BY <1>5, IgnoreQueue DEF Rest
  <2>2. "RECORDING" \in On' <=> "RECORDING" \in On
    BY <2>1 DEF States
  <2>3. workQueue' = workQueue /\ Queued' = Queued
    BY <1>5 DEF Ignore, Queued
  <2>4. Followed(events, "FINALIZING", "RECORDING") => Followed(events', "FINALIZING", "RECORDING")
    BY <1>2, <2>1, FollowedTaken
  <2> QED
    BY <1>1, <2>1, <2>2, <2>3, <2>4 DEF OldEnds
<1> QED
  BY <1>3, <1>4, <1>5 DEF EventLoop

\* Where no state is announced and no command taken, that order stays.
LEMMA OldEndsKept ==
  ASSUME LoopTypes, OldEnds, UNCHANGED <<state, workQueue>>,
         events' = events \/ \E x \in Events : events' = Append(events, x)
  PROVE  OldEnds'
<1>1. Queued' = Queued
  BY DEF Queued
<1>2. CASE events' = events
  BY <1>1, <1>2 DEF OldEnds, On
<1>3. CASE \E x \in Events : events' = Append(events, x)
  <2>1. PICK x \in Events : events' = Append(events, x)
    BY <1>3
  <2>2. events \in Seq(Events \cup States) /\ x \in Events \cup States /\ x # "FINALIZING"
    BY DEF LoopTypes, Events
  <2>3. On' = On \cup {x}
    BY <2>1, <2>2, EventPosted DEF On
  <2>4. Followed(events, "FINALIZING", "RECORDING") => Followed(events', "FINALIZING", "RECORDING")
    BY <2>1, <2>2, FollowedPosted
  <2> QED
    BY <1>1, <2>3, <2>4 DEF OldEnds
<1> QED
  BY <1>2, <1>3

\* The worker takes the commands in their order.
LEMMA TakesOldEnds ==
  ASSUME QueueTypes, OldEnds, WorkerTakes
  PROVE  OldEnds'
<1>1. UNCHANGED <<state, events>> /\ workQueue # <<>> /\ workQueue' = Tail(workQueue)
  BY Zenon DEF WorkerTakes, loop
<1>2. workQueue \in Seq(Commands)
  BY DEF QueueTypes
<1>3. Queued = {Head(workQueue)} \cup Queued' /\ On' = On
  BY <1>1, <1>2, Taken DEF Queued, On
<1>4. Followed(workQueue, "FINALIZING", "RECORDING") =>
         /\ Followed(workQueue', "FINALIZING", "RECORDING")
         /\ Head(workQueue) = "FINALIZING" => "RECORDING" \in Queued'
  BY <1>1, <1>2, FollowedTaken DEF Queued
<1> QED
  BY <1>1, <1>3, <1>4 DEF OldEnds

\* Outside the loop and the worker's taking, the commands stay.
LEMMA CommandFrame ==
  ASSUME Next, ~EventLoop, ~WorkerTakes
  PROVE  workQueue' = workQueue
  BY Zenon DEF Next, ConfirmTimer, SyncFinishes, Press, Release, Tap,
    TimePasses, ButtonTask, ButtonCalls, Discard, RecordMax, Worker, Prepare, Enqueue, Failed,
    Check, WorkerCalls, AudioTask, WriterTask

\* An event that is posted is no state.
LEMMA OnlyEvents ==
  ASSUME Next, ~EventLoop
  PROVE  events' = events \/ \E x \in Events : events' = Append(events, x)
<1>1. {"REC_PRESS", "REC_DISCARD", "ERROR", "FINALIZE_DONE", "CONFIRM_DONE", "SYNC_DONE",
          "REC_RELEASE",
       "RECORD_MAX"} \subseteq Events
  BY DEF Events
<1> QED
  BY <1>1, QueueFrame

\* Every step keeps the order.
LEMMA OldEndsStep ==
  ASSUME Basics, OldEnds, Next, ~dropped'
  PROVE  OldEnds'
<1>1. Staged /\ LoopTypes /\ QueueTypes
  BY DEF Basics, Types
<1>2. CASE EventLoop
  BY <1>1, <1>2, LoopOldEnds
<1>3. CASE WorkerTakes
  BY <1>1, <1>3, TakesOldEnds
<1>4. CASE ~EventLoop /\ ~WorkerTakes
  <2>1. UNCHANGED <<state, workQueue>>
    BY <1>1, <1>4, StateFrame, CommandFrame
  <2> QED
    BY <1>1, <1>4, <2>1, OnlyEvents, OldEndsKept
<1> QED
  BY <1>2, <1>3, <1>4

\* The loop's steps leave a served press served.
LEMMA LoopServed ==
  ASSUME LoopTypes, QueueTypes, Served, EventLoop, ~dropped'
  PROVE  Served'
<1>1. /\ UNCHANGED <<captureRun, capturing, codec, writing, writerRun, file, job, worker>>
      /\ UNCHANGED <<session, cancelled, mySession>>
  <2>1. UNCHANGED <<codec, writerRun>>
    BY Zenon DEF EventLoop, Transition, Bridge, Ignore, audioVars, capture, writer
  <2> QED
    BY <2>1, LoopFrame
<1>2. (UnderWay' <=> UnderWay) /\ (Active(session)' <=> Active(session))
  BY <1>1 DEF UnderWay, Written, Heard, Active
<1>3. SUFFICES ASSUME state' = "RECORDING", Active(session), "RECORDING" \notin On' \cup Queued',
                      worker # ToPrepare
               PROVE  /\ mySession = session
                      /\ On' \cap Outs # {} \/ worker \in {ToGiveUp, GivingUp, ToFail} \/ UnderWay
  BY <1>1, <1>2 DEF Served
<1>4. ASSUME state = "RECORDING", "RECORDING" \notin On \cup Queued, On \cap Outs \subseteq On'
      PROVE  /\ mySession = session
             /\ On' \cap Outs # {} \/ worker \in {ToGiveUp, GivingUp, ToFail} \/ UnderWay
  BY <1>3, <1>4 DEF Served
<1>5. Outs \cap States = {} /\ "RECORDING" \in States /\ "RECORDING" \in Commands
  BY TableSays DEF States, Commands
<1>6. CASE \E s \in States : Transition(s)
  <2>1. PICK s \in States : Transition(s)
    BY <1>6
  <2>2. state' = s /\ On' = Rest \cup {s}
    BY <2>1, LoopQueue DEF Rest
  <2> QED
    BY <1>3, <2>2
<1>7. CASE \E s \in States : Bridge(s)
  <2>1. PICK s \in States : Bridge(s)
    BY <1>7
  <2>2. /\ On = {s} \cup Rest /\ state' = state /\ Command(s) /\ Rest \subseteq On'
    <3>1. /\ On = {Head(events)} \cup Rest
          /\ Head(events) = s /\ state' = state /\ Command(s)
          /\ \/ events' = Tail(events) /\ On' = Rest
             \/ events' = Append(Tail(events), "SYNC_REQUEST") /\ On' = Rest \cup {"SYNC_REQUEST"}
      BY <2>1, LoopQueue DEF Rest
    <3> QED
      BY <3>1
  <2>3. /\ s \in Commands => Queued' = Queued \cup {s}
        /\ s \notin Commands => Queued' = Queued
    BY <2>2, BridgeCommand
  <2>4. s # "RECORDING" /\ "RECORDING" \notin On \cup Queued
    BY <1>3, <1>5, <2>2, <2>3
  <2>5. On \cap Outs \subseteq On'
    BY <1>5, <2>2
  <2> QED
    BY <1>3, <1>4, <2>2, <2>4, <2>5
<1>8. CASE Ignore
  <2>1. /\ On = {Head(events)} \cup Rest /\ On' = Rest /\ state' = state
        /\ Head(events) \notin States
        /\ \A next \in States : <<state, Head(events), next>> \notin Transitions
    BY <1>8, IgnoreQueue DEF Rest
  <2>2. Head(events) \notin Outs
    BY <1>3, <2>1, TableSays
  <2>3. Queued' = Queued
    BY <1>8 DEF Ignore, Queued
  <2>4. On \cap Outs \subseteq On' /\ "RECORDING" \notin On \cup Queued
    BY <1>3, <1>5, <2>1, <2>2, <2>3
  <2> QED
    BY <1>3, <1>4, <2>1, <2>4
<1> QED
  BY <1>6, <1>7, <1>8 DEF EventLoop

Fails == {ToGiveUp, GivingUp, ToFail}

\* Where the commands stay and the events only grow, what the worker does counts.
LEMMA ServedKept ==
  ASSUME LoopTypes, Served, worker # ToPrepare, UNCHANGED <<state, workQueue, session, cancelled,
             mySession>>,
         events' = events \/ \E x \in Events : events' = Append(events, x),
         Active(mySession) /\ (worker \in Fails \/ UnderWay) =>
           On' \cap Outs # {} \/ worker' \in Fails \/ UnderWay'
  PROVE  Served'
<1>1. Queued' = Queued /\ (Active(session)' <=> Active(session))
  BY DEF Queued, Active
<1>2. On \subseteq On'
  <2>1. CASE events' = events
    BY <2>1 DEF On
  <2>2. CASE \E x \in Events : events' = Append(events, x)
    <3>1. PICK x \in Events : events' = Append(events, x)
      BY <2>2
    <3>2. On' = On \cup {x}
      BY <3>1, EventPosted DEF On, LoopTypes
    <3> QED
      BY <3>2
  <2> QED
    BY <2>1, <2>2
<1>3. SUFFICES ASSUME state = "RECORDING", Active(session), "RECORDING" \notin On' \cup Queued'
               PROVE  /\ mySession = session
                      /\ On' \cap Outs # {} \/ worker' \in Fails \/ UnderWay'
  BY <1>1 DEF Served, Fails
<1>4. /\ mySession = session
      /\ On \cap Outs # {} \/ worker \in Fails \/ UnderWay
  BY <1>1, <1>2, <1>3 DEF Served, Fails
<1>5. Active(mySession)
  BY <1>3, <1>4
<1> QED
  BY <1>2, <1>4, <1>5

\* A call of the worker brings its recording further, or to its ERROR.
LEMMA WorkerKeeps ==
  ASSUME Basics, CodecShape, UNCHANGED faults, Active(mySession), worker \in Fails \/ UnderWay,
         WorkerCalls \/ Check("check", <<>>) \/ Check("checkOpen", <<"abort", "stop">>)
           \/ Check("checkCapture", <<"stop", "abort">>)
  PROVE  worker' \in Fails \/ UnderWay'
<1>1. Staged /\ ~Fault
  BY NoFailure DEF Basics
<1>2. job' = job
  BY Zenon DEF WorkerCalls, Check, work
<1>3. worker \in Fails \cup Begins \cup {<<>>}
  <2>1. worker \in Begins \cup {<<>>} \/ ~UnderWay
    BY Zenon DEF UnderWay, Begins
  <2> QED
    BY <2>1
<1>4. /\ Fails \subseteq Ends
      /\ \A s \in {ToFinalize, Finalizing, ToStop, Stopping} : s \notin Fails
      /\ {ToFinalize, Finalizing, ToStop, Stopping} \subseteq Ends
      /\ {UndoOpen, UndoOpenWait, UndoStop, UndoStopWait, UndoCapture, UndoCaptureWait, UndoAbort,
          UndoAbortWait} \subseteq Undoes
      /\ {ToCheck, ToOpen, ToSpawn, ToCheckOpen, ToCapture, ToRun, ToCheckCapture} \subseteq Begins
  BY StagesDiffer, Zenon DEF Begins, Undoes, Ends, Fails
<1>5. /\ \A s \in Begins : s \notin Fails
      /\ \A s \in Undoes \cup {ToFinalize, Finalizing, ToStop,
           Stopping} : s \notin Fails \cup Begins \cup {<<>>}
  BY <1>4, StagesApart
<1>6. CASE CaptureStop("worker") \/ CaptureStopped("worker")
  <2>1. worker \in {UndoStop, UndoCapture, ToStop, UndoStopWait, UndoCaptureWait, Stopping}
    BY <1>1, <1>6, StopMoves, StoppedMoves, Zenon DEF Moves
  <2> QED
    BY <1>3, <1>4, <1>5, <2>1
<1>7. CASE Finalize("worker", GiveUp) \/ Finalized("worker", GiveUp)
  <2>1. worker \in {ToFinalize, Finalizing}
    BY <1>1, <1>7, FinalizeMoves, FinalizedMoves, Zenon DEF Moves
  <2> QED
    BY <1>3, <1>5, <2>1
<1>8. CASE Abort("worker") \/ Aborted("worker")
  <2>1. worker \in {UndoOpen, UndoOpenWait, UndoAbort, UndoAbortWait} \/ worker' \in {GivingUp,
            ToFail}
    BY <1>1, <1>8, AbortMoves, AbortedMoves, Zenon DEF Moves
  <2> QED
    BY <1>3, <1>4, <1>5, <2>1 DEF Fails
<1>9. CASE Check("check", <<>>)
  <2>1. worker = ToCheck /\ worker' = ToOpen
    BY <1>1, <1>9, CheckMoves, Zenon DEF Moves
  <2>2. job # 0
    BY <1>4, <1>5, <2>1, StagesDiffer, StagesApart DEF UnderWay
  <2> QED
    BY <1>2, <2>1, <2>2 DEF UnderWay
<1>10. CASE OpenWav("worker", job, <<"error">>)
  <2>1. worker = ToOpen
    BY <1>1, <1>10, OpenMoves, Zenon DEF Moves
  <2>2. job # 0
    BY <1>4, <1>5, <2>1, StagesDiffer, StagesApart DEF UnderWay
  <2>3. writing' = writing
    BY <1>10, Zenon DEF OpenWav
  <2>4. CASE Moves(ToOpen, ToFail)
    BY <2>4 DEF Moves, Fails
  <2>5. CASE ~writing /\ file' = job /\ Moves(ToOpen, ToSpawn)
    BY <2>2, <2>3, <2>5 DEF Moves, UnderWay
  <2> QED
    BY <1>1, <1>10, <2>4, <2>5, OpenMoves, Zenon
<1>11. CASE SpawnWriter("worker")
  <2>1. worker = ToSpawn /\ worker' = ToCheckOpen
    BY <1>1, <1>11, SpawnMoves, Zenon DEF Moves
  <2>2. file # 0
    BY <1>4, <1>5, <2>1, StagesDiffer, StagesApart DEF UnderWay
  <2>3. writing' = TRUE /\ writerRun' = TRUE /\ file' = file
    BY <1>11, Zenon DEF SpawnWriter
  <2> QED
    BY <2>1, <2>2, <2>3 DEF UnderWay, Written
<1>12. CASE Check("checkOpen", <<"abort", "stop">>)
  <2>1. worker = ToCheckOpen /\ worker' = ToCapture
    BY <1>1, <1>12, CheckOpenMoves, Zenon DEF Moves
  <2>2. Written
    BY <1>4, <1>5, <2>1, StagesDiffer, StagesApart DEF UnderWay
  <2>3. UNCHANGED <<writing, writerRun, file>>
    BY <1>12, Zenon DEF Check, writer
  <2> QED
    BY <2>1, <2>2, <2>3 DEF UnderWay, Written
<1>13. CASE CaptureStart("worker", GiveUp)
  <2>1. UNCHANGED <<writing, writerRun, file, captureRun, capturing>>
    BY <1>13, Zenon DEF CaptureStart, writer
  <2>2. worker = ToCapture
    BY <1>1, <1>13, StartMoves, Zenon DEF Moves
  <2>3. Written
    BY <1>4, <1>5, <2>2, StagesDiffer, StagesApart DEF UnderWay
  <2>4. CASE captureRun /\ UNCHANGED codec /\ worker' = ToCheckCapture
    <3>1. ToCapture \notin {ToCheckCapture, UndoCapture}
      BY <1>4, StagesDiffer, StagesApart
    <3>2. Heard
      BY <2>2, <2>3, <2>4, <3>1 DEF CodecShape, Heard, Written
    <3> QED
      BY <2>1, <2>3, <2>4, <3>2 DEF UnderWay, Written, Heard
  <2>5. CASE codec' = TRUE /\ worker' = ToRun
    BY <2>1, <2>3, <2>5 DEF UnderWay, Written
  <2> QED
    BY <1>1, <1>13, <2>4, <2>5, StartMoves, Zenon DEF Moves
<1>14. CASE CaptureRun("worker")
  <2>1. worker = ToRun /\ worker' = ToCheckCapture
    BY <1>1, <1>14, RunMoves, Zenon DEF Moves
  <2>2. Written /\ codec
    BY <1>4, <1>5, <2>1, StagesDiffer, StagesApart DEF UnderWay
  <2>3. UNCHANGED <<writing, writerRun, file, codec>> /\ captureRun' = TRUE /\ capturing' = TRUE
    BY <1>14, Zenon DEF CaptureRun, writer
  <2> QED
    BY <2>1, <2>2, <2>3 DEF UnderWay, Written, Heard
<1>15. CASE Check("checkCapture", <<"stop", "abort">>)
  <2>1. worker = ToCheckCapture /\ worker' = <<>>
    BY <1>1, <1>15, CheckCaptureMoves, Zenon DEF Moves
  <2>2. Written /\ Heard
    BY <1>4, <1>5, <2>1, StagesDiffer, StagesApart DEF UnderWay
  <2>3. UNCHANGED <<writing, writerRun, file, codec, captureRun, capturing>>
    BY <1>15, Zenon DEF Check, writer, capture
  <2> QED
    BY <2>1, <2>2, <2>3 DEF UnderWay, Written, Heard
<1> QED
  BY <1>6, <1>7, <1>8, <1>9, <1>10, <1>11, <1>12, <1>13, <1>14, <1>15, Zenon DEF WorkerCalls

\* The two tasks do not stop what is under way.
LEMMA TasksKeep ==
  ASSUME Basics, UNCHANGED faults, UnderWay, AudioTask \/ WriterTask
  PROVE  UnderWay'
<1>1. UNCHANGED <<worker, job, captureRun>>
  BY TaskSteps, CallFrame
<1>2. ASSUME UNCHANGED <<file, writing, writerRun, codec>>, captureRun => capturing' = capturing
      PROVE  UnderWay'
  BY <1>1, <1>2 DEF UnderWay, Written, Heard
<1>3. CASE AudioTask
  <2>1. UNCHANGED <<file, writing, writerRun, codec>> /\ (captureRun => capturing' = capturing)
    BY <1>3, Zenon DEF AudioTask, AudioReads, AudioEnds, capture, writer
  <2> QED
    BY <1>2, <2>1
<1>4. CASE WriterTask
  <2>1. UNCHANGED <<codec, capturing>>
    BY <1>4, Zenon DEF WriterTask, WriterWrites, WriterFinishes, WriterFails, WriterEnds, capture
  <2>2. CASE WriterWrites
    <3>1. UNCHANGED <<file, writing, writerRun>>
      BY <2>2, Zenon DEF WriterWrites
    <3> QED
      BY <1>2, <2>1, <3>1
  <2>3. CASE WriterFinishes \/ WriterFails
    <3>1. writing /\ ~Written
      <4>1. CASE WriterFinishes
        BY <4>1, Zenon DEF WriterFinishes, Written
      <4>2. CASE WriterFails
        <5>1. writing /\ (file = 0 \/ Fault)
          BY <4>2, Zenon DEF WriterFails
        <5> QED
          BY <5>1, NoFailure DEF Written
      <4> QED
        BY <2>3, <4>1, <4>2
    <3> QED
      BY <1>1, <3>1 DEF UnderWay
  <2> QED
    BY <1>4, <2>2, <2>3, Zenon DEF WriterTask
<1> QED
  BY <1>3, <1>4

\* A FINALIZING that is taken leaves the RECORDING of a press behind it.
LEMMA TakesServed ==
  ASSUME Basics, OldEnds, Served, WorkerTakes
  PROVE  Served'
<1>1. Staged /\ workQueue \in Seq(Commands)
  BY DEF Basics, Types, QueueTypes
<1>2. /\ UNCHANGED <<state, events, session, cancelled, mySession, job>>
      /\ UNCHANGED <<captureRun, capturing, codec, writing, writerRun, file>>
      /\ workQueue # <<>> /\ workQueue' = Tail(workQueue)
  BY Zenon DEF WorkerTakes, loop, button, work, capture, writer
<1>3. Queued = {Head(workQueue)} \cup Queued' /\ On' = On
  BY <1>1, <1>2, Taken DEF Queued, On
<1>4. CASE worker' = ToPrepare
  BY <1>4 DEF Served
<1>5. CASE Head(workQueue) = "FINALIZING"
  <2>1. state = "RECORDING" => "RECORDING" \in On' \cup Queued'
    <3>1. Followed(workQueue, "FINALIZING", "RECORDING") => "RECORDING" \in Queued'
      BY <1>1, <1>2, <1>5, FollowedTaken DEF Queued
    <3> QED
      BY <1>3, <1>5, <3>1 DEF OldEnds
  <2> QED
    BY <1>2, <2>1 DEF Served
<1>6. CASE Head(workQueue) = "CONFIRM" /\ Moves(<<>>, <<>>)
  <2>1. worker = <<>> /\ worker' = <<>> /\ <<>> # ToPrepare
    BY <1>6, StagesApart DEF Moves
  <2>2. (UnderWay' <=> UnderWay) /\ (Active(session)' <=> Active(session))
    BY <1>2, <2>1 DEF UnderWay, Written, Heard, Active
  <2>3. "RECORDING" \in Queued => "RECORDING" \in Queued'
    BY <1>3, <1>6
  <2> QED
    BY <1>2, <1>3, <2>1, <2>2, <2>3 DEF Served
<1> QED
  BY <1>1, <1>4, <1>5, <1>6, TakesMoves, Zenon DEF Moves

\* A preparation serves the session of the press, or finds that it was a tap.
LEMMA PrepareServed ==
  ASSUME Basics, Served, Prepare, UNCHANGED faults
  PROVE  Served'
<1>1. Staged /\ ~Fault /\ prepared \in Nat
  BY NoFailure, AudioAssumption DEF Basics, Types, WorkTypes, Wavs
<1>2. UNCHANGED <<session, cancelled>> /\ mySession' = session
  BY Zenon DEF Prepare, button
<1>3. Active(session)' <=> Active(session)
  BY <1>2 DEF Active
<1>4. CASE ~Active(session)
  BY <1>3, <1>4 DEF Served
<1>5. CASE prepared' = prepared + 1 /\ job' = prepared' /\ Moves(ToPrepare, ToCheck)
  <2>1. worker' = ToCheck /\ job' # 0
    BY <1>1, <1>5 DEF Moves
  <2> QED
    BY <1>2, <2>1 DEF Served, UnderWay
<1> QED
  BY <1>1, <1>4, <1>5, PrepareMoves, Zenon

\* Every step keeps it that a press is served.
LEMMA ServedStep ==
  ASSUME Basics, TapOwn, CodecShape, OldEnds, Served, Next, UNCHANGED faults, ~dropped'
  PROVE  Served'
<1>1. Staged /\ LoopTypes /\ QueueTypes
  BY DEF Basics, Types
<1>2. tap # <<>> => ~Active(session)
  BY DEF TapOwn, Active
<1>3. CASE EventLoop
  BY <1>1, <1>3, LoopServed
<1>4. CASE WorkerTakes
  BY <1>4, TakesServed
<1>5. CASE Prepare
  BY <1>5, PrepareServed
<1>6. ASSUME ~EventLoop, ~WorkerTakes
      PROVE  /\ UNCHANGED <<state, workQueue>>
             /\ events' = events \/ \E x \in Events : events' = Append(events, x)
  BY <1>6, StateFrame, CommandFrame, OnlyEvents
<1>7. CASE UNCHANGED <<captureRun, capturing, codec, writing, writerRun, file, job, worker,
                       session, cancelled, mySession>> /\ ~EventLoop /\ ~WorkerTakes
  <2>1. UnderWay => UnderWay'
    BY <1>7 DEF UnderWay, Written, Heard
  <2>2. CASE worker = ToPrepare
    BY <1>7, <2>2 DEF Served
  <2>3. CASE worker # ToPrepare
    BY <1>1, <1>6, <1>7, <2>1, <2>3, ServedKept
  <2> QED
    BY <2>2, <2>3
<1>8. CASE ConfirmTimer \/ SyncFinishes \/ Release \/ TimePasses \/ RecordMax
  <2>1. UNCHANGED <<captureRun, capturing, codec, writing, writerRun, file, job, worker,
                    session, cancelled, mySession>>
    BY <1>8, Zenon DEF ConfirmTimer, SyncFinishes, Release, TimePasses, RecordMax, audioVars,
      capture, writer, button, work, worker
  <2> QED
    BY <1>3, <1>4, <1>7, <2>1
<1>9. CASE Press
  <2>1. CASE state = "IDLE"
    <3>1. state' # "RECORDING"
      BY <1>9, <2>1, HandFrame
    <3> QED
      BY <3>1 DEF Served
  <2>2. CASE state # "IDLE"
    <3>1. UNCHANGED <<captureRun, capturing, codec, writing, writerRun, file, job, worker,
                      session, cancelled, mySession>>
      BY <1>9, <2>2, Zenon DEF Press, audioVars, capture, writer, work, worker
    <3> QED
      BY <1>3, <1>4, <1>7, <3>1
  <2> QED
    BY <2>1, <2>2
<1>10. CASE Tap \/ ButtonCalls \/ Discard
  <2>1. cancelled' = session /\ session' = session
    <3>1. CASE Tap
      BY <3>1, Zenon DEF Tap
    <3>2. CASE ButtonCalls \/ Discard
      <4>1. UNCHANGED <<session, cancelled>>
        BY <3>2, Zenon DEF ButtonCalls, Discard, button
      <4>2. tap # <<>>
        BY <3>2, Zenon DEF ButtonCalls, CaptureStop, CaptureStopped, Abort, Aborted, Discard, At,
          tap
      <4> QED
        BY <4>1, <4>2 DEF TapOwn
    <3> QED
      BY <1>10, <3>1, <3>2
  <2>2. ~Active(session)'
    BY <2>1 DEF Active
  <2> QED
    BY <2>2 DEF Served
<1>11. CASE AudioTask \/ WriterTask
  <2>1. UNCHANGED <<session, cancelled, mySession, worker>>
    BY <1>11, CallFrame, TaskSteps
  <2>2. UnderWay => UnderWay'
    BY <1>11, TasksKeep
  <2>3. CASE worker = ToPrepare
    BY <2>1, <2>3 DEF Served
  <2>4. CASE worker # ToPrepare /\ ~EventLoop /\ ~WorkerTakes
    BY <1>1, <1>6, <2>1, <2>2, <2>4, ServedKept
  <2> QED
    BY <1>3, <1>4, <2>3, <2>4
<1>12. CASE Enqueue \/ Failed
  <2>1. UNCHANGED <<session, cancelled, mySession>>
    BY <1>12, Zenon DEF Enqueue, Failed, button, work
  <2>2. /\ ToEnqueue # ToPrepare /\ ToFail # ToPrepare /\ ToEnqueue # <<>> /\ ToEnqueue \notin Fails
        /\ ToEnqueue \notin Begins
    BY StagesDiffer, StagesApart DEF Ends, Fails
  <2>3. CASE Enqueue
    <3>1. worker = ToEnqueue
      BY <1>1, <2>3, EnqueueMoves DEF Moves
    <3>2. ~UnderWay
      <4>1. UnderWay => worker \in Begins \cup {<<>>}
        BY Zenon DEF UnderWay, Begins
      <4> QED
        BY <2>2, <3>1, <4>1
    <3>3. CASE ~EventLoop /\ ~WorkerTakes
      BY <1>1, <1>6, <2>1, <2>2, <3>1, <3>2, <3>3, ServedKept
    <3> QED
      BY <1>3, <1>4, <3>3
  <2>4. CASE Failed
    <3>1. worker = ToFail
      BY <1>1, <2>4, FailedMoves DEF Moves
    <3>2. events' = Append(events, "ERROR")
      BY <2>4, Zenon DEF Failed, Post
    <3>3. On' \cap Outs # {}
      <4>1. events \in Seq(Events \cup States) /\ "ERROR" \in Events \cup States
        BY <1>1 DEF LoopTypes, Events
      <4>2. "ERROR" \in On'
        BY <3>2, <4>1, EventPosted DEF On
      <4> QED
        BY <4>2 DEF Outs
    <3>4. CASE ~EventLoop /\ ~WorkerTakes
      BY <1>1, <1>6, <2>1, <2>2, <3>1, <3>3, <3>4, ServedKept
    <3> QED
      BY <1>3, <1>4, <3>4
  <2> QED
    BY <1>12, <2>3, <2>4
<1>13. CASE WorkerCalls \/ Check("check", <<>>) \/ Check("checkOpen", <<"abort", "stop">>)
            \/ Check("checkCapture", <<"stop", "abort">>)
  <2>1. UNCHANGED <<session, cancelled, mySession>>
    BY <1>13, Zenon DEF WorkerCalls, Check, button, work
  <2>2. worker # ToPrepare
    <3>1. ~At("worker", "prepare")
      BY <1>13, Zenon DEF WorkerCalls, Check, CaptureStart, CaptureRun, CaptureStop, CaptureStopped,
        OpenWav, SpawnWriter, Finalize, Finalized, Abort, Aborted, At
    <3> QED
      BY <3>1 DEF At, ToPrepare, worker
  <2>3. CASE ~EventLoop /\ ~WorkerTakes
    BY <1>1, <1>6, <1>13, <2>1, <2>2, <2>3, WorkerKeeps, ServedKept
  <2> QED
    BY <1>3, <1>4, <2>3
<1> QED
  BY <1>3, <1>4, <1>5, <1>8, <1>9, <1>10, <1>11, <1>12, <1>13, Zenon DEF Next, Worker, ButtonTask

\* Backwards: what has not failed now had not failed before.
LEMMA StaysUnfailed ==
  ASSUME Basics, [Next]_vars, Unfailed'
  PROVE  Unfailed /\ UNCHANGED faults
<1>1. faults \in Nat
  BY AudioAssumption DEF Basics, Types
<1>2. faults' = faults \/ faults' = faults + 1
  BY FaultsCount
<1>3. dropped => dropped'
  BY Zenon DEF Next, EventLoop, Transition, Bridge, Command, Ignore, ConfirmTimer, SyncFinishes,
    Press, Release, Tap, TimePasses, ButtonTask, ButtonCalls, Discard, RecordMax, Worker,
    WorkerTakes, Prepare, Enqueue, Failed, Check, WorkerCalls, AudioTask, WriterTask, vars
<1> QED
  BY <1>1, <1>2, <1>3 DEF Unfailed

\* The inductive invariant of a press, step by step.
LEMMA HeardStep ==
  ASSUME Basics, HeardShape, [Next]_vars
  PROVE  HeardShape'
<1>1. CASE Next
  <2>1. TapOwn' /\ CodecShape' /\ TapTold'
    BY <1>1, TapOwnStep, CodecStep, TapToldStep DEF HeardShape
  <2>2. ASSUME Unfailed' PROVE OldEnds' /\ Served'
    <3>1. Unfailed /\ UNCHANGED faults /\ ~dropped'
      BY <2>2, StaysUnfailed DEF Unfailed
    <3> QED
      BY <1>1, <3>1, OldEndsStep, ServedStep DEF HeardShape
  <2> QED
    BY <2>1, <2>2 DEF HeardShape
<1>2. CASE UNCHANGED vars
  <2>1. /\ UNCHANGED <<codec, captureRun, capturing, file, writerRun, writing, worker, tap, faults>>
        /\ UNCHANGED <<state, events, age, session, cancelled, workQueue, dropped, mySession, job>>
    BY <1>2, Zenon DEF vars, audioVars, capture, writer, loop, button, work, worker, tap
  <2>2. TapOwn' /\ CodecShape' /\ TapTold'
    BY <2>1 DEF HeardShape, TapOwn, CodecShape, TapTold, Active, On
  <2>3. OldEnds => OldEnds'
    BY <2>1 DEF OldEnds, On, Queued
  <2>4. Served => Served'
    BY <2>1 DEF Served, UnderWay, Written, Heard, Active, On, Queued
  <2>5. Unfailed' => Unfailed
    BY <2>1 DEF Unfailed
  <2> QED
    BY <2>2, <2>3, <2>4, <2>5 DEF HeardShape
<1> QED
  BY <1>1, <1>2

\* It holds at the start.
LEMMA HeardInit ==
  ASSUME Init
  PROVE  HeardShape
<1>1. PICK boot \in Boots : events = <<boot>>
  BY DEF Init
<1>2. boot \in {"BOOT_COMPLETE", "REC_PRESS", "PROVISION_REQUEST"}
  BY RecAssumption
<1>3. state = "BOOT" /\ age = "none" /\ session = 0
  BY DEF Init
<1>4. ~captureRun /\ worker = <<>> /\ tap = <<>>
  BY DEF Init, AudioInit, worker, tap, Tasks
<1>5. <<>> # ToRun
  BY StagesApart DEF Begins
<1>6. TapOwn /\ CodecShape /\ TapTold
  BY <1>3, <1>4, <1>5 DEF TapOwn, CodecShape, TapTold
<1>7. OldEnds /\ Served
  BY <1>3 DEF OldEnds, Served
<1> QED
  BY <1>6, <1>7 DEF HeardShape

\* Who hears a press that has not been taken back, in every run in which nothing
\* fails and no command is lost.
THEOREM PressesAreServed == Spec => [](Basics /\ HeardShape)
<1>1. Basics /\ HeardShape /\ [Next]_vars => (Basics /\ HeardShape)'
  BY BasicsStep, HeardStep
<1>2. Init => Basics /\ HeardShape
  BY BasicsInit, HeardInit
<1> QED
  BY <1>1, <1>2, PTL DEF Spec

\* Once a press has settled, the microphone runs and a WAV is open: the worker's
\* silent returns are all for a tap (rec_worker.c:72-91).
THEOREM PressesAreHeard == Spec => []PressIsHeard
<1>1. ASSUME Basics, HeardShape PROVE PressIsHeard
  <2>1. SUFFICES ASSUME Quiet, state = "RECORDING", session # 0, Unfailed
                 PROVE  Heard
    BY DEF PressIsHeard, Unfailed
  <2>2. worker = <<>> /\ tap = <<>> /\ On = {} /\ Queued = {}
    BY <2>1 DEF Quiet, Tasks, worker, tap, On, Queued, ToSet
  <2>3. Active(session)
    BY <1>1, <2>1, <2>2 DEF HeardShape, TapTold, Active
  <2>4. <<>> # ToPrepare /\ <<>> \notin {ToGiveUp, GivingUp, ToFail}
    BY StagesApart DEF Ends
  <2>5. UnderWay
    BY <1>1, <2>1, <2>2, <2>3, <2>4 DEF HeardShape, Served
  <2>6. <<>> \notin {ToCheck, ToOpen, ToSpawn, ToCheckOpen, ToCapture, ToRun}
    BY StagesApart DEF Begins
  <2> QED
    BY <2>2, <2>5, <2>6 DEF UnderWay
<1> QED
  BY PressesAreServed, <1>1, PTL

-----------------------------------------------------------------------------
(* What a WAV contains. *)

SavedSessions == {j.session : j \in saved}

\* A WAV is being made: its number is the path.
Taping == writing \/ file # 0 \/ worker \in {ToSpawn, Finalizing, ToEnqueue}

\* The ring holds nothing that is saved, and nothing of a session still to come.
RingShape ==
  /\ \A s \in ToSet(ring) : s <= mySession /\ s \notin SavedSessions
  /\ \A s \in Sessions : s > mySession => captured[s] = 0
  /\ worker \in {Finalizing, ToEnqueue} /\ ~writing => ring = <<>>

\* The session that is served is not saved, and nothing has been heard of it
\* before the microphone is on.
FreshShape ==
  /\ 0 \notin SavedSessions
  /\ capturing => mySession \notin SavedSessions
  /\ worker \in Begins => job # 0
  /\ worker = ToSpawn => ~writing
  /\ worker \in Begins \ {ToCheckCapture} =>
       ~capturing /\ captured[mySession] = 0 /\ mySession \notin ToSet(ring)

\* What is in the WAV that is being made: nothing that is saved, and of the
\* session that is served all that is no longer in the ring.
TapeShape ==
  /\ file # 0 => file = path
  /\ (writing \/ worker = ToSpawn) /\ Active(mySession) => file # 0
  /\ Taping /\ path # 0 =>
       /\ \A j \in saved : j.wav # path
       /\ \A s \in ToSet(wav[path]) : s <= mySession /\ s \notin SavedSessions
       /\ Active(mySession) =>
            Count(ring, mySession) + Count(wav[path], mySession) = captured[mySession]

SavedWavs ==
  \A j \in saved :
    /\ \A s \in ToSet(wav[j.wav]) : s <= j.session /\ (s \in SavedSessions => s = j.session)
    /\ Count(wav[j.wav], j.session) = captured[j.session]

WholeShape == RingShape /\ FreshShape /\ TapeShape /\ SavedWavs

\* Where nothing is heard, written or saved, and no WAV is begun.
LEMMA WholeKept ==
  ASSUME WholeShape, UNCHANGED <<ring, captured, wav, path, mySession, job, saved>>,
         file' \in {file, 0}, Active(mySession)' => Active(mySession), capturing' => capturing,
         Taping' => Taping,
         worker' \in Begins => worker \in Begins,
         worker' = ToSpawn => worker = ToSpawn /\ (writing' => writing),
         worker' \in Begins \ {ToCheckCapture} => worker \in Begins \ {ToCheckCapture},
         (writing' \/ worker' = ToSpawn) /\ Active(mySession) => file' = file /\ (writing
             \/ worker = ToSpawn),
         worker' \in {Finalizing, ToEnqueue} /\ ~writing' => ring = <<>>
  PROVE  WholeShape'
<1>1. SavedSessions' = SavedSessions
  BY DEF SavedSessions
<1>2. RingShape'
  BY <1>1 DEF WholeShape, RingShape
<1>3. FreshShape'
  BY <1>1 DEF WholeShape, FreshShape
<1>4. TapeShape'
  BY <1>1 DEF WholeShape, TapeShape
<1>5. SavedWavs'
  BY <1>1 DEF WholeShape, SavedWavs
<1> QED
  BY <1>2, <1>3, <1>4, <1>5 DEF WholeShape

\* The same where also the WAV stays open or closed: only the place of the worker counts.
LEMMA WholeAside ==
  ASSUME WholeShape, UNCHANGED <<ring, captured, wav, path, mySession, job, saved, file, writing>>,
         Active(mySession)' => Active(mySession), capturing' => capturing,
         \/ worker' = worker
         \/ worker' \notin Begins \cup {Finalizing, ToEnqueue}
         \/ worker' \in Begins \ {ToSpawn, ToCheckCapture} /\ worker \in Begins \ {ToCheckCapture}
         \/ worker' = ToCheckCapture /\ worker \in Begins
         \/ worker' = Finalizing /\ writing
         \/ worker' = ToEnqueue /\ worker = Finalizing
  PROVE  WholeShape'
<1>1. ToSpawn \in Begins /\ ToCheckCapture \in Begins /\ ToSpawn # ToCheckCapture
  BY StagesDiffer DEF Begins
<1>2. Finalizing \notin Begins /\ ToEnqueue \notin Begins
  BY StagesApart DEF Ends
<1>3. worker \in {Finalizing, ToEnqueue} /\ ~writing => ring = <<>>
  BY DEF WholeShape, RingShape
<1>4. /\ worker' = ToSpawn => worker = ToSpawn
      /\ worker' \in Begins => worker \in Begins
      /\ worker' \in Begins \ {ToCheckCapture} => worker \in Begins \ {ToCheckCapture}
      /\ worker' \in {Finalizing, ToEnqueue} => worker \in {Finalizing, ToEnqueue} \/ writing
  BY <1>1, <1>2
<1>5. Taping' => Taping
  BY <1>4 DEF Taping
<1> QED
  BY <1>3, <1>4, <1>5, WholeKept

\* The steps that leave ring, WAV and the capture under way alone.
LEMMA WholeAsides ==
  ASSUME Basics, WholeShape,
         \/ EventLoop \/ ConfirmTimer \/ SyncFinishes
         \/ Press \/ Release \/ Tap \/ TimePasses \/ RecordMax \/ Discard
         \/ WorkerTakes \/ Failed
         \/ Check("check", <<>>) \/ Check("checkOpen", <<"abort", "stop">>)
         \/ Check("checkCapture", <<"stop", "abort">>)
         \/ ButtonCalls /\ (CaptureStop("button") \/ CaptureStopped("button"))
  PROVE  WholeShape'
<1>1. Staged /\ workQueue \in Seq(Commands)
  BY DEF Basics, Types, QueueTypes
<1>2. /\ {ToOpen, ToCapture} \subseteq Begins \ {ToSpawn, ToCheckCapture}
      /\ {ToCheck, ToCheckOpen} \subseteq Begins \ {ToCheckCapture}
      /\ \A s \in {<<>>, ToPrepare, ToStop, UndoOpen,
           UndoCapture} : s \notin Begins \cup {Finalizing, ToEnqueue}
  <2>1. /\ {ToOpen, ToCapture} \subseteq Begins \ {ToSpawn, ToCheckCapture}
        /\ {ToCheck, ToCheckOpen} \subseteq Begins \ {ToCheckCapture}
    BY StagesDiffer DEF Begins
  <2>2. {UndoOpen, UndoCapture} \subseteq Undoes /\ {ToStop, Finalizing, ToEnqueue} \subseteq Ends
    BY Zenon DEF Undoes, Ends
  <2>3. ToStop # Finalizing /\ ToStop # ToEnqueue
    BY StagesDiffer
  <2> QED
    BY <2>1, <2>2, <2>3, StagesApart
<1>3. CASE EventLoop \/ ConfirmTimer \/ SyncFinishes
  <2>1. UNCHANGED <<ring, captured, wav, path, mySession, job, saved, file, writing, capturing,
                    worker, session, cancelled>>
    BY <1>3, Zenon DEF EventLoop, Transition, Bridge, Ignore, ConfirmTimer, SyncFinishes, audioVars,
      capture, writer, button, work, worker
  <2>2. Active(mySession)' => Active(mySession)
    BY <2>1 DEF Active
  <2> QED
    BY <2>1, <2>2, WholeAside
<1>4. CASE Press \/ Release \/ Tap \/ TimePasses \/ RecordMax \/ Discard
  <2>1. worker' = worker
    <3>1. CASE Tap \/ Discard
      BY <1>1, <3>1, TapMovesIn, DiscardMoves DEF TapMoves
    <3>2. CASE Press \/ Release \/ TimePasses \/ RecordMax
      BY <3>2, Zenon DEF Press, Release, TimePasses, RecordMax, audioVars, worker
    <3> QED
      BY <1>4, <3>1, <3>2
  <2> QED
    BY <1>4, <2>1, HandFrame, ActiveLost, WholeAside
<1>5. CASE \/ WorkerTakes \/ Failed
           \/ Check("check", <<>>) \/ Check("checkOpen", <<"abort", "stop">>)
           \/ Check("checkCapture", <<"stop", "abort">>)
  <2>1. UNCHANGED <<ring, captured, wav, path, mySession, job, saved, file, writing, capturing,
                    session, cancelled>>
    BY <1>5, Zenon DEF WorkerTakes, Failed, Check, capture, writer, button, work
  <2>2. Active(mySession)' => Active(mySession)
    BY <2>1 DEF Active
  <2>3. \/ worker' \in {<<>>, ToPrepare, ToStop, UndoOpen, UndoCapture}
        \/ worker = ToCheck /\ worker' = ToOpen
        \/ worker = ToCheckOpen /\ worker' = ToCapture
    BY <1>1, <1>5, TakesMoves, FailedMoves, CheckMoves, CheckOpenMoves, CheckCaptureMoves,
      Zenon DEF Moves
  <2> QED
    BY <1>2, <2>1, <2>2, <2>3, WholeAside
<1>6. CASE ButtonCalls /\ (CaptureStop("button") \/ CaptureStopped("button"))
  <2>1. UNCHANGED <<ring, captured, wav, path, file, writing, capturing>>
    BY <1>6, Zenon DEF CaptureStop, CaptureStopped, writer
  <2>2. UNCHANGED <<session, cancelled, mySession, job, saved>>
    BY <1>6, CallFrame
  <2>3. worker' = worker
    BY <1>1, <1>6, TapStopMoves, TapStoppedMoves, Zenon DEF TapMoves
  <2>4. Active(mySession)' => Active(mySession)
    BY <2>2 DEF Active
  <2> QED
    BY <2>1, <2>2, <2>3, <2>4, WholeAside
<1> QED
  BY <1>3, <1>4, <1>5, <1>6

\* The stops of the worker, the begin and the end of its wait for the writer, and
\* the first half of the start of the microphone.
LEMMA WholeCalls ==
  ASSUME Basics, WholeShape, Plain, UNCHANGED faults, WorkerCalls,
         \/ CaptureStop("worker") \/ CaptureStopped("worker")
         \/ Finalize("worker", GiveUp) \/ Finalized("worker", GiveUp)
         \/ CaptureStart("worker", GiveUp) \/ SpawnWriter("worker")
  PROVE  WholeShape'
<1>1. Staged /\ ~Fault
  BY NoFailure DEF Basics
<1>2. UNCHANGED <<session, cancelled, mySession, job, saved>>
  BY CallFrame
<1>3. Active(mySession)' <=> Active(mySession)
  BY <1>2 DEF Active
<1>4. UNCHANGED <<ring, captured, wav, path, file, capturing>>
  BY Zenon DEF CaptureStop, CaptureStopped, Finalize, Finalized, CaptureStart, SpawnWriter,
    capture, writer
<1>5. /\ {ToRun, ToCapture, ToCheckOpen} \subseteq Begins \ {ToSpawn, ToCheckCapture}
      /\ ToSpawn \in Begins /\ ToSpawn # ToCheckCapture
      /\ {<<>>, UndoAbort, ToFinalize, UndoStopWait, UndoCaptureWait, Stopping, ToGiveUp}
           \cap (Begins \cup {Finalizing, ToEnqueue}) = {}
      /\ ToCheckOpen \notin {Finalizing, ToEnqueue}
  <2>1. {ToRun, ToCapture, ToCheckOpen} \subseteq Begins \ {ToSpawn, ToCheckCapture}
    BY StagesDiffer DEF Begins
  <2>2. ToSpawn \in Begins /\ ToSpawn # ToCheckCapture
    BY StagesDiffer DEF Begins
  <2>3. {UndoAbort, UndoStopWait, UndoCaptureWait} \subseteq Undoes
    BY Zenon DEF Undoes
  <2>4. {ToFinalize, Stopping, ToGiveUp, Finalizing, ToEnqueue} \subseteq Ends
    BY Zenon DEF Ends
  <2>5. {ToFinalize, Stopping, ToGiveUp} \cap {Finalizing, ToEnqueue} = {}
    BY StagesDiffer
  <2> QED
    BY <2>1, <2>2, <2>3, <2>4, <2>5, StagesApart
<1>6. CASE SpawnWriter("worker")
  <2>1. worker = ToSpawn /\ worker' = ToCheckOpen
    BY <1>1, <1>6, SpawnMoves DEF Moves
  <2>2. Taping
    BY <2>1 DEF Taping
  <2>3. worker' \notin {Finalizing, ToEnqueue}
    BY <1>5, <2>1
  <2> QED
    BY <1>2, <1>3, <1>4, <1>5, <2>1, <2>2, <2>3, WholeKept
<1>7. CASE ~SpawnWriter("worker")
  <2>1. writing' = writing
    BY <1>7, Zenon DEF CaptureStop, CaptureStopped, Finalize, Finalized, CaptureStart, writer
  <2>2. \/ worker' \in {<<>>, UndoAbort, ToFinalize, UndoStopWait, UndoCaptureWait, Stopping,
             ToGiveUp}
        \/ worker' = ToRun /\ worker = ToCapture
        \/ worker' = ToCheckCapture /\ worker = ToCapture
        \/ worker' = Finalizing /\ writing
        \/ worker' = ToEnqueue /\ worker = Finalizing
    <3>1. CASE CaptureStop("worker") \/ CaptureStopped("worker")
      <4>1. worker' \in {<<>>, UndoAbort, ToFinalize, UndoStopWait, UndoCaptureWait, Stopping}
        BY <1>1, <3>1, StopMoves, StoppedMoves, Zenon DEF Moves
      <4> QED
        BY <4>1
    <3>2. CASE Finalize("worker", GiveUp) \/ Finalized("worker", GiveUp)
      BY <1>1, <3>2, FinalizeMoves, FinalizedMoves, Zenon DEF Moves
    <3>3. CASE CaptureStart("worker", GiveUp)
      BY <1>1, <3>3, StartMoves, Zenon DEF Moves
    <3> QED
      BY <1>7, <3>1, <3>2, <3>3
  <2> QED
    BY <1>2, <1>3, <1>4, <1>5, <2>1, <2>2, WholeAside
<1> QED
  BY <1>6, <1>7

\* An abort takes the WAV only from a session that is not active.
LEMMA WholeAborts ==
  ASSUME Basics, WholeShape, TapShape, WorkShape,
         \/ WorkerCalls /\ (Abort("worker") \/ Aborted("worker"))
         \/ ButtonCalls /\ (Abort("button") \/ Aborted("button"))
  PROVE  WholeShape'
<1>1. Staged /\ path \in Wavs \cup {0} /\ wav \in [Wavs -> Seq(Sessions)]
  BY DEF Basics, Types, WriterTypes
<1>2. UNCHANGED <<session, cancelled, mySession, job, saved>>
  BY CallFrame
<1>3. (Active(mySession)' <=> Active(mySession)) /\ SavedSessions' = SavedSessions
  BY <1>2 DEF Active, SavedSessions
<1>4. UNCHANGED <<ring, captured, capturing, writing>>
  BY Zenon DEF Abort, Aborted, capture
<1>5. worker' = worker \/ worker' \notin Begins \cup {Finalizing, ToEnqueue}
  <2>1. worker' = worker \/ worker' \in {<<>>, UndoOpenWait, UndoAbortWait, UndoStop, GivingUp,
            ToFail}
    BY <1>1, AbortMoves, AbortedMoves, TapAbortMoves, TapAbortedMoves, Zenon DEF Moves, TapMoves
  <2>2. /\ {UndoOpenWait, UndoAbortWait, UndoStop} \subseteq Undoes
        /\ {GivingUp, ToFail, Finalizing, ToEnqueue} \subseteq Ends
    BY Zenon DEF Undoes, Ends
  <2>3. {GivingUp, ToFail} \cap {Finalizing, ToEnqueue} = {}
    BY StagesDiffer
  <2> QED
    BY <2>1, <2>2, <2>3, StagesApart
<1>6. CASE UNCHANGED <<file, path, wav>>
  BY <1>2, <1>3, <1>4, <1>5, <1>6, WholeAside
<1>7. CASE DropSession("worker") \/ DropSession("button")
  <2>1. /\ wav' = IF file # 0 /\ path # 0 THEN [wav EXCEPT ![path] = <<>>] ELSE wav
        /\ file' = 0 /\ path' = 0
    BY <1>7, Zenon DEF DropSession
  <2>2. ToSpawn \in Begins
    BY Zenon DEF Begins
  <2>3. (~writing' /\ worker' # ToSpawn) \/ ~Active(mySession)
    <3>1. CASE tap # <<>>
      BY <3>1 DEF TapShape, Active
    <3>2. CASE worker \in Undoes
      BY <3>2 DEF WorkShape
    <3>3. CASE tap = <<>> /\ worker \notin Undoes
      <4>1. worker \in {ToGiveUp, GivingUp} /\ worker' \in {ToFail, GivingUp}
        <5>1. ~ButtonCalls
          BY <3>3, Zenon DEF ButtonCalls, CaptureStop, CaptureStopped, Abort, Aborted, At, tap
        <5>2. worker \in {UndoOpen, UndoAbort, UndoOpenWait, UndoAbortWait}
                  \/ (worker \in {ToGiveUp, GivingUp}
              /\ worker' \in {ToFail, GivingUp})
          BY <1>1, <5>1, AbortMoves, AbortedMoves, Zenon DEF Moves
        <5>3. {UndoOpen, UndoAbort, UndoOpenWait, UndoAbortWait} \subseteq Undoes
          BY Zenon DEF Undoes
        <5> QED
          BY <3>3, <5>2, <5>3
      <4>2. ToFail \in Ends /\ GivingUp \in Ends
        BY Zenon DEF Ends
      <4> QED
        BY <1>4, <2>2, <4>1, <4>2, StagesApart DEF WorkShape
    <3> QED
      BY <3>1, <3>2, <3>3
  <2>4. RingShape' /\ FreshShape'
    BY <1>2, <1>3, <1>4, <1>5, <2>2 DEF WholeShape, RingShape, FreshShape
  <2>5. TapeShape'
    BY <1>3, <2>1, <2>3 DEF TapeShape
  <2>6. ASSUME NEW j \in saved PROVE wav'[j.wav] = wav[j.wav]
    BY <1>1, <2>1, <2>6 DEF WholeShape, TapeShape, Taping
  <2>7. SavedWavs'
    BY <1>2, <1>3, <1>4, <2>6 DEF WholeShape, SavedWavs
  <2> QED
    BY <2>4, <2>5, <2>7 DEF WholeShape
<1> QED
  BY <1>6, <1>7, Zenon DEF Abort, Aborted

\* A WAV that is opened is empty, and nothing has been heard of the session.
LEMMA WholeOpen ==
  ASSUME Basics, WholeShape, SavedShape, UNCHANGED faults, WorkerCalls, OpenWav("worker", job,
             <<"error">>)
  PROVE  WholeShape'
<1>1. Staged /\ ~Fault /\ job \in Wavs \cup {0} /\ wav \in [Wavs -> Seq(Sessions)]
          /\ saved \subseteq Jobs
  BY NoFailure DEF Basics, Types, WorkTypes, WriterTypes
<1>2. UNCHANGED <<session, cancelled, mySession, job, saved>>
  BY CallFrame
<1>3. (Active(mySession)' <=> Active(mySession)) /\ SavedSessions' = SavedSessions
  BY <1>2 DEF Active, SavedSessions
<1>4. UNCHANGED <<ring, captured, capturing, writing>>
  BY Zenon DEF OpenWav, capture
<1>5. CASE UNCHANGED <<file, path, wav>> /\ Moves(ToOpen, ToFail)
  <2>1. ToFail \notin Begins \cup {Finalizing, ToEnqueue}
    BY StagesDiffer, StagesApart DEF Ends
  <2> QED
    BY <1>2, <1>3, <1>4, <1>5, <2>1, WholeAside DEF Moves
<1>6. CASE ~writing /\ file = 0 /\ path' = job /\ file' = job /\ wav' = [wav EXCEPT ![job] = <<>>]
           /\ Moves(ToOpen, ToSpawn)
  <2>1. /\ worker = ToOpen /\ worker' = ToSpawn /\ ToOpen \in Begins \ {ToCheckCapture}
        /\ ToSpawn \in Begins \ {ToCheckCapture} /\ ToSpawn \notin {Finalizing, ToEnqueue}
    <3>1. ToOpen \in Begins \ {ToCheckCapture} /\ ToSpawn \in Begins \ {ToCheckCapture}
      BY StagesDiffer DEF Begins
    <3>2. {Finalizing, ToEnqueue} \subseteq Ends
      BY Zenon DEF Ends
    <3> QED
      BY <1>6, <3>1, <3>2, StagesApart DEF Moves
  <2>2. job \in Wavs /\ captured[mySession] = 0 /\ mySession \notin ToSet(ring) /\ ~capturing
    BY <1>1, <2>1 DEF WholeShape, FreshShape
  <2>3. \A j \in saved : j.wav # job
    BY <2>2, AudioAssumption DEF SavedShape, Wavs
  <2>4. wav'[job] = <<>> /\ \A n \in Wavs \ {job} : wav'[n] = wav[n]
    BY <1>1, <1>6, <2>2
  <2>5. Count(ring, mySession) = 0 /\ Count(wav'[job], mySession) = 0
    <3>1. ring \in Seq(Sessions)
      BY DEF Basics, Types, RingTypes
    <3> QED
      BY <2>2, <2>4, <3>1, CountNone, CountEmpty
  <2>6. ToSet(<<>>) = {}
    BY DEF ToSet
  <2>7. RingShape' /\ FreshShape'
    BY <1>2, <1>3, <1>4, <1>6, <2>1 DEF WholeShape, RingShape, FreshShape
  <2>8. TapeShape'
    <3>1. file' = job /\ path' = job /\ ring' = ring /\ saved' = saved /\ mySession' = mySession
      BY <1>2, <1>4, <1>6
    <3>2. \A j \in saved' : j.wav # path'
      BY <2>3, <3>1
    <3>3. ToSet(wav'[path']) = {}
      BY <2>4, <2>6, <3>1
    <3>4. Count(ring', mySession') = 0 /\ Count(wav'[path'], mySession') = 0
              /\ captured'[mySession'] = 0
      BY <1>4, <2>2, <2>5, <3>1
    <3>5. Count(ring', mySession') + Count(wav'[path'], mySession') = captured'[mySession']
      BY <3>4
    <3>6. file' # 0 /\ file' = path'
      BY <1>1, <2>2, <3>1, AudioAssumption DEF Wavs
    <3> QED
      BY <3>2, <3>3, <3>5, <3>6, Zenon DEF TapeShape
  <2>9. SavedWavs'
    <3>1. \A j \in saved : j.wav \in Wavs \ {job}
      BY <1>1, <2>3 DEF Jobs
    <3> QED
      BY <1>2, <1>3, <1>4, <2>4, <3>1 DEF WholeShape, SavedWavs
  <2> QED
    BY <2>7, <2>8, <2>9 DEF WholeShape
<1> QED
  BY <1>1, <1>5, <1>6, OpenMoves, Zenon

\* The ring that the microphone starts with is empty.
LEMMA WholeRun ==
  ASSUME Basics, WholeShape, SavedShape, WorkerCalls, CaptureRun("worker")
  PROVE  WholeShape'
<1>1. worker = ToRun /\ worker' = ToCheckCapture
  BY RunMoves DEF Basics, Moves
<1>2. UNCHANGED <<session, cancelled, mySession, job, saved>>
  BY CallFrame
<1>3. (Active(mySession)' <=> Active(mySession)) /\ SavedSessions' = SavedSessions
  BY <1>2 DEF Active, SavedSessions
<1>4. ring' = <<>> /\ UNCHANGED <<captured, file, path, writing, wav>>
  BY Zenon DEF CaptureRun, writer
<1>5. /\ ToRun \in Begins \ {ToCheckCapture} /\ ToCheckCapture \in Begins
      /\ ToCheckCapture \notin {ToSpawn, Finalizing, ToEnqueue}
  <2>1. ToRun \in Begins \ {ToCheckCapture} /\ ToCheckCapture \in Begins /\ ToCheckCapture # ToSpawn
    BY StagesDiffer DEF Begins
  <2>2. {Finalizing, ToEnqueue} \subseteq Ends
    BY Zenon DEF Ends
  <2> QED
    BY <2>1, <2>2, StagesApart
<1>6. job # 0 /\ captured[mySession] = 0 /\ mySession \notin SavedSessions
  BY <1>1, <1>5 DEF WholeShape, FreshShape, SavedShape, SavedSessions
<1>7. ToSet(<<>>) = {} /\ Count(<<>>, mySession) = 0
  BY CountEmpty DEF ToSet
<1>8. RingShape'
  BY <1>1, <1>2, <1>3, <1>4, <1>5, <1>7 DEF WholeShape, RingShape
<1>9. FreshShape'
  BY <1>1, <1>2, <1>3, <1>5, <1>6 DEF WholeShape, FreshShape
<1>10. TapeShape'
  <2>1. ASSUME path # 0, Taping
        PROVE  Count(ring, mySession) \in Nat /\ Count(wav[path], mySession) \in Nat
    <3>1. ring \in Seq(Sessions) /\ wav[path] \in Seq(Sessions)
      BY <2>1 DEF Basics, Types, RingTypes, WriterTypes
    <3> QED
      BY <3>1, CountType
  <2>2. Taping' => Taping
    BY <1>1, <1>4, <1>5 DEF Taping
  <2> QED
    BY <1>1, <1>2, <1>3, <1>4, <1>5, <1>6, <1>7, <2>1, <2>2 DEF WholeShape, TapeShape
<1>11. SavedWavs'
  BY <1>2, <1>3, <1>4 DEF WholeShape, SavedWavs
<1> QED
  BY <1>8, <1>9, <1>10, <1>11 DEF WholeShape

\* A chunk is of the session that is served, which is not saved.
LEMMA WholeChunk ==
  ASSUME Basics, WholeShape, WorkShape, AudioTask
  PROVE  WholeShape'
<1>1. UNCHANGED <<session, cancelled, mySession, job, saved>>
  BY CallFrame
<1>2. (Active(mySession)' <=> Active(mySession)) /\ SavedSessions' = SavedSessions
  BY <1>1 DEF Active, SavedSessions
<1>3. UNCHANGED <<worker, file, path, writing, wav>> /\ capturing /\ (capturing' => capturing)
  BY Zenon DEF AudioTask, AudioReads, AudioEnds, writer, capture, worker
<1>4. CASE UNCHANGED <<ring, captured>>
  BY <1>1, <1>2, <1>3, <1>4, WholeAside
<1>5. CASE Chunk(mySession)
  <2>1. ring' = Append(ring, mySession) /\ captured' = [captured EXCEPT ![mySession] = @ + 1]
    BY <1>5, Zenon DEF Chunk
  <2>2. mySession \in Sessions /\ ring \in Seq(Sessions)
            /\ captured \in [Sessions -> 0 .. MaxChunks]
    BY DEF Basics, Types, WorkTypes, RingTypes
  <2>3. /\ ToSet(ring') = ToSet(ring) \cup {mySession}
        /\ Count(ring', mySession) = Count(ring, mySession) + 1
    BY <2>1, <2>2, Posted, CountPosted
  <2>4. captured'[mySession] = captured[mySession] + 1
            /\ \A s \in Sessions \ {mySession} : captured'[s] = captured[s]
    BY <2>1, <2>2
  <2>5. worker \notin {Finalizing, ToEnqueue}
    <3>1. {Finalizing, ToEnqueue} \subseteq Ends \ {ToStop, Stopping}
      BY StagesDiffer DEF Ends
    <3> QED
      BY <1>3, <3>1 DEF WorkShape
  <2>6. mySession \notin SavedSessions /\ mySession \in Nat
    BY <1>3, <2>2, AudioAssumption DEF WholeShape, FreshShape, Sessions
  <2>7. RingShape'
    BY <1>1, <1>2, <1>3, <2>3, <2>4, <2>5, <2>6 DEF WholeShape, RingShape
  <2>8. FreshShape'
    BY <1>1, <1>2, <1>3 DEF WholeShape, FreshShape
  <2>9. TapeShape'
    <3>1. ASSUME Taping, path # 0
          PROVE  /\ Count(ring, mySession) \in Nat /\ Count(wav[path], mySession) \in Nat
                 /\ captured[mySession] \in Nat
      <4>1. wav[path] \in Seq(Sessions)
        BY <3>1 DEF Basics, Types, WriterTypes
      <4>2. captured[mySession] \in Nat
        BY <2>2, AudioAssumption
      <4> QED
        BY <2>2, <4>1, <4>2, CountType
    <3>2. Taping' <=> Taping
      BY <1>3 DEF Taping
    <3> QED
      BY <1>1, <1>2, <1>3, <2>3, <2>4, <3>1, <3>2 DEF WholeShape, TapeShape
  <2>10. SavedWavs'
    <3>1. \A j \in saved : j.session \in Sessions \ {mySession}
      BY <2>6 DEF Basics, Types, WorkTypes, Jobs, SavedSessions
    <3> QED
      BY <1>1, <1>2, <1>3, <2>4, <3>1 DEF WholeShape, SavedWavs
  <2> QED
    BY <2>7, <2>8, <2>9, <2>10 DEF WholeShape
<1> QED
  BY <1>4, <1>5, Zenon DEF AudioTask, AudioReads, AudioEnds

\* The writer moves a chunk from the ring to the WAV that is being made.
LEMMA WholeWriter ==
  ASSUME Basics, WholeShape, WorkShape, UNCHANGED faults, WriterTask
  PROVE  WholeShape'
<1>1. UNCHANGED <<session, cancelled, mySession, job, saved>>
  BY CallFrame
<1>2. (Active(mySession)' <=> Active(mySession)) /\ SavedSessions' = SavedSessions
  BY <1>1 DEF Active, SavedSessions
<1>3. UNCHANGED <<worker, path, captured, capturing>> /\ writing
  BY Zenon DEF WriterTask, WriterWrites, WriterFinishes, WriterFails, WriterEnds, capture, worker
<1>4. /\ ring \in Seq(Sessions) /\ wav \in [Wavs -> Seq(Sessions)] /\ path \in Wavs \cup {0}
      /\ file \in Wavs \cup {0} /\ captured \in [Sessions -> 0 .. MaxChunks]
           /\ mySession \in Sessions
  BY DEF Basics, Types, RingTypes, WriterTypes, WorkTypes
<1>5. worker # ToSpawn /\ Taping
  BY <1>3 DEF WholeShape, FreshShape, Taping
<1>6. ring # <<>> => /\ ToSet(ring) = {Head(ring)} \cup ToSet(Tail(ring)) /\ Head(ring) \in Sessions
                     /\ Tail(ring) \in Seq(Sessions)
                     /\ Count(ring, mySession)
                          = Count(Tail(ring), mySession) + (IF Head(ring) = mySession THEN 1 ELSE 0)
  BY <1>4, Taken, CountTaken
<1>7. CASE WriterFinishes
  <2>1. ring = <<>> /\ UNCHANGED <<ring, wav>> /\ file' = 0 /\ writing' = FALSE
    BY <1>7, Zenon DEF WriterFinishes, WriterEnds
  <2>2. worker' \in {Finalizing, ToEnqueue} /\ ~writing' => ring = <<>>
    BY <2>1
  <2> QED
    BY <1>1, <1>2, <1>3, <1>5, <2>1, <2>2, WholeKept
<1>8. CASE WriterFails
  <2>1. ring # <<>> /\ ring' = Tail(ring) /\ UNCHANGED wav /\ file' = 0 /\ writing' = FALSE
            /\ (file = 0 \/ Fault)
    BY <1>8, Zenon DEF WriterFails, WriterEnds
  <2>2. file = 0 /\ ~Active(mySession)
    BY <1>3, <2>1, NoFailure DEF WholeShape, TapeShape
  <2>3. worker \notin {Finalizing, ToEnqueue}
    BY <2>2 DEF WorkShape
  <2>4. ToSet(ring') \subseteq ToSet(ring)
    BY <1>6, <2>1
  <2>5. RingShape' /\ FreshShape'
    BY <1>1, <1>2, <1>3, <1>5, <2>3, <2>4 DEF WholeShape, RingShape, FreshShape
  <2>6. TapeShape' /\ SavedWavs'
    BY <1>1, <1>2, <1>3, <1>5, <2>1, <2>2 DEF WholeShape, TapeShape, SavedWavs
  <2> QED
    BY <2>5, <2>6 DEF WholeShape
<1>9. CASE WriterWrites
  <2>1. /\ ring # <<>> /\ file # 0 /\ wav' = [wav EXCEPT ![file] = Append(@, Head(ring))]
        /\ ring' = Tail(ring) /\ UNCHANGED <<file, writing>>
    BY <1>9, Zenon DEF WriterWrites
  <2>2. file = path /\ path \in Wavs
    BY <1>4, <2>1 DEF WholeShape, TapeShape
  <2>3. wav'[path] = Append(wav[path], Head(ring)) /\ \A n \in Wavs \ {path} : wav'[n] = wav[n]
    BY <1>4, <2>1, <2>2
  <2>4. ToSet(ring') \subseteq ToSet(ring) /\ Head(ring) \in ToSet(ring)
    BY <1>6, <2>1
  <2>5. /\ ToSet(wav'[path]) = ToSet(wav[path]) \cup {Head(ring)}
        /\ Count(wav'[path], mySession) = Count(wav[path],
             mySession) + (IF Head(ring) = mySession THEN 1 ELSE 0)
    <3>1. wav[path] \in Seq(Sessions)
      BY <1>4, <2>2
    <3> QED
      BY <1>6, <2>1, <2>3, <3>1, Posted, CountPosted
  <2>6. Count(ring', mySession) + Count(wav'[path], mySession) = Count(ring,
            mySession) + Count(wav[path], mySession)
    <3>1. Count(wav[path], mySession) \in Nat /\ Count(Tail(ring), mySession) \in Nat
      BY <1>4, <1>6, <2>1, <2>2, CountType
    <3> QED
      BY <1>6, <2>1, <2>5, <3>1
  <2>7. RingShape' /\ FreshShape'
    BY <1>1, <1>2, <1>3, <1>5, <2>1, <2>4 DEF WholeShape, RingShape, FreshShape
  <2>8. TapeShape'
    BY <1>1, <1>2, <1>3, <1>5, <2>1, <2>2, <2>4, <2>5, <2>6 DEF WholeShape, RingShape, TapeShape
  <2>9. SavedWavs'
    <3>1. \A j \in saved : j.wav \in Wavs \ {path}
      BY <1>5, <2>1, <2>2 DEF WholeShape, TapeShape, Basics, Types, WorkTypes, Jobs
    <3> QED
      BY <1>1, <1>2, <1>3, <2>3, <3>1 DEF WholeShape, SavedWavs
  <2> QED
    BY <2>7, <2>8, <2>9 DEF WholeShape
<1> QED
  BY <1>7, <1>8, <1>9, Zenon DEF WriterTask

\* A preparation begins with nothing, or serves a session that is taken back.
LEMMA WholePrepare ==
  ASSUME Basics, WholeShape, SavedShape, Prepare, UNCHANGED faults, ~again'
  PROVE  WholeShape'
<1>1. Staged /\ ~Fault
  BY NoFailure DEF Basics
<1>2. /\ session \in Sessions /\ cancelled \in Sessions /\ mySession \in Sessions
           /\ mySession <= session
      /\ Sessions \subseteq Nat /\ prepared \in Nat /\ saved \subseteq Jobs
  BY AudioAssumption DEF Basics, Types, ButtonTypes, WorkTypes, Numbers, Sessions, Wavs
<1>3. /\ UNCHANGED <<session, cancelled, saved, ring, captured, capturing, file, path, writing,
           wav>>
      /\ mySession' = session
  BY Zenon DEF Prepare, button, capture, writer
<1>4. SavedSessions' = SavedSessions /\ (Active(mySession)' <=> Active(session))
  BY <1>3 DEF SavedSessions, Active
<1>5. \A s \in Sessions : s <= mySession => s <= session
  BY <1>2
<1>6. \A s \in ToSet(ring) : s \in Sessions
  BY DEF Basics, Types, RingTypes, ToSet
<1>7. Active(session) => ~Recording /\ mySession < session
  <2>1. Active(session) => ~Recording /\ session # mySession
    BY Zenon DEF Prepare
  <2> QED
    BY <1>2, <2>1
<1>8. SavedWavs'
  BY <1>3, <1>4 DEF WholeShape, SavedWavs
<1>9. /\ \A s \in ToSet(ring)' : s <= mySession' /\ s \notin SavedSessions'
      /\ \A s \in Sessions : s > mySession' => captured'[s] = 0
  <2>1. \A s \in ToSet(ring) : s <= mySession /\ s \notin SavedSessions
    BY DEF WholeShape, RingShape
  <2>2. \A s \in ToSet(ring) : s <= session
    BY <1>5, <1>6, <2>1
  <2>3. \A s \in Sessions : s > session => s > mySession
    BY <1>2
  <2>4. \A s \in Sessions : s > mySession => captured[s] = 0
    BY DEF WholeShape, RingShape
  <2>5. \A s \in Sessions : s > session => captured[s] = 0
    BY <2>3, <2>4
  <2>6. ToSet(ring)' = ToSet(ring)
    BY <1>3
  <2> QED
    BY <1>3, <1>4, <2>1, <2>2, <2>5, <2>6
<1>10. CASE ~Active(session) /\ job' = 0 /\ Moves(ToPrepare, <<>>)
  <2>1. worker' = <<>> /\ <<>> \notin Begins \cup {ToSpawn, Finalizing, ToEnqueue}
    <3>1. {Finalizing, ToEnqueue} \subseteq Ends /\ ToSpawn \in Begins
      BY Zenon DEF Begins, Ends
    <3> QED
      BY <1>10, <3>1, StagesApart DEF Moves
  <2>2. session \notin SavedSessions
    BY <1>10 DEF WholeShape, FreshShape, SavedShape, SavedSessions, Active
  <2>3. RingShape'
    BY <1>9, <2>1, Zenon DEF RingShape
  <2>4. FreshShape'
    BY <1>3, <1>4, <2>1, <2>2 DEF WholeShape, FreshShape
  <2>5. TapeShape'
    <3>1. ASSUME Taping, path # 0
          PROVE  \A s \in ToSet(wav[path]) : s \in Sessions
      <4>1. wav[path] \in Seq(Sessions)
        BY <3>1 DEF Basics, Types, WriterTypes
      <4> QED
        BY <4>1 DEF ToSet
    <3>2. Taping' => Taping
      BY <1>3, <2>1 DEF Taping
    <3>3. ~Active(mySession)'
      BY <1>4, <1>10
    <3> QED
      BY <1>3, <1>4, <1>5, <3>1, <3>2, <3>3 DEF WholeShape, TapeShape
  <2> QED
    BY <1>8, <2>3, <2>4, <2>5 DEF WholeShape
<1>11. CASE Active(session) /\ prepared' = prepared + 1 /\ job' = prepared' /\ Moves(ToPrepare,
                ToCheck)
  <2>1. worker' = ToCheck /\ ToCheck \notin {ToSpawn, Finalizing, ToEnqueue}
    <3>1. {Finalizing, ToEnqueue} \subseteq Ends /\ ToCheck \in Begins /\ ToCheck # ToSpawn
      BY StagesDiffer DEF Begins, Ends
    <3> QED
      BY <1>11, <3>1, StagesApart DEF Moves
  <2>2. ~capturing /\ file = 0 /\ ~writing /\ job' # 0
    BY <1>2, <1>7, <1>11 DEF Recording
  <2>3. captured[session] = 0 /\ session \notin ToSet(ring)
    <3>1. \A s \in ToSet(ring) : s <= mySession
      BY DEF WholeShape, RingShape
    <3>2. session \notin ToSet(ring)
      BY <1>2, <1>7, <1>11, <3>1
    <3> QED
      BY <1>2, <1>7, <1>11, <3>2 DEF WholeShape, RingShape
  <2>4. RingShape'
    BY <1>9, <2>1, Zenon DEF RingShape
  <2>5. FreshShape'
    BY <1>3, <1>4, <2>1, <2>2, <2>3 DEF WholeShape, FreshShape
  <2>6. TapeShape'
    BY <1>3, <2>1, <2>2 DEF TapeShape, Taping
  <2> QED
    BY <1>8, <2>4, <2>5, <2>6 DEF WholeShape
<1> QED
  BY <1>1, <1>10, <1>11, PrepareMoves, Zenon

\* What is saved is whole, and of one session.
LEMMA WholeEnqueue ==
  ASSUME Basics, WholeShape, SavedShape, WorkShape, Enqueue, UNCHANGED faults
  PROVE  WholeShape'
<1>1. worker = ToEnqueue /\ worker' = <<>>
  BY EnqueueMoves DEF Basics, Moves
<1>2. UNCHANGED <<session, cancelled, mySession, ring, captured, capturing, file, path, writing,
          wav>>
  BY Zenon DEF Enqueue, button, capture, writer
<1>3. path = job /\ job # 0 /\ Active(mySession) /\ ~writing /\ file = 0 /\ ~capturing /\ Taping
  <2>1. ToEnqueue \in Ends \ {ToStop, Stopping}
    BY StagesDiffer DEF Ends
  <2> QED
    BY <1>1, <2>1 DEF WorkShape, Taping
<1>4. ring = <<>> /\ ToSet(ring) = {} /\ Count(ring, mySession) = 0
  <2>1. ring = <<>>
    BY <1>1, <1>3 DEF WholeShape, RingShape
  <2> QED
    BY <2>1, CountEmpty DEF ToSet
<1> DEFINE new == [job |-> job, wav |-> path, session |-> mySession]
<1>5. saved' = saved \cup {new}
  <2>1. ~Fault
    BY NoFailure
  <2> QED
    BY <1>3, <2>1, Zenon DEF Enqueue
<1>6. new.wav = path /\ new.session = mySession
  OBVIOUS
<1> HIDE DEF new
<1>7. SavedSessions' = SavedSessions \cup {mySession}
  BY <1>5, <1>6 DEF SavedSessions
<1>8. /\ mySession \in Nat /\ mySession # 0 /\ captured[mySession] \in Nat /\ path \in Wavs
      /\ Count(wav[path], mySession) \in Nat
  <2>1. /\ mySession \in Sessions /\ captured \in [Sessions -> 0 .. MaxChunks] /\ path \in Wavs
        /\ wav[path] \in Seq(Sessions)
    BY <1>3 DEF Basics, Types, WorkTypes, RingTypes, WriterTypes
  <2>2. Count(wav[path], mySession) \in Nat
    BY <2>1, CountType
  <2> QED
    BY <1>3, <2>1, <2>2, AudioAssumption DEF Sessions, Active
<1>9. ~Taping' /\ <<>> \notin Begins \cup {ToSpawn, Finalizing, ToEnqueue}
  <2>1. {Finalizing, ToEnqueue} \subseteq Ends /\ ToSpawn \in Begins
    BY Zenon DEF Begins, Ends
  <2> QED
    BY <1>1, <1>2, <1>3, <2>1, StagesApart DEF Taping
<1>10. RingShape'
  BY <1>1, <1>2, <1>4, <1>9 DEF WholeShape, RingShape
<1>11. FreshShape'
  BY <1>1, <1>2, <1>3, <1>7, <1>8, <1>9 DEF WholeShape, FreshShape
<1>12. TapeShape'
  BY <1>1, <1>2, <1>3, <1>9 DEF TapeShape
<1>13. SavedWavs'
  <2>1. /\ \A s \in ToSet(wav[path]) : s <= mySession /\ s \notin SavedSessions
        /\ Count(wav[path], mySession) = captured[mySession]
    BY <1>3, <1>4, <1>8 DEF WholeShape, TapeShape
  <2>2. /\ \A s \in ToSet(wav[new.wav]) : s <= new.session /\ (s \in SavedSessions'
             => s = new.session)
        /\ Count(wav[new.wav], new.session) = captured[new.session]
    BY <1>6, <1>7, <2>1
  <2>3. ASSUME NEW j \in saved
        PROVE  /\ \A s \in ToSet(wav[j.wav]) : s <= j.session /\ (s \in SavedSessions'
                    => s = j.session)
               /\ Count(wav[j.wav], j.session) = captured[j.session]
    <3>1. j.session <= mySession /\ j.session # mySession /\ j.session \in Nat
      <4>1. j.session \in Sessions
        BY DEF Basics, Types, WorkTypes, Jobs
      <4>2. j.session \in Nat
        BY <4>1, AudioAssumption DEF Sessions
      <4>3. j.session <= mySession
        BY DEF SavedShape
      <4>4. j.session # mySession
        BY <1>3, Zenon DEF SavedShape
      <4> QED
        BY <4>2, <4>3, <4>4
    <3>2. /\ \A s \in ToSet(wav[j.wav]) : s <= j.session /\ (s \in SavedSessions => s = j.session)
          /\ Count(wav[j.wav], j.session) = captured[j.session]
      BY DEF WholeShape, SavedWavs
    <3>3. mySession \notin ToSet(wav[j.wav])
      BY <1>8, <3>1, <3>2
    <3> QED
      BY <1>7, <3>2, <3>3
  <2> QED
    BY <1>2, <1>5, <2>2, <2>3 DEF SavedWavs
<1> QED
  BY <1>10, <1>11, <1>12, <1>13 DEF WholeShape

\* No step loses or mixes what has been heard, while no call fails.
LEMMA WholeStep ==
  ASSUME Basics, Regular, WholeShape, Next, UNCHANGED faults, ~again'
  PROVE  WholeShape'
<1>1. TapShape /\ WorkShape /\ SavedShape /\ Plain
  BY Zenon DEF Regular
<1>2. CASE \/ EventLoop \/ ConfirmTimer \/ SyncFinishes
           \/ Press \/ Release \/ Tap \/ TimePasses \/ RecordMax \/ Discard
           \/ WorkerTakes \/ Failed
           \/ Check("check", <<>>) \/ Check("checkOpen", <<"abort", "stop">>)
           \/ Check("checkCapture", <<"stop", "abort">>)
  BY <1>2, WholeAsides
<1>3. CASE ButtonCalls
  <2>1. \/ CaptureStop("button") \/ CaptureStopped("button")
        \/ Abort("button") \/ Aborted("button")
    BY <1>3, Zenon DEF ButtonCalls
  <2> QED
    BY <1>1, <1>3, <2>1, WholeAsides, WholeAborts
<1>4. CASE WorkerCalls
  BY <1>1, <1>4, WholeCalls, WholeAborts, WholeOpen, WholeRun, Zenon DEF WorkerCalls
<1>5. CASE Prepare \/ Enqueue
  BY <1>1, <1>5, WholePrepare, WholeEnqueue
<1>6. CASE AudioTask \/ WriterTask
  BY <1>1, <1>6, WholeChunk, WholeWriter
<1> QED
  BY <1>2, <1>3, <1>4, <1>5, <1>6, Zenon DEF Next, Worker, ButtonTask

\* At boot nothing is heard and nothing is saved.
LEMMA WholeInit ==
  ASSUME Init
  PROVE  WholeShape
<1>1. /\ mySession = 0 /\ job = 0 /\ saved = {} /\ ring = <<>> /\ captured = [s \in Sessions |-> 0]
      /\ file = 0 /\ path = 0 /\ ~writing /\ ~capturing
  BY DEF Init, AudioInit
<1>2. worker = <<>>
  BY DEF Init, AudioInit, worker, Tasks
<1>3. <<>> \notin Begins \cup {ToSpawn, Finalizing, ToEnqueue}
  <2>1. {Finalizing, ToEnqueue} \subseteq Ends /\ ToSpawn \in Begins
    BY Zenon DEF Begins, Ends
  <2> QED
    BY <2>1, StagesApart
<1>4. ToSet(<<>>) = {}
  BY DEF ToSet
<1> QED
  BY <1>1, <1>2, <1>3, <1>4 DEF WholeShape, RingShape, FreshShape, TapeShape, SavedWavs,
    SavedSessions, Taping

WholeInv == RecInv /\ (Regularly => WholeShape)

\* What the ring, the WAV that is being made and those that are saved contain.
THEOREM RecordingsAreKept == Spec => []WholeInv
<1>1. Init => WholeInv
  BY RecInit, WholeInit DEF WholeInv
<1>2. ASSUME WholeInv, [Next]_vars PROVE WholeInv'
  <2>1. RecInv'
    BY <1>2, RecStep DEF WholeInv
  <2>2. ASSUME Regularly' PROVE WholeShape'
    <3>1. Regularly /\ UNCHANGED faults /\ ~again'
      BY <1>2, <2>2, StaysRegular DEF WholeInv, RecInv, Regularly
    <3>2. CASE Next
      BY <1>2, <3>1, <3>2, WholeStep DEF WholeInv, RecInv
    <3>3. CASE UNCHANGED vars
      <4>1. UNCHANGED <<ring, captured, wav, path, mySession, job, saved, file, writing,
                        capturing, worker, session, cancelled>>
        BY <3>3, Zenon DEF vars, audioVars, capture, writer, button, work, worker
      <4>2. Active(mySession)' => Active(mySession)
        BY <4>1 DEF Active
      <4> QED
        BY <1>2, <3>1, <4>1, <4>2, WholeAside DEF WholeInv
    <3> QED
      BY <1>2, <3>2, <3>3
  <2> QED
    BY <2>1, <2>2 DEF WholeInv
<1> QED
  BY <1>1, <1>2, PTL DEF Spec

\* What is said in one saved recording is heard in no other, and everything that
\* tk_audio has put into the ring for it is in its WAV (rec_worker.c:120-122,
\* wav_writer.c:83).
THEOREM RecordingsAreWhole == Spec => []SavedIsWhole
<1>1. ASSUME WholeInv, faults = 0, ~again, NEW j \in saved
      PROVE  /\ \A k \in saved : k.session \in VoiceOf(j) => k.session = j.session
             /\ Count(wav[j.wav], j.session) = captured[j.session]
  <2>1. SavedWavs
    BY <1>1 DEF WholeInv, WholeShape, Regularly
  <2>2. VoiceOf(j) = ToSet(wav[j.wav])
    BY DEF VoiceOf, ToSet
  <2> QED
    BY <2>1, <2>2 DEF SavedWavs, SavedSessions
<1>2. WholeInv => SavedIsWhole
  BY <1>1 DEF SavedIsWhole
<1> QED
  BY RecordingsAreKept, <1>2, PTL

-----------------------------------------------------------------------------
(* Outside RECORDING nothing records.  What follows holds of failures and  *)
(* of commands that are served twice as well; only NewRests needs the      *)
(* order of Regular.                                                       *)

\* A FINALIZING is on its way to the worker.
Ahead == "FINALIZING" \in On \cup Queued

\* No RECORDING outlives its state: a FINALIZING comes after it.
Covered ==
  /\ worker \in Begins \cup {ToPrepare} => Ahead
  /\ "RECORDING" \in Queued => "FINALIZING" \in On \/ Followed(workQueue, "RECORDING", "FINALIZING")
  /\ Followed(events, "RECORDING", "FINALIZING")

\* As long as no press has been taken back.
NoTap ==
  cancelled = 0 =>
    /\ tap = <<>> /\ "REC_DISCARD" \notin On
    /\ state = "RECORDING" \/ Covered

\* What records need not stop yet, or a FINALIZING will stop it.
Kept == Ahead \/ IF cancelled = 0 THEN state = "RECORDING" ELSE Active(session)

\* Where it is certain that the microphone, or the WAV, is closed or looked at.
MicCloses == {ToCheckCapture, UndoCapture, UndoCaptureWait, ToStop, Stopping}
FileCloses ==
  {ToSpawn, ToCheckOpen, ToCapture, ToRun, ToCheckCapture, UndoOpen, UndoOpenWait, UndoCapture,
   UndoCaptureWait, UndoAbort, UndoAbortWait, ToStop, Stopping, ToFinalize, Finalizing}

MicLeft == capturing => Kept \/ worker \in MicCloses \/ tap \in {TapStop, TapStopWait}
FileLeft ==
  faults = 0 /\ (writing \/ file # 0) => Kept \/ worker \in FileCloses \/ tap \in Taps \ {TapDone}

\* The codec is off unless tk_audio is told to run, or is about to be or to stop.
CodecWaits == {ToRun, UndoStopWait, UndoCaptureWait, Stopping}
CodecOff == codec /\ ~captureRun => worker \in CodecWaits \/ tap = TapStopWait

\* Somebody has still to end FINALIZING.
Finishes ==
  state = "FINALIZING" => Ahead \/ worker \in Ends \/ On \cap {"FINALIZE_DONE", "ERROR"} # {}

\* In a regular run a press begins when the worker is done.
NewRests ==
  \/ state = "IDLE" /\ Active(session) /\ "REC_PRESS" \notin On
  \/ state = "FINALIZING" /\ "ERROR" \in On
  => Settled

GoldShape ==
  /\ Plain /\ CodecOff
  /\ ~dropped => NoTap /\ MicLeft /\ FileLeft /\ Finishes
  /\ Regularly => NewRests

\* Where a stage is not.
LEMMA ClosingStages ==
  /\ MicCloses \subseteq FileCloses /\ CodecWaits \subseteq FileCloses \cup {UndoStopWait}
  /\ {UndoCaptureWait, Stopping} \subseteq MicCloses
  /\ {<<>>, ToPrepare, ToCheck, ToOpen, UndoStop, UndoStopWait, ToEnqueue, ToGiveUp, GivingUp,
      ToFail} \cap FileCloses = {}
  /\ {ToSpawn, ToCheckOpen, ToCapture, ToRun, UndoOpen, UndoOpenWait, UndoAbort, UndoAbortWait,
      ToFinalize, Finalizing} \cap MicCloses = {}
  /\ {ToSpawn, ToCheckOpen, ToCapture, ToCheckCapture, UndoOpen, UndoOpenWait, UndoAbort,
      UndoAbortWait, UndoCapture, UndoStop, ToStop, ToFinalize, Finalizing, <<>>, ToPrepare,
          ToCheck,
      ToOpen, ToEnqueue, ToGiveUp, GivingUp, ToFail} \cap CodecWaits = {}
<1> USE StagesDiffer, StagesApart DEF MicCloses, FileCloses, CodecWaits, Begins, Undoes, Ends
<1>1. /\ MicCloses \subseteq FileCloses /\ CodecWaits \subseteq FileCloses \cup {UndoStopWait}
      /\ {UndoCaptureWait, Stopping} \subseteq MicCloses
  OBVIOUS
<1>2. {<<>>, ToPrepare, ToCheck, ToOpen, UndoStop, UndoStopWait, ToEnqueue, ToGiveUp, GivingUp,
       ToFail} \cap FileCloses = {}
  <2>1. {<<>>, ToPrepare} \cap FileCloses = {}
    OBVIOUS
  <2>2. {ToCheck, ToOpen} \cap FileCloses = {}
    OBVIOUS
  <2>3. {UndoStop, UndoStopWait} \cap FileCloses = {}
    OBVIOUS
  <2>4. {ToEnqueue, ToGiveUp, GivingUp, ToFail} \cap FileCloses = {}
    OBVIOUS
  <2> QED
    BY <2>1, <2>2, <2>3, <2>4
<1>3. {ToSpawn, ToCheckOpen, ToCapture, ToRun, UndoOpen, UndoOpenWait, UndoAbort, UndoAbortWait,
       ToFinalize, Finalizing} \cap MicCloses = {}
  <2>1. {ToSpawn, ToCheckOpen, ToCapture, ToRun} \cap MicCloses = {}
    OBVIOUS
  <2>2. {UndoOpen, UndoOpenWait, UndoAbort, UndoAbortWait} \cap MicCloses = {}
    OBVIOUS
  <2>3. {ToFinalize, Finalizing} \cap MicCloses = {}
    OBVIOUS
  <2> QED
    BY <2>1, <2>2, <2>3
<1>4. {ToSpawn, ToCheckOpen, ToCapture, ToCheckCapture, UndoOpen, UndoOpenWait, UndoAbort,
       UndoAbortWait, UndoCapture, UndoStop, ToStop, ToFinalize, Finalizing, <<>>, ToPrepare,
           ToCheck,
       ToOpen, ToEnqueue, ToGiveUp, GivingUp, ToFail} \cap CodecWaits = {}
  <2>1. {<<>>, ToPrepare, ToCheck, ToOpen, ToSpawn, ToCheckOpen, ToCapture, ToCheckCapture}
          \cap CodecWaits = {}
    OBVIOUS
  <2>2. {UndoOpen, UndoOpenWait, UndoAbort, UndoAbortWait, UndoCapture,
            UndoStop} \cap CodecWaits = {}
    OBVIOUS
  <2>3. {ToStop, ToFinalize, Finalizing, ToEnqueue, ToGiveUp, GivingUp, ToFail} \cap CodecWaits = {}
    OBVIOUS
  <2> QED
    BY <2>1, <2>2, <2>3
<1> QED
  BY <1>1, <1>2, <1>3, <1>4, Zenon

\* A move of the worker that does not touch the recording.
LEMMA MoveGold ==
  ASSUME NEW from, NEW to, Moves(from, to),
         UNCHANGED <<codec, captureRun, capturing, stopDone, writing, writerDone>>,
         file' = file \/ file' = 0, Kept => Kept', faults' = 0 => faults = 0
  PROVE  /\ Plain /\ from # ToSpawn => Plain'
         /\ CodecOff /\ from \notin CodecWaits => CodecOff'
         /\ MicLeft /\ (from \in MicCloses => to \in MicCloses) => MicLeft'
         /\ FileLeft /\ (from \in FileCloses => to \in FileCloses) => FileLeft'
<1>1. worker = from /\ worker' = to /\ tap' = tap
  BY DEF Moves
<1> QED
  BY <1>1 DEF Plain, CodecOff, MicLeft, FileLeft

\* The worker begins a recording.
LEMMA BeginGold ==
  ASSUME Basics, Plain, CodecOff, Kept => Kept', faults' = 0 => faults = 0 /\ faults' = faults,
         \/ CaptureStart("worker", GiveUp) \/ CaptureRun("worker")
         \/ OpenWav("worker", job, <<"error">>) \/ SpawnWriter("worker")
  PROVE  Plain' /\ CodecOff' /\ (MicLeft => MicLeft') /\ (FileLeft => FileLeft')
<1>1. Staged /\ (faults' = 0 => ~Fault)
  <2>1. Fault => faults' # faults
    BY NoFailure DEF Basics, Fault
  <2> QED
    BY <2>1 DEF Basics
<1>2. /\ ToCapture \notin MicCloses /\ ToOpen \notin FileCloses /\ ToOpen \notin MicCloses
      /\ ToCheckCapture \in MicCloses /\ {ToRun, ToCheckCapture, ToSpawn,
           ToCheckOpen} \subseteq FileCloses
      /\ ToRun \in CodecWaits /\ {ToCapture, ToOpen, ToSpawn} \cap CodecWaits = {}
      /\ ToSpawn \notin {ToCapture, ToRun, ToOpen} /\ ToSpawn \notin MicCloses
  BY ClosingStages, StagesDiffer DEF FileCloses, MicCloses, CodecWaits
<1>3. CASE CaptureStart("worker", GiveUp)
  <2>1. UNCHANGED <<captureRun, capturing, stopDone, file, path, writing, writerDone>>
    BY <1>3, Zenon DEF CaptureStart, writer
  <2>2. CASE captureRun /\ UNCHANGED codec /\ Moves(ToCapture, ToCheckCapture)
    BY <1>2, <2>1, <2>2, MoveGold
  <2>3. CASE ~captureRun /\ Moves(ToCapture, ToRun)
    <3>1. worker = ToCapture /\ worker' = ToRun /\ tap' = tap
      BY <2>3 DEF Moves
    <3> QED
      BY <1>2, <2>1, <3>1 DEF Plain, CodecOff, MicLeft, FileLeft
  <2>4. CASE Fault /\ UNCHANGED codec /\ Moves(ToCapture, ToGiveUp)
    <3>1. worker = ToCapture /\ tap' = tap
      BY <2>4 DEF Moves
    <3> QED
      BY <1>1, <1>2, <2>1, <2>4, <3>1 DEF Plain, CodecOff, MicLeft, FileLeft
  <2> QED
    BY <1>1, <1>3, <2>2, <2>3, <2>4, StartMoves, Zenon
<1>4. CASE CaptureRun("worker")
  <2>1. worker = ToRun /\ worker' = ToCheckCapture /\ tap' = tap
    BY <1>1, <1>4, RunMoves DEF Moves
  <2>2. /\ UNCHANGED <<file, path, writing, writerDone>>
        /\ captureRun' = TRUE /\ capturing' = TRUE /\ stopDone' = FALSE
    BY <1>4, Zenon DEF CaptureRun, writer
  <2> QED
    BY <1>2, <2>1, <2>2 DEF Plain, CodecOff, MicLeft, FileLeft
<1>5. CASE OpenWav("worker", job, <<"error">>)
  <2>1. UNCHANGED <<codec, captureRun, capturing, stopDone, writing, writerDone>>
    BY <1>5, Zenon DEF OpenWav, capture
  <2>2. CASE UNCHANGED file /\ Moves(ToOpen, ToFail)
    BY <1>2, <2>1, <2>2, MoveGold
  <2>3. CASE Moves(ToOpen, ToSpawn)
    <3>1. worker = ToOpen /\ worker' = ToSpawn /\ tap' = tap
      BY <2>3 DEF Moves
    <3> QED
      BY <1>2, <2>1, <3>1 DEF Plain, CodecOff, MicLeft, FileLeft
  <2> QED
    BY <1>1, <1>5, <2>2, <2>3, OpenMoves, Zenon
<1>6. CASE SpawnWriter("worker")
  <2>1. worker = ToSpawn /\ worker' = ToCheckOpen /\ tap' = tap
    BY <1>1, <1>6, SpawnMoves DEF Moves
  <2>2. /\ UNCHANGED <<codec, captureRun, capturing, stopDone, file, path>>
        /\ writing' = TRUE /\ writerDone' = FALSE
    BY <1>6, Zenon DEF SpawnWriter, capture
  <2> QED
    BY <1>2, <2>1, <2>2 DEF Plain, CodecOff, MicLeft, FileLeft
<1> QED
  BY <1>3, <1>4, <1>5, <1>6

\* The worker stops the microphone.
LEMMA StopGold ==
  ASSUME Basics, Plain, CodecOff, Kept => Kept', faults' = 0 => faults = 0 /\ faults' = faults,
         CaptureStop("worker") \/ CaptureStopped("worker")
  PROVE  Plain' /\ CodecOff' /\ (MicLeft => MicLeft') /\ (FileLeft => FileLeft')
<1>1. Staged
  BY DEF Basics
<1>2. /\ UNCHANGED <<capturing, file, path, writing, writerDone>> /\ (stopDone' => stopDone)
      /\ (captureRun' => captureRun) /\ tap' = tap
      /\ Stops
  <2>1. \A from, to : Moves(from, to) => tap' = tap
    BY DEF Moves
  <2> QED
    BY <1>1, <2>1, StopSteps, Zenon DEF Stops
<1>3. /\ worker # ToSpawn /\ (worker \in MicCloses \/ worker \in {UndoStop, UndoStopWait})
      /\ worker \in FileCloses => worker' \in FileCloses
      /\ ~capturing \/ worker' \in MicCloses \/ worker = UndoStop
  <2>1. worker # ToSpawn
    BY <1>2, StagesDiffer, StagesApart DEF Stops, Moves, Begins, Undoes, Ends
  <2>2. {UndoCapture, UndoCaptureWait, ToStop, Stopping} \subseteq MicCloses
    BY DEF MicCloses
  <2>3. worker \in MicCloses \/ worker \in {UndoStop, UndoStopWait}
    BY <1>2, <2>2 DEF Stops, Moves
  <2>4. ~capturing \/ worker' \in MicCloses \/ worker = UndoStop
    BY <1>2, <2>2 DEF Stops, Moves
  <2>5. {UndoAbort, ToFinalize, UndoCaptureWait, Stopping} \subseteq FileCloses
    BY DEF FileCloses
  <2>6. worker \in FileCloses => worker' \in FileCloses
    BY <1>2, <2>5, ClosingStages DEF Stops, Moves
  <2> QED
    BY <2>1, <2>3, <2>4, <2>6
<1>4. Plain'
  <2>1. file' # 0 => writing'
    BY <1>2, <1>3 DEF Plain
  <2>2. stopDone' => ~capturing'
    BY <1>2 DEF Plain
  <2>3. captureRun' => capturing'
    BY <1>2 DEF Plain
  <2>4. writerDone' => ~writing'
    BY <1>2 DEF Plain
  <2> QED
    BY <2>1, <2>2, <2>3, <2>4 DEF Plain
<1>5. CodecOff'
  <2>1. CASE CaptureStop("worker")
    <3>1. CASE ~captureRun /\ codec' = FALSE
      BY <3>1 DEF CodecOff
    <3>2. CASE worker' \in {UndoStopWait, UndoCaptureWait, Stopping}
      BY <3>2 DEF CodecOff, CodecWaits
    <3> QED
      BY <1>1, <2>1, <3>1, <3>2, StopMoves, Zenon DEF Moves
  <2>2. CASE CaptureStopped("worker")
    <3>1. codec' = FALSE
      BY <2>2, Zenon DEF CaptureStopped
    <3> QED
      BY <3>1 DEF CodecOff
  <2> QED
    BY <2>1, <2>2
<1>6. MicLeft => MicLeft'
  BY <1>2, <1>3, ClosingStages DEF MicLeft
<1>7. FileLeft => FileLeft'
  BY <1>2, <1>3 DEF FileLeft
<1> QED
  BY <1>4, <1>5, <1>6, <1>7

\* The worker closes the WAV.
LEMMA CloseGold ==
  ASSUME Basics, Plain, CodecOff, Kept => Kept', faults' = 0 => faults = 0 /\ faults' = faults,
         \/ Finalize("worker", GiveUp) \/ Finalized("worker", GiveUp)
         \/ Abort("worker") \/ Aborted("worker")
  PROVE  Plain' /\ CodecOff' /\ (MicLeft => MicLeft') /\ (FileLeft => FileLeft')
<1>1. Staged
  BY DEF Basics
<1>2. UNCHANGED <<codec, captureRun, capturing, stopDone, writing>> /\ (writerDone' => writerDone)
  <2>1. UNCHANGED <<codec, captureRun, capturing, stopDone, writing>>
    BY Zenon DEF Finalize, Finalized, Abort, Aborted, capture
  <2>2. WriterGone \/ WriterTimeout => (writerDone' => writerDone)
    BY Zenon DEF WriterGone, WriterTimeout
  <2>3. writerDone' => writerDone
    BY <2>2, Zenon DEF Finalize, Finalized, Abort, Aborted
  <2> QED
    BY <2>1, <2>3
<1>3. file' = file \/ file' = 0
  BY Zenon DEF Finalize, Finalized, Abort, Aborted, DropSession
<1>4. /\ worker \in {ToFinalize, Finalizing, UndoOpen, UndoAbort, ToGiveUp, UndoOpenWait,
                     UndoAbortWait, GivingUp}
      /\ tap' = tap
  <2>1. \/ Moves(ToFinalize, ToGiveUp) \/ Moves(ToFinalize, Finalizing)
        \/ Moves(Finalizing, ToEnqueue) \/ Moves(Finalizing, ToGiveUp)
        \/ Moves(UndoOpen, UndoOpenWait) \/ Moves(UndoAbort, UndoAbortWait)
        \/ Moves(ToGiveUp, GivingUp)
        \/ Moves(UndoOpen, UndoStop) \/ Moves(UndoAbort, <<>>) \/ Moves(ToGiveUp, ToFail)
        \/ Moves(UndoOpenWait, UndoStop) \/ Moves(UndoAbortWait, <<>>) \/ Moves(GivingUp, ToFail)
    BY <1>1, FinalizeMoves, FinalizedMoves, AbortMoves, AbortedMoves, Zenon
  <2> QED
    BY <2>1 DEF Moves
<1>5. worker # ToSpawn /\ worker \notin CodecWaits /\ worker \notin MicCloses
  <2>1. worker # ToSpawn
    BY <1>4, StagesDiffer, StagesApart DEF Begins, Undoes, Ends
  <2>2. {ToGiveUp, GivingUp} \cap MicCloses = {}
    BY ClosingStages
  <2>3. worker \notin MicCloses
    BY <1>4, <2>2, ClosingStages
  <2>4. worker \notin CodecWaits
    <3>1. {UndoOpenWait, UndoAbortWait, Finalizing, GivingUp} \cap CodecWaits = {}
      BY ClosingStages
    <3> QED
      BY <1>4, <3>1, ClosingStages
  <2> QED
    BY <2>1, <2>3, <2>4
<1>6. Plain' /\ CodecOff' /\ (MicLeft => MicLeft')
  <2>1. file' # 0 => writing'
    BY <1>2, <1>3, <1>5 DEF Plain
  <2>2. Plain'
    BY <1>2, <2>1 DEF Plain
  <2>3. CodecOff' /\ (MicLeft => MicLeft')
    BY <1>2, <1>4, <1>5 DEF CodecOff, MicLeft
  <2> QED
    BY <2>2, <2>3
<1>7. FileLeft => FileLeft'
  <2>1. SUFFICES ASSUME FileLeft, faults' = 0, writing' \/ file' # 0 PROVE FileLeft'
    BY DEF FileLeft
  <2>2. /\ faults = 0 /\ UNCHANGED faults /\ Closes
    BY <2>1, CloseSteps
  <2>3. writing' /\ writing
    BY <1>2, <1>3, <1>5, <2>1 DEF Plain
  <2>4. \/ worker = ToGiveUp
        \/ worker' \in {Finalizing, UndoOpenWait, UndoAbortWait}
    BY <2>2, <2>3 DEF Closes, Moves
  <2>5. worker \in FileCloses => worker' \in FileCloses
    BY <2>4, ClosingStages DEF FileCloses
  <2> QED
    BY <1>4, <2>1, <2>2, <2>3, <2>5 DEF Closes, FileLeft
<1> QED
  BY <1>6, <1>7

\* A tap stops the microphone and closes the WAV.
LEMMA TapGold ==
  ASSUME Basics, Plain, CodecOff, Kept => Kept', faults' = 0 => faults = 0 /\ faults' = faults,
         ButtonCalls
  PROVE  Plain' /\ CodecOff' /\ (MicLeft => MicLeft') /\ (FileLeft => FileLeft')
<1>1. Staged
  BY DEF Basics
<1>2. /\ {TapStop, TapStopWait, TapAbort, TapAbortWait} = Taps \ {TapDone}
      /\ TapDone \notin {TapStop, TapStopWait, TapAbort, TapAbortWait}
      /\ {TapAbort, TapAbortWait} \cap {TapStop, TapStopWait} = {} /\ TapStop # TapStopWait
  BY StagesDiffer DEF Taps
<1>3. CASE CaptureStop("button") \/ CaptureStopped("button")
  <2>1. UNCHANGED <<capturing, file, writing, writerDone>> /\ (stopDone' => stopDone)
    <3>1. UNCHANGED <<capturing, file, writing, writerDone>>
      BY <1>3, Zenon DEF CaptureStop, CaptureStopped, writer
    <3>2. stopDone' = stopDone \/ stopDone' = FALSE
      BY <1>3, Zenon DEF CaptureStop, CaptureStopped
    <3> QED
      BY <3>1, <3>2
  <2>2. CASE CaptureStop("button")
    <3>1. \/ /\ ~capturing /\ codec' = FALSE /\ UNCHANGED captureRun /\ TapMoves(TapStop, TapAbort)
          \/ captureRun' = FALSE /\ TapMoves(TapStop, TapStopWait)
      BY <1>1, <2>2, TapStopMoves, Zenon
    <3>2. /\ tap = TapStop /\ worker' = worker /\ (captureRun' => captureRun)
          /\ (~capturing /\ codec' = FALSE /\ tap' = TapAbort) \/ tap' = TapStopWait
      BY <3>1 DEF TapMoves
    <3> QED
      BY <1>2, <2>1, <3>2 DEF Plain, CodecOff, MicLeft, FileLeft
  <2>3. CASE CaptureStopped("button")
    <3>1. tap = TapStopWait /\ tap' = TapAbort /\ worker' = worker
      BY <1>1, <2>3, TapStoppedMoves DEF TapMoves
    <3>2. captureRun' = captureRun /\ codec' = FALSE /\ ~capturing
      BY <2>3, Zenon DEF CaptureStopped, Plain
    <3> QED
      BY <1>2, <2>1, <3>1, <3>2 DEF Plain, CodecOff, MicLeft, FileLeft
  <2> QED
    BY <1>3, <2>2, <2>3
<1>4. CASE Abort("button") \/ Aborted("button")
  <2>1. UNCHANGED <<codec, captureRun, capturing, stopDone, writing>> /\ (writerDone' => writerDone)
        /\ (file' = file \/ file' = 0)
    <3>1. WriterGone \/ WriterTimeout => (writerDone' => writerDone)
      BY Zenon DEF WriterGone, WriterTimeout
    <3>2. UNCHANGED <<codec, captureRun, capturing, stopDone, writing>>
      BY <1>4, Zenon DEF Abort, Aborted, capture
    <3>3. writerDone' => writerDone
      BY <1>4, <3>1, Zenon DEF Abort, Aborted
    <3>4. file' = file \/ file' = 0
      BY <1>4, Zenon DEF Abort, Aborted, DropSession
    <3> QED
      BY <3>2, <3>3, <3>4
  <2>2. /\ tap \in {TapAbort, TapAbortWait} /\ tap' \in {TapAbortWait, TapDone} /\ worker' = worker
    BY <1>1, <1>4, TapAbortMoves, TapAbortedMoves DEF TapMoves
  <2>3. Plain'
    BY <2>1, <2>2 DEF Plain
  <2>4. CodecOff' /\ (MicLeft => MicLeft')
    BY <1>2, <2>1, <2>2 DEF CodecOff, MicLeft
  <2>5. ASSUME FileLeft, faults' = 0, writing' \/ file' # 0 PROVE FileLeft'
    <3>1. tap' = TapAbortWait
      <4>1. tap' = TapAbortWait \/ (file' = 0 /\ ~writing)
        <5>1. UNCHANGED faults
          BY <2>5
        <5>2. \/ TapMoves(TapStop, TapAbort) \/ TapMoves(TapStopWait, TapAbort)
              \/ TapMoves(TapStop, TapStopWait) \/ TapMoves(TapAbort, TapAbortWait)
              \/ (file' = 0 /\ ~writing)
          BY <5>1, TapSteps, Zenon
        <5> QED
          BY <1>2, <2>2, <5>2 DEF TapMoves
      <4> QED
        BY <2>1, <2>5, <4>1
    <3> QED
      BY <1>2, <3>1 DEF FileLeft
  <2> QED
    BY <2>3, <2>4, <2>5 DEF FileLeft
<1> QED
  BY <1>3, <1>4, Zenon DEF ButtonCalls

\* tk_audio and tk_writer.
LEMMA TasksGold ==
  ASSUME Plain, CodecOff, Kept => Kept', faults' = 0 => faults = 0,
         AudioTask \/ WriterTask
  PROVE  Plain' /\ CodecOff' /\ (MicLeft => MicLeft') /\ (FileLeft => FileLeft')
<1>1. /\ UNCHANGED <<captureRun, worker, tap>>
      /\ \/ UNCHANGED <<capturing, stopDone, file, writing, writerDone>>
         \/ ~captureRun /\ ~capturing' /\ UNCHANGED <<file, writing, writerDone>>
         \/ file' = 0 /\ ~writing' /\ UNCHANGED <<capturing, stopDone>>
  BY TaskSteps
<1>2. codec' = codec
  BY Zenon DEF AudioTask, AudioReads, AudioEnds, WriterTask, WriterWrites, WriterFinishes,
    WriterFails, WriterEnds, capture
<1>3. CASE UNCHANGED <<capturing, stopDone, file, writing, writerDone>>
  BY <1>1, <1>2, <1>3 DEF Plain, CodecOff, MicLeft, FileLeft
<1>4. CASE ~captureRun /\ ~capturing' /\ UNCHANGED <<file, writing, writerDone>>
  BY <1>1, <1>2, <1>4 DEF Plain, CodecOff, MicLeft, FileLeft
<1>5. CASE file' = 0 /\ ~writing' /\ UNCHANGED <<capturing, stopDone>>
  BY <1>1, <1>2, <1>5 DEF Plain, CodecOff, MicLeft, FileLeft
<1> QED
  BY <1>1, <1>3, <1>4, <1>5

\* Only a command begins a recording, and only its last call or a failure leaves the end
\* of one.
LEMMA WorkerStays ==
  ASSUME Staged, Worker, ~WorkerTakes
  PROVE  /\ worker' \in Begins \cup {ToPrepare} => worker \in Begins \cup {ToPrepare}
         /\ worker \in Ends => worker' \in Ends \/ Enqueue \/ Failed
<1> DEFINE B == Begins \cup {ToPrepare}
           Fine(from, to) == (to \in B => from \in B) /\ (from \in Ends => to \in Ends)
<1>1. /\ {ToCheck, ToOpen, ToSpawn, ToCheckOpen, ToCapture, ToRun, ToCheckCapture,
           ToPrepare} \subseteq B
      /\ {UndoOpen, UndoOpenWait, UndoStop, UndoStopWait, UndoCapture, UndoCaptureWait, UndoAbort,
          UndoAbortWait} \subseteq Undoes
      /\ {ToStop, Stopping, ToFinalize, Finalizing, ToEnqueue, ToGiveUp, GivingUp,
           ToFail} \subseteq Ends
  BY Zenon DEF Begins, Undoes, Ends
<1>2. /\ \A x \in Undoes : x \notin B /\ x \notin Ends
      /\ \A x \in Ends : x \notin B /\ x \notin Undoes
      /\ <<>> \notin B /\ <<>> \notin Ends
  BY StagesApart
<1> HIDE DEF B
<1>3. \E from, to : Moves(from, to) /\ (Fine(from, to) \/ Enqueue \/ Failed) /\ (to \in B
          => from \in B)
  <2>1. CASE Prepare
    <3>1. Moves(ToPrepare, ToFail) \/ Moves(ToPrepare, <<>>) \/ Moves(ToPrepare, ToCheck)
      BY <2>1, PrepareMoves, Zenon
    <3> QED
      BY <1>1, <1>2, <3>1
  <2>2. CASE Enqueue \/ Failed
    <3>1. Moves(ToEnqueue, <<>>) \/ Moves(ToFail, <<>>)
      BY <2>2, EnqueueMoves, FailedMoves, Zenon
    <3> QED
      BY <1>2, <2>2, <3>1
  <2>3. CASE Check("check", <<>>)
    <3>1. Moves(ToCheck, ToOpen) \/ Moves(ToCheck, <<>>)
      BY <2>3, CheckMoves, Zenon
    <3> QED
      BY <1>1, <1>2, <3>1
  <2>4. CASE Check("checkOpen", <<"abort", "stop">>)
    <3>1. Moves(ToCheckOpen, ToCapture) \/ Moves(ToCheckOpen, UndoOpen)
      BY <2>4, CheckOpenMoves, Zenon
    <3> QED
      BY <1>1, <1>2, <3>1
  <2>5. CASE Check("checkCapture", <<"stop", "abort">>)
    <3>1. Moves(ToCheckCapture, <<>>) \/ Moves(ToCheckCapture, UndoCapture)
      BY <2>5, CheckCaptureMoves, Zenon
    <3> QED
      BY <1>1, <1>2, <3>1
  <2>6. CASE CaptureStart("worker", GiveUp) \/ CaptureRun("worker")
    <3>1. \/ Moves(ToCapture, ToCheckCapture) \/ Moves(ToCapture, ToRun) \/ Moves(ToCapture,
               ToGiveUp)
          \/ Moves(ToRun, ToCheckCapture)
      BY <2>6, StartMoves, RunMoves, Zenon
    <3> QED
      BY <1>1, <1>2, <3>1
  <2>7. CASE OpenWav("worker", job, <<"error">>) \/ SpawnWriter("worker")
    <3>1. Moves(ToOpen, ToFail) \/ Moves(ToOpen, ToSpawn) \/ Moves(ToSpawn, ToCheckOpen)
      BY <2>7, OpenMoves, SpawnMoves, Zenon
    <3> QED
      BY <1>1, <1>2, <3>1
  <2>8. CASE Finalize("worker", GiveUp) \/ Finalized("worker", GiveUp)
    <3>1. \/ Moves(ToFinalize, ToGiveUp) \/ Moves(ToFinalize, Finalizing)
          \/ Moves(Finalizing, ToEnqueue) \/ Moves(Finalizing, ToGiveUp)
      BY <2>8, FinalizeMoves, FinalizedMoves, Zenon
    <3> QED
      BY <1>1, <1>2, <3>1
  <2>9. CASE Abort("worker") \/ Aborted("worker")
    <3>1. \/ Moves(UndoOpen, UndoOpenWait) \/ Moves(UndoAbort, UndoAbortWait) \/ Moves(ToGiveUp,
               GivingUp)
          \/ Moves(UndoOpen, UndoStop) \/ Moves(UndoAbort, <<>>) \/ Moves(ToGiveUp, ToFail)
          \/ Moves(UndoOpenWait, UndoStop) \/ Moves(UndoAbortWait, <<>>) \/ Moves(GivingUp, ToFail)
      BY <2>9, AbortMoves, AbortedMoves, Zenon
    <3> QED
      BY <1>1, <1>2, <3>1
  <2>10. CASE CaptureStop("worker") \/ CaptureStopped("worker")
    <3>1. \/ Moves(UndoStop, <<>>) \/ Moves(UndoCapture, UndoAbort) \/ Moves(ToStop, ToFinalize)
          \/ Moves(UndoStop, UndoStopWait) \/ Moves(UndoCapture, UndoCaptureWait)
          \/ Moves(ToStop, Stopping)
          \/ Moves(UndoStopWait, <<>>) \/ Moves(UndoCaptureWait, UndoAbort) \/ Moves(Stopping,
               ToFinalize)
      BY <2>10, StopMoves, StoppedMoves, Zenon
    <3> QED
      BY <1>1, <1>2, <3>1
  <2> QED
    BY <2>1, <2>2, <2>3, <2>4, <2>5, <2>6, <2>7, <2>8, <2>9, <2>10, Zenon DEF Worker, WorkerCalls
<1>4. worker' \in B => worker \in B
  BY <1>3 DEF Moves
<1>5. worker \in Ends => worker' \in Ends \/ Enqueue \/ Failed
  BY <1>3 DEF Moves
<1> QED
  BY <1>4, <1>5 DEF B

\* What the steps of the others leave to the worker.
LEMMA WorkerFrame ==
  ASSUME Staged, Next, ~Worker
  PROVE  worker' = worker
<1>1. CASE EventLoop \/ ConfirmTimer \/ SyncFinishes
  BY <1>1, LoopFrame
<1>2. CASE Press \/ Release \/ TimePasses \/ RecordMax
  BY <1>2, Zenon DEF Press, Release, TimePasses, RecordMax, audioVars, worker
<1>3. CASE Tap \/ Discard
  BY <1>3, TapMovesIn, DiscardMoves DEF TapMoves
<1>4. CASE ButtonCalls
  BY <1>4, TapStopMoves, TapStoppedMoves, TapAbortMoves, TapAbortedMoves, Zenon DEF ButtonCalls,
    TapMoves
<1>5. CASE AudioTask \/ WriterTask
  BY <1>5, TaskSteps
<1> QED
  BY <1>1, <1>2, <1>3, <1>4, <1>5, Zenon DEF Next, ButtonTask

\* A FINALIZING on its way stays on its way, or is taken.
LEMMA AheadStays ==
  ASSUME LoopTypes, QueueTypes, Next, ~dropped', Ahead
  PROVE  Ahead' \/ (WorkerTakes /\ Head(workQueue) = "FINALIZING")
<1>1. CASE EventLoop
  <2>1. CASE \E s \in States : Transition(s)
    <3>1. PICK s \in States : Transition(s)
      BY <2>1
    <3>2. /\ On = {Head(events)} \cup Rest /\ On' = Rest \cup {s}
          /\ <<state, Head(events), s>> \in Transitions
      BY <3>1, LoopQueue DEF Rest
    <3>3. Head(events) # "FINALIZING"
      BY <3>2, TableSays DEF States
    <3>4. Queued' = Queued
      BY <3>1, Zenon DEF Transition, Queued
    <3> QED
      BY <3>2, <3>3, <3>4 DEF Ahead
  <2>2. CASE \E s \in States : Bridge(s)
    <3>1. PICK s \in States : Bridge(s)
      BY <2>2
    <3>2. On = {s} \cup Rest /\ Rest \subseteq On' /\ Command(s)
      <4>1. /\ On = {Head(events)} \cup Rest /\ Head(events) = s /\ Command(s)
            /\ On' = Rest \/ On' = Rest \cup {"SYNC_REQUEST"}
        BY <3>1, LoopQueue DEF Rest
      <4> QED
        BY <4>1
    <3>3. Queued \subseteq Queued' /\ (s = "FINALIZING" => "FINALIZING" \in Queued')
      BY <3>2, BridgeCommand DEF Commands
    <3> QED
      BY <3>2, <3>3 DEF Ahead
  <2>3. CASE Ignore
    <3>1. On = {Head(events)} \cup Rest /\ On' = Rest /\ Head(events) \notin States
      BY <2>3, IgnoreQueue DEF Rest
    <3>2. Queued' = Queued
      BY <2>3, Zenon DEF Ignore, Queued
    <3> QED
      BY <3>1, <3>2 DEF Ahead, States
  <2> QED
    BY <1>1, <2>1, <2>2, <2>3 DEF EventLoop
<1>2. CASE WorkerTakes
  <2>1. workQueue # <<>> /\ workQueue' = Tail(workQueue) /\ events' = events
    BY <1>2, Zenon DEF WorkerTakes, loop
  <2>2. Queued = {Head(workQueue)} \cup Queued' /\ On' = On
    BY <2>1, Taken DEF QueueTypes, Queued, On
  <2> QED
    BY <1>2, <2>2 DEF Ahead
<1>3. CASE ~EventLoop /\ ~WorkerTakes
  <2>1. Queued' = Queued
    BY <1>3, CommandFrame DEF Queued
  <2>2. On \subseteq On'
    BY <1>3, OnlyEvents, EventPosted DEF LoopTypes, On
  <2> QED
    BY <2>1, <2>2 DEF Ahead
<1> QED
  BY <1>1, <1>2, <1>3

\* No RECORDING outlives its state.
LEMMA LoopCovered ==
  ASSUME LoopTypes, QueueTypes, EventLoop, ~dropped', "REC_DISCARD" \notin On,
         state = "RECORDING" \/ Covered
  PROVE  /\ "REC_DISCARD" \notin On'
         /\ state' = "RECORDING" \/ Covered'
<1>1. /\ worker' = worker
      /\ events \in Seq(Events \cup States) /\ workQueue \in Seq(Commands)
      /\ {"RECORDING", "FINALIZING", "SYNC_REQUEST"} \subseteq Events \cup States
      /\ {"REC_DISCARD", "SYNC_REQUEST"} \cap States = {}
      /\ {"RECORDING", "FINALIZING"} \subseteq Commands
  BY LoopFrame DEF LoopTypes, QueueTypes, Events, States, Commands
<1>2. CASE \E s \in States : Transition(s)
  <2>1. PICK s \in States : Transition(s)
    BY <1>2
  <2>2. /\ events # <<>> /\ Tail(events) \in Seq(Events \cup States)
             /\ On = {Head(events)} \cup Rest
        /\ <<state, Head(events), s>> \in Transitions
        /\ state' = s /\ events' = Append(Tail(events), s) /\ On' = Rest \cup {s}
    BY <2>1, LoopQueue DEF Rest
  <2>3. workQueue' = workQueue /\ Queued' = Queued
    BY <2>1, Zenon DEF Transition, Queued
  <2>4. "REC_DISCARD" \notin On'
    BY <1>1, <2>2
  <2>5. CASE state = "RECORDING"
    <3>1. Head(events) # "REC_DISCARD"
      BY <2>2
    <3>2. s = "FINALIZING"
      BY <2>2, <2>5, <3>1 DEF Transitions
    <3>3. Followed(events', "RECORDING", "FINALIZING")
      BY <1>1, <2>2, <3>2, FollowedPosted
    <3> QED
      BY <2>2, <2>4, <3>2, <3>3 DEF Covered, Ahead
  <2>6. CASE state # "RECORDING" /\ s # "RECORDING"
    <3>1. Covered
      BY <2>6
    <3>2. Followed(Tail(events), "RECORDING", "FINALIZING")
      BY <1>1, <2>2, <3>1, FollowedTaken DEF Covered
    <3>3. Followed(events', "RECORDING", "FINALIZING")
      BY <1>1, <2>2, <2>6, <3>2, FollowedPosted
    <3>4. "FINALIZING" \in On => "FINALIZING" \in On'
      BY <2>2, TableSays DEF States
    <3>5. Ahead => Ahead'
      BY <2>3, <3>4 DEF Ahead
    <3> QED
      BY <1>1, <2>3, <2>4, <3>1, <3>3, <3>4, <3>5 DEF Covered
  <2> QED
    BY <2>2, <2>4, <2>5, <2>6
<1>3. CASE \E s \in States : Bridge(s)
  <2>1. PICK s \in States : Bridge(s)
    BY <1>3
  <2>2. /\ events # <<>> /\ Tail(events) \in Seq(Events \cup States) /\ On = {s} \cup Rest
        /\ Head(events) = s /\ state' = state /\ Command(s)
        /\ \/ events' = Tail(events) /\ On' = Rest
           \/ events' = Append(Tail(events), "SYNC_REQUEST") /\ On' = Rest \cup {"SYNC_REQUEST"}
    <3>1. /\ events # <<>> /\ On = {Head(events)} \cup Rest
          /\ Tail(events) \in Seq(Events \cup States)
          /\ Head(events) = s /\ state' = state /\ Command(s)
          /\ \/ events' = Tail(events) /\ On' = Rest
             \/ events' = Append(Tail(events), "SYNC_REQUEST") /\ On' = Rest \cup {"SYNC_REQUEST"}
      BY <2>1, LoopQueue DEF Rest
    <3> QED
      BY <3>1
  <2>3. "REC_DISCARD" \notin On'
    BY <2>2
  <2>4. SUFFICES ASSUME Covered PROVE Covered'
    BY <2>2, <2>3
  <2>5. /\ s \in Commands => workQueue' = Append(workQueue, s) /\ Queued' = Queued \cup {s}
        /\ s \notin Commands => workQueue' = workQueue /\ Queued' = Queued
    BY <2>2, BridgeCommand
  <2>6. Ahead => Ahead'
    BY <1>1, <2>2, <2>5 DEF Ahead
  <2>7. /\ Followed(Tail(events), "RECORDING", "FINALIZING")
        /\ s = "RECORDING" => "FINALIZING" \in Rest
    BY <1>1, <2>2, <2>4, FollowedTaken DEF Covered, Rest
  <2>8. Followed(Append(Tail(events), "SYNC_REQUEST"), "RECORDING", "FINALIZING")
    BY <1>1, <2>2, <2>7, FollowedPosted
  <2>9. ASSUME "RECORDING" \in Queued', "FINALIZING" \notin On'
        PROVE  Followed(workQueue', "RECORDING", "FINALIZING")
    <3>1. s # "RECORDING"
      BY <2>2, <2>7, <2>9
    <3>2. CASE s = "FINALIZING"
      <4>1. workQueue' = Append(workQueue, "FINALIZING")
        BY <1>1, <2>5, <3>2
      <4>2. Followed(Append(workQueue, "FINALIZING"), "RECORDING", "FINALIZING")
        BY <1>1, FollowedPosted
      <4> QED
        BY <4>1, <4>2
    <3>3. CASE s # "FINALIZING"
      <4>1. "RECORDING" \in Queued /\ "FINALIZING" \notin On
        BY <2>2, <2>5, <2>9, <3>1, <3>3
      <4>2. Followed(workQueue, "RECORDING", "FINALIZING")
        BY <2>4, <4>1 DEF Covered
      <4>3. s \in Commands => Followed(Append(workQueue, s), "RECORDING", "FINALIZING")
        BY <1>1, <3>1, <4>2, FollowedPosted
      <4> QED
        BY <2>5, <4>2, <4>3
    <3> QED
      BY <3>2, <3>3
  <2>10. Followed(events', "RECORDING", "FINALIZING")
    BY <2>2, <2>7, <2>8
  <2> QED
    BY <1>1, <2>4, <2>6, <2>9, <2>10 DEF Covered
<1>4. CASE Ignore
  <2>1. /\ events # <<>> /\ On = {Head(events)} \cup Rest /\ events' = Tail(events) /\ On' = Rest
        /\ state' = state /\ Head(events) \notin States
    BY <1>4, IgnoreQueue DEF Rest
  <2>2. workQueue' = workQueue /\ Queued' = Queued
    BY <1>4, Zenon DEF Ignore, Queued
  <2>3. "FINALIZING" \in On => "FINALIZING" \in On'
    BY <2>1 DEF States
  <2>4. Followed(events, "RECORDING", "FINALIZING") => Followed(events', "RECORDING", "FINALIZING")
    BY <1>1, <2>1, FollowedTaken
  <2>5. Ahead => Ahead'
    BY <2>2, <2>3 DEF Ahead
  <2>6. "REC_DISCARD" \notin On'
    BY <2>1
  <2>7. Covered => Covered'
    BY <1>1, <2>2, <2>3, <2>4, <2>5 DEF Covered
  <2> QED
    BY <2>1, <2>6, <2>7
<1> QED
  BY <1>2, <1>3, <1>4 DEF EventLoop

\* Only a press and a tap change what session is on and which is taken back.
LEMMA SessionFrame ==
  ASSUME Next, ~Press, ~Tap
  PROVE  UNCHANGED <<session, cancelled>>
  BY Zenon DEF Next, EventLoop, Transition, Bridge, Ignore, ConfirmTimer, SyncFinishes, Release,
    TimePasses, ButtonTask, ButtonCalls, Discard, RecordMax, Worker, WorkerTakes, Prepare, Enqueue,
    Failed, Check, WorkerCalls, AudioTask, WriterTask, button

\* Until a press is taken back no RECORDING outlives its state.
LEMMA NoTapStep ==
  ASSUME Basics, TapOwn, NoTap, Next, ~dropped'
  PROVE  NoTap'
<1>1. Staged /\ LoopTypes /\ QueueTypes /\ events \in Seq(Events \cup States)
  BY DEF Basics, Types, LoopTypes
<1>2. SUFFICES ASSUME cancelled' = 0
               PROVE  tap' = <<>> /\ "REC_DISCARD" \notin On' /\ (state' = "RECORDING" \/ Covered')
  BY DEF NoTap
<1>3. cancelled = 0 /\ ~Tap
  <2>1. ~Tap
    <3>1. Tap => age = "short" /\ cancelled' = session
      BY Zenon DEF Tap
    <3> QED
      BY <1>2, <3>1 DEF TapOwn
  <2>2. Press => cancelled' = cancelled
    BY Zenon DEF Press
  <2> QED
    BY <1>2, <2>1, <2>2, SessionFrame
<1>4. tap = <<>> /\ "REC_DISCARD" \notin On /\ (state = "RECORDING" \/ Covered)
  BY <1>3 DEF NoTap
<1>5. ~ButtonCalls /\ ~Discard
  <2>1. ButtonCalls \/ Discard => tap # <<>>
    BY Zenon DEF ButtonCalls, CaptureStop, CaptureStopped, Abort, Aborted, Discard, At, tap
  <2> QED
    BY <1>4, <2>1
<1>6. tap' = tap
  <2>1. CASE EventLoop \/ ConfirmTimer \/ SyncFinishes
    BY <2>1, LoopFrame
  <2>2. CASE Worker \/ AudioTask \/ WriterTask
    BY <1>1, <2>2, ButtonFrame
  <2>3. CASE Press \/ Release \/ TimePasses \/ RecordMax
    BY <2>3, Zenon DEF Press, Release, TimePasses, RecordMax, audioVars, tap
  <2> QED
    BY <1>3, <1>5, <2>1, <2>2, <2>3, Zenon DEF Next, ButtonTask
<1>7. CASE EventLoop
  BY <1>1, <1>4, <1>6, <1>7, LoopCovered
<1>8. CASE WorkerTakes
  <2>1. UNCHANGED <<state, events>> /\ workQueue # <<>> /\ workQueue' = Tail(workQueue)
    BY <1>8, Zenon DEF WorkerTakes, loop
  <2>2. workQueue \in Seq(Commands)
    BY <1>1 DEF QueueTypes
  <2>3. Queued = {Head(workQueue)} \cup Queued' /\ On' = On
    BY <2>1, <2>2, Taken DEF Queued, On
  <2>4. Followed(workQueue, "RECORDING", "FINALIZING") =>
           /\ Followed(workQueue', "RECORDING", "FINALIZING")
           /\ Head(workQueue) = "RECORDING" => "FINALIZING" \in Queued'
    BY <2>1, <2>2, FollowedTaken DEF Queued
  <2>5. \/ Head(workQueue) = "RECORDING"
        \/ worker' \notin Begins \cup {ToPrepare}
    <3>1. Head(workQueue) = "RECORDING" \/ worker' = ToStop \/ worker' = <<>>
      BY <1>1, <1>8, <2>2, TakesMoves DEF Moves
    <3>2. ToStop \notin Begins \cup {ToPrepare} /\ <<>> \notin Begins \cup {ToPrepare}
      BY StagesApart DEF Ends
    <3> QED
      BY <3>1, <3>2
  <2>6. Covered => Covered'
    <3>1. SUFFICES ASSUME Covered PROVE Covered'
      OBVIOUS
    <3>2. "RECORDING" \in Queued =>
             "FINALIZING" \in On \/ Followed(workQueue, "RECORDING", "FINALIZING")
      BY <3>1 DEF Covered
    <3>3. Head(workQueue) = "RECORDING" => Ahead'
      BY <2>3, <2>4, <3>2 DEF Ahead
    <3>4. worker' \in Begins \cup {ToPrepare} => Ahead'
      BY <2>5, <3>3
    <3>5. "RECORDING" \in Queued' =>
             "FINALIZING" \in On' \/ Followed(workQueue', "RECORDING", "FINALIZING")
      BY <2>3, <2>4, <3>2
    <3>6. Followed(events', "RECORDING", "FINALIZING")
      BY <2>1, <3>1 DEF Covered
    <3> QED
      BY <3>4, <3>5, <3>6 DEF Covered
  <2> QED
    BY <1>4, <1>6, <2>1, <2>3, <2>6
<1>9. CASE ~EventLoop /\ ~WorkerTakes
  <2>1. state' = state /\ workQueue' = workQueue /\ Queued' = Queued
    BY <1>9, StateFrame, CommandFrame DEF Queued
  <2>2. worker' \in Begins \cup {ToPrepare} => worker \in Begins \cup {ToPrepare}
    BY <1>1, <1>9, WorkerStays, WorkerFrame
  <2>3. \/ events' = events
        \/ \E x \in Events : x # "REC_DISCARD" /\ events' = Append(events, x)
    <3>1. {"REC_PRESS", "ERROR", "FINALIZE_DONE", "CONFIRM_DONE", "SYNC_DONE", "REC_RELEASE",
           "RECORD_MAX"} \subseteq Events
      BY DEF Events
    <3> QED
      BY <1>5, <1>9, <3>1, QueueFrame
  <2>4. CASE events' = events
    <3>1. On' = On
      BY <2>4 DEF On
    <3> QED
      BY <1>4, <1>6, <2>1, <2>2, <2>4, <3>1 DEF Covered, Ahead
  <2>5. CASE \E x \in Events : x # "REC_DISCARD" /\ events' = Append(events, x)
    <3>1. PICK x \in Events : x # "REC_DISCARD" /\ events' = Append(events, x)
      BY <2>5
    <3>2. On' = On \cup {x} /\ x # "RECORDING" /\ x \in Events \cup States
      BY <1>1, <3>1, EventPosted DEF On, Events
    <3>3. Followed(events, "RECORDING", "FINALIZING") => Followed(events', "RECORDING",
              "FINALIZING")
      BY <1>1, <3>1, <3>2, FollowedPosted
    <3>4. Covered => Covered'
      BY <2>1, <2>2, <3>2, <3>3 DEF Covered, Ahead
    <3> QED
      BY <1>4, <1>6, <2>1, <3>1, <3>2, <3>4
  <2> QED
    BY <2>3, <2>4, <2>5
<1> QED
  BY <1>7, <1>8, <1>9

\* What records need not stop, until the worker is told to stop it or a tap does it.
LEMMA KeptStep ==
  ASSUME Basics, NoTap, Kept, Next, ~dropped'
  PROVE  Kept' \/ (WorkerTakes /\ worker' = ToStop) \/ Tap
<1>1. /\ Staged /\ LoopTypes /\ QueueTypes /\ workQueue \in Seq(Commands)
      /\ session \in Nat /\ cancelled \in Nat /\ cancelled <= session
  BY AudioAssumption DEF Basics, Types, ButtonTypes, QueueTypes, Sessions, Numbers
<1>2. CASE Ahead
  <2>1. WorkerTakes /\ Head(workQueue) = "FINALIZING" => worker' = ToStop
    BY <1>1, TakesMoves DEF Moves
  <2> QED
    BY <1>1, <1>2, <2>1, AheadStays DEF Kept
<1>3. CASE ~Ahead /\ cancelled = 0 /\ ~Tap
  <2>1. state = "RECORDING" /\ "REC_DISCARD" \notin On
    BY <1>3 DEF Kept, NoTap
  <2>2. cancelled' = 0
    <3>1. Press => cancelled' = cancelled
      BY Zenon DEF Press
    <3> QED
      BY <1>3, <3>1, SessionFrame
  <2>3. CASE state' = state
    BY <2>1, <2>2, <2>3 DEF Kept
  <2>4. CASE state' # state
    <3>1. PICK s \in States : Transition(s)
      BY <2>4, StateChanges
    <3>2. /\ Head(events) \in On /\ <<state, Head(events), s>> \in Transitions /\ s \in On'
      BY <1>1, <3>1, LoopQueue
    <3>3. s = "FINALIZING"
      BY <2>1, <3>2 DEF Transitions
    <3> QED
      BY <3>2, <3>3 DEF Kept, Ahead
  <2> QED
    BY <2>3, <2>4
<1>4. CASE ~Ahead /\ cancelled # 0 /\ ~Tap
  <2>1. session # 0 /\ session # cancelled
    BY <1>4 DEF Kept, Active
  <2>2. cancelled' = cancelled /\ (session' = session \/ session' = session + 1)
    <3>1. Press => cancelled' = cancelled /\ (session' = session \/ session' = session + 1)
      BY Zenon DEF Press
    <3> QED
      BY <1>4, <3>1, SessionFrame
  <2>3. session' # 0 /\ session' # cancelled'
    BY <1>1, <2>1, <2>2
  <2> QED
    BY <1>4, <2>2, <2>3 DEF Kept, Active
<1> QED
  BY <1>2, <1>3, <1>4

\* Somebody has still to end FINALIZING.
LEMMA FinishesStep ==
  ASSUME Basics, Finishes, Next, ~dropped'
  PROVE  Finishes'
<1>1. Staged /\ LoopTypes /\ QueueTypes /\ workQueue \in Seq(Commands)
  BY DEF Basics, Types, QueueTypes
<1>2. SUFFICES ASSUME state' = "FINALIZING"
               PROVE  Ahead' \/ worker' \in Ends \/ On' \cap {"FINALIZE_DONE", "ERROR"} # {}
  BY DEF Finishes
<1>3. CASE state # "FINALIZING"
  <2>1. Transition("FINALIZING")
    BY <1>2, <1>3, StateChanges, Zenon DEF Transition
  <2>2. "FINALIZING" \in On'
    BY <1>1, <2>1, LoopQueue DEF States
  <2> QED
    BY <2>2 DEF Ahead
<1>4. CASE state = "FINALIZING" /\ Ahead
  <2>1. WorkerTakes /\ Head(workQueue) = "FINALIZING" => worker' \in Ends
    BY <1>1, TakesMoves DEF Moves, Ends
  <2> QED
    BY <1>1, <1>4, <2>1, AheadStays
<1>5. CASE state = "FINALIZING" /\ worker \in Ends
  <2>1. ~WorkerTakes
    BY <1>5, StagesApart DEF WorkerTakes, worker
  <2>2. Enqueue \/ Failed => On' \cap {"FINALIZE_DONE", "ERROR"} # {}
    <3>1. Enqueue \/ Failed => events' = Append(events, "FINALIZE_DONE")
              \/ events' = Append(events, "ERROR")
      BY Zenon DEF Enqueue, Failed, Post
    <3>2. {"FINALIZE_DONE", "ERROR"} \subseteq Events \cup States
      BY DEF Events
    <3> QED
      BY <1>1, <3>1, <3>2, EventPosted DEF LoopTypes, On
  <2> QED
    BY <1>1, <1>5, <2>1, <2>2, WorkerStays, WorkerFrame
<1>6. CASE state = "FINALIZING" /\ On \cap {"FINALIZE_DONE", "ERROR"} # {}
  <2>1. CASE ~EventLoop
    BY <1>1, <1>6, <2>1, OnlyEvents, EventPosted DEF LoopTypes, On
  <2>2. CASE \E s \in States : Transition(s)
    <3>1. PICK s \in States : Transition(s)
      BY <2>2
    <3>2. <<"FINALIZING", Head(events), "FINALIZING">> \in Transitions
      BY <1>1, <1>2, <1>6, <3>1, LoopQueue
    <3> QED
      BY <3>2 DEF Transitions
  <2>3. CASE \E s \in States : Bridge(s)
    <3>1. PICK s \in States : Bridge(s)
      BY <2>3
    <3>2. On = {Head(events)} \cup Rest /\ Head(events) \in States
          /\ (On' = Rest \/ On' = Rest \cup {"SYNC_REQUEST"})
      BY <1>1, <3>1, LoopQueue DEF Rest
    <3> QED
      BY <1>6, <3>2 DEF States
  <2>4. CASE Ignore
    <3>1. /\ On = {Head(events)} \cup Rest /\ On' = Rest
          /\ \A next \in States : <<state, Head(events), next>> \notin Transitions
      BY <1>1, <2>4, IgnoreQueue DEF Rest
    <3>2. /\ <<"FINALIZING", "FINALIZE_DONE", "CONFIRM">> \in Transitions
          /\ <<"FINALIZING", "ERROR", "IDLE">> \in Transitions /\ {"CONFIRM",
               "IDLE"} \subseteq States
      BY DEF Transitions, States
    <3>3. Head(events) \notin {"FINALIZE_DONE", "ERROR"}
      BY <1>6, <3>1, <3>2
    <3> QED
      BY <1>6, <3>1, <3>3
  <2> QED
    BY <2>1, <2>2, <2>3, <2>4 DEF EventLoop
<1> QED
  BY <1>3, <1>4, <1>5, <1>6 DEF Finishes

\* When the worker is done only the next command changes that.
LEMMA SettledKept ==
  ASSUME Basics, Plain, Settled, Next, UNCHANGED faults, workQueue' = workQueue \/ WorkerTakes
  PROVE  Settled'
<1>1. /\ Staged /\ workQueue \in Seq(Commands)
      /\ worker = <<>> /\ Queued \subseteq {"CONFIRM"} /\ ~Recording
  BY DEF Basics, Types, QueueTypes, Settled
<1>2. CASE WorkerTakes
  <2>1. workQueue # <<>> /\ workQueue' = Tail(workQueue)
    BY <1>2, Zenon DEF WorkerTakes
  <2>2. Queued = {Head(workQueue)} \cup Queued'
    BY <1>1, <2>1, Taken DEF Queued
  <2>3. worker' = <<>>
    BY <1>1, <1>2, <2>2, TakesMoves DEF Moves
  <2>4. UNCHANGED <<captureRun, capturing, writing, file>>
    BY <1>2, Zenon DEF WorkerTakes, capture, writer
  <2> QED
    BY <1>1, <2>2, <2>3, <2>4 DEF Settled, Recording
<1>3. CASE ~WorkerTakes
  <2>1. ~Worker
    <3>1. Worker => worker # <<>>
      BY <1>3, Zenon DEF Worker, Prepare, Enqueue, Failed, Check, WorkerCalls, CaptureStart,
        CaptureRun, CaptureStop, CaptureStopped, OpenWav, SpawnWriter, Finalize, Finalized, Abort,
        Aborted, At, worker
    <3> QED
      BY <1>1, <3>1
  <2>2. worker' = <<>> /\ Queued' = Queued
    BY <1>1, <1>3, <2>1, WorkerFrame DEF Queued
  <2>3. ~Recording'
    <3>1. CASE EventLoop \/ ConfirmTimer \/ SyncFinishes
      BY <1>1, <3>1, LoopFrame DEF Recording
    <3>2. CASE Press \/ Release \/ Tap \/ TimePasses \/ RecordMax \/ Discard
      BY <1>1, <3>2, HandFrame DEF Recording
    <3>3. CASE ButtonCalls
      <4>1. UNCHANGED <<capturing, writing>> /\ (captureRun' => captureRun) /\ (file' = file
                \/ file' = 0)
        BY <3>3, TapSteps, Zenon
      <4> QED
        BY <1>1, <4>1 DEF Recording
    <3>4. CASE AudioTask \/ WriterTask
      <4>1. /\ captureRun' = captureRun
            /\ \/ UNCHANGED <<capturing, file, writing>>
               \/ ~capturing' /\ UNCHANGED <<file, writing>>
               \/ file' = 0 /\ ~writing' /\ UNCHANGED capturing
        BY <3>4, TaskSteps
      <4> QED
        BY <1>1, <4>1 DEF Recording
    <3> QED
      BY <2>1, <3>1, <3>2, <3>3, <3>4, Zenon DEF Next, ButtonTask
  <2> QED
    BY <1>1, <2>2, <2>3 DEF Settled
<1> QED
  BY <1>2, <1>3

\* In a regular run a press begins when the worker is done.
LEMMA NewRestsStep ==
  ASSUME Basics, Regular, NewRests, Next, UNCHANGED faults, Regular'
  PROVE  NewRests'
<1>1. /\ Staged /\ LoopTypes /\ QueueTypes /\ Plain /\ LoopShape /\ TapShape /\ FinalizingShape
           /\ Rests
      /\ WorkShape /\ ~Fault
  BY NoFailure DEF Basics, Types, Regular
<1>2. CASE state' # state
  <2>1. PICK s \in States : Transition(s)
    BY <1>2, StateChanges
  <2>2. /\ On = {Head(events)} \cup Rest /\ <<state, Head(events), s>> \in Transitions
        /\ state' = s /\ s \in On'
    BY <1>1, <2>1, LoopQueue DEF Rest
  <2>3. /\ UNCHANGED <<session, cancelled, workQueue, worker, captureRun, capturing, writing, file>>
    BY <2>1, Zenon DEF Transition, button, audioVars, capture, writer, worker
  <2>4. (Settled => Settled') /\ (Active(session)' => Active(session))
    BY <2>3 DEF Settled, Queued, Recording, Active
  <2>5. ~(state' = "FINALIZING" /\ "ERROR" \in On')
    BY <2>2, LeftAndNew DEF Regular, FinalizingShape
  <2>6. ASSUME s = "IDLE", Active(session)'
        PROVE  Settled'
    <3>1. \/ state = "RECORDING" /\ "REC_DISCARD" \in On
          \/ state = "FINALIZING" /\ "ERROR" \in On
          \/ state \in {"BOOT", "CONFIRM", "SYNC", "PROVISION"}
      <4>1. state \notin {"OTA", "SAFE_OFF"} /\ Head(events) \in On
        BY <1>1, <2>2 DEF LoopShape
      <4>2. <<state, Head(events), "IDLE">> \in Transitions
        BY <2>2, <2>6
      <4>3. /\ state = "RECORDING" => Head(events) = "REC_DISCARD"
            /\ state = "FINALIZING" => Head(events) = "ERROR"
            /\ state \in {"RECORDING", "FINALIZING", "BOOT", "CONFIRM", "SYNC", "PROVISION"}
        BY <4>1, <4>2 DEF Transitions
      <4> QED
        BY <4>1, <4>3
    <3>2. ~(state = "RECORDING" /\ "REC_DISCARD" \in On)
      BY <1>1, <2>4, <2>6 DEF TapShape, Active
    <3>3. Settled
      BY <1>1, <3>1, <3>2 DEF NewRests, Rests, Resting
    <3> QED
      BY <2>4, <3>3
  <2> QED
    BY <2>2, <2>5, <2>6 DEF NewRests
<1>3. CASE state' = state /\ state = "IDLE"
  <2>1. SUFFICES ASSUME Active(session)', "REC_PRESS" \notin On'
                 PROVE  Settled'
    BY <1>3 DEF NewRests
  <2>2. ~Press
    <3>1. Press => events' = Append(events, "REC_PRESS")
      BY <1>3, Zenon DEF Press, Post
    <3> QED
      BY <1>1, <2>1, <3>1, EventPosted DEF LoopTypes, On, Events
  <2>3. Active(session)
    <3>1. Tap => cancelled' = session /\ session' = session
      BY Zenon DEF Tap
    <3> QED
      BY <2>1, <2>2, <3>1, SessionFrame DEF Active
  <2>4. /\ "REC_PRESS" \notin On
        /\ workQueue' = workQueue \/ WorkerTakes
    <3>1. CASE ~EventLoop
      <4>1. On \subseteq On'
        BY <1>1, <3>1, OnlyEvents, EventPosted DEF LoopTypes, On
      <4> QED
        BY <2>1, <3>1, <4>1, CommandFrame
    <3>2. CASE \E s \in States : Transition(s)
      <4>1. PICK s \in States : Transition(s)
        BY <3>2
      <4>2. <<"IDLE", Head(events), "IDLE">> \in Transitions
        BY <1>1, <1>3, <4>1, LoopQueue
      <4> QED
        BY <4>2 DEF Transitions
    <3>3. CASE \E s \in States : Bridge(s)
      <4>1. PICK s \in States : Bridge(s)
        BY <3>3
      <4>2. On = {Head(events)} \cup Rest /\ Head(events) = s /\ Command(s)
            /\ (On' = Rest \/ On' = Rest \cup {"SYNC_REQUEST"})
        BY <1>1, <4>1, LoopQueue DEF Rest
      <4>3. s = "IDLE"
        BY <1>1, <1>3, <4>2, OneState
      <4> QED
        BY <2>1, <4>2, <4>3 DEF Command, Commands
    <3>4. CASE Ignore
      <4>1. /\ On = {Head(events)} \cup Rest /\ On' = Rest
            /\ \A next \in States : <<state, Head(events), next>> \notin Transitions
        BY <1>1, <3>4, IgnoreQueue DEF Rest
      <4>2. <<"IDLE", "REC_PRESS", "RECORDING">> \in Transitions /\ "RECORDING" \in States
        BY DEF Transitions, States
      <4>3. workQueue' = workQueue
        BY <3>4, Zenon DEF Ignore
      <4> QED
        BY <1>3, <2>1, <4>1, <4>2, <4>3
    <3> QED
      BY <3>1, <3>2, <3>3, <3>4 DEF EventLoop
  <2>5. Settled
    BY <1>3, <2>3, <2>4 DEF NewRests
  <2> QED
    BY <1>1, <2>4, <2>5, SettledKept
<1>4. CASE state' = state /\ state = "FINALIZING"
  <2>1. SUFFICES ASSUME "ERROR" \in On'
                 PROVE  Settled'
    BY <1>4 DEF NewRests
  <2>2. CASE "ERROR" \in On
    <3>1. Settled /\ "FINALIZING" \notin On
      BY <1>1, <1>4, <2>2, LeftAndNew DEF NewRests, FinalizingShape
    <3>2. workQueue' = workQueue \/ WorkerTakes
      <4>1. CASE ~EventLoop
        BY <4>1, CommandFrame
      <4>2. CASE (\E s \in States : Transition(s)) \/ Ignore
        BY <4>2, Zenon DEF Transition, Ignore
      <4>3. CASE \E s \in States : Bridge(s)
        <5>1. PICK s \in States : Bridge(s)
          BY <4>3
        <5>2. s \in On
          BY <1>1, <5>1, LoopQueue
        <5> QED
          BY <1>1, <1>4, <3>1, <5>2, OneState
      <4> QED
        BY <4>1, <4>2, <4>3 DEF EventLoop
    <3> QED
      BY <1>1, <3>1, <3>2, SettledKept
  <2>3. CASE "ERROR" \notin On
    <3>1. ~EventLoop
      <4>1. \A s \in States : Transition(s) \/ Bridge(s) => On' \subseteq On \cup {s,
                "SYNC_REQUEST"}
        BY <1>1, LoopQueue
      <4>2. Ignore => On' \subseteq On
        BY <1>1, IgnoreQueue
      <4> QED
        BY <2>1, <2>3, <4>1, <4>2 DEF EventLoop, States
    <3>2. Failed
      <4>1. \A x \in Events : events' = Append(events, x) => On' = On \cup {x}
        BY <1>1, EventPosted DEF LoopTypes, On
      <4>2. {"REC_PRESS", "REC_DISCARD", "ERROR", "FINALIZE_DONE", "CONFIRM_DONE", "SYNC_DONE",
                "REC_RELEASE",
             "RECORD_MAX"} \subseteq Events
        BY DEF Events
      <4>3. events' = events => On' = On
        BY DEF On
      <4>4. Enqueue => events' = Append(events, "FINALIZE_DONE")
        BY <1>1, Zenon DEF Enqueue, Post
      <4>5. ~Enqueue
        BY <2>1, <2>3, <4>1, <4>2, <4>4
      <4>6. \E x \in Events : events' = Append(events, x) /\ (x = "ERROR" => Failed)
        BY <2>1, <2>3, <3>1, <4>2, <4>3, <4>5, QueueFrame
      <4> QED
        BY <2>1, <2>3, <4>1, <4>6
    <3>3. worker = ToFail /\ worker' = <<>>
      BY <1>1, <3>2, FailedMoves DEF Moves
    <3>4. UNCHANGED <<captureRun, capturing, writing, file, workQueue>>
      BY <3>2, Zenon DEF Failed, capture, writer
    <3>5. ToFail \in Ends \ {ToStop, Stopping}
      BY StagesDiffer DEF Ends
    <3>6. workQueue = <<>> /\ ~capturing /\ ~writing /\ file = 0
      BY <1>1, <1>4, <3>3, <3>5 DEF FinalizingShape, WorkShape
    <3>7. ~captureRun
      BY <1>1, <3>6, Zenon DEF Plain
    <3> QED
      BY <3>3, <3>4, <3>6, <3>7 DEF Settled, Recording, Queued, ToSet
  <2> QED
    BY <2>2, <2>3
<1> QED
  BY <1>2, <1>3, <1>4 DEF NewRests

\* A call leaves what is said of the microphone, the codec and the WAV.
LEMMA CallGold ==
  ASSUME Basics, Plain, CodecOff, Next, WorkerCalls \/ ButtonCalls \/ AudioTask \/ WriterTask
  PROVE  Plain' /\ CodecOff' /\ (MicLeft => MicLeft') /\ (FileLeft => FileLeft')
<1>1. faults' = 0 => faults = 0 /\ faults' = faults
  <2>1. faults \in Nat /\ (faults' = faults \/ faults' = faults + 1)
    BY AudioAssumption, FaultsCount DEF Basics, Types
  <2> QED
    BY <2>1
<1>2. Kept => Kept'
  <2>1. UNCHANGED <<state, events, workQueue, session, cancelled>>
    BY CallFrame
  <2> QED
    BY <2>1 DEF Kept, Ahead, On, Queued, Active
<1> QED
  BY <1>1, <1>2, BeginGold, StopGold, CloseGold, TapGold, TasksGold, Zenon DEF WorkerCalls

Aside == ~WorkerCalls /\ ~ButtonCalls /\ ~AudioTask /\ ~WriterTask

\* The other steps leave the recording alone.
LEMMA AsideGold ==
  ASSUME Basics, Next, Aside
  PROVE  /\ UNCHANGED <<codec, captureRun, capturing, stopDone, writing, writerDone, file>>
         /\ worker' = worker \/ worker \notin {ToSpawn} \cup CodecWaits
         /\ \/ worker' = worker \/ worker \notin FileCloses
            \/ worker = ToCheckOpen /\ worker' \in FileCloses
            \/ worker = ToCheckCapture /\ worker' = UndoCapture
            \/ worker = ToCheckCapture /\ Active(mySession) /\ Check("checkCapture", <<"stop",
                 "abort">>)
         /\ tap \in {TapStop, TapStopWait, TapAbort, TapAbortWait} => tap' = tap
<1>1. Staged /\ workQueue \in Seq(Commands)
  BY DEF Basics, Types, QueueTypes
<1>2. UNCHANGED <<codec, captureRun, capturing, stopDone, writing, writerDone, file>>
  <2>1. CASE EventLoop \/ ConfirmTimer \/ SyncFinishes
    BY <2>1, Zenon DEF EventLoop, Transition, Bridge, Ignore, ConfirmTimer, SyncFinishes, audioVars,
      capture, writer
  <2>2. CASE Press \/ Release \/ Tap \/ TimePasses \/ RecordMax \/ Discard
    BY <2>2, HandFrame
  <2>3. CASE Worker
    BY <2>3, Zenon DEF Aside, Worker, WorkerTakes, Prepare, Enqueue, Failed, Check, capture, writer
  <2> QED
    BY <2>1, <2>2, <2>3, Zenon DEF Next, ButtonTask, Aside
<1>3. tap \in {TapStop, TapStopWait, TapAbort, TapAbortWait} => tap' = tap
  <2>1. CASE EventLoop \/ ConfirmTimer \/ SyncFinishes
    BY <2>1, LoopFrame
  <2>2. CASE Worker
    BY <1>1, <2>2, ButtonFrame
  <2>3. CASE Press \/ Release \/ TimePasses \/ RecordMax
    BY <2>3, Zenon DEF Press, Release, TimePasses, RecordMax, audioVars, tap
  <2>4. CASE Tap \/ Discard
    <3>1. tap = <<>> \/ tap = TapDone
      BY <1>1, <2>4, TapMovesIn, DiscardMoves DEF TapMoves
    <3> QED
      BY <3>1, StagesDiffer, StagesApart DEF Taps
  <2> QED
    BY <2>1, <2>2, <2>3, <2>4, Zenon DEF Next, ButtonTask, Aside
<1>4. CASE ~Worker
  BY <1>1, <1>2, <1>3, <1>4, WorkerFrame
<1>5. CASE Worker
  <2>1. {<<>>, ToPrepare, ToEnqueue, ToFail, ToCheck} \cap FileCloses = {}
    BY ClosingStages
  <2>2. {<<>>, ToPrepare, ToEnqueue, ToFail, ToCheck, ToCheckOpen, ToCheckCapture}
           \cap ({ToSpawn} \cup CodecWaits) = {}
    <3>1. {<<>>, ToPrepare, ToEnqueue, ToFail, ToCheck, ToCheckOpen,
              ToCheckCapture} \cap CodecWaits = {}
      BY ClosingStages
    <3>2. ToSpawn \notin {<<>>, ToPrepare, ToEnqueue, ToFail, ToCheck, ToCheckOpen, ToCheckCapture}
      BY StagesDiffer, StagesApart DEF Begins, Ends
    <3> QED
      BY <3>1, <3>2
  <2>3. CASE WorkerTakes \/ Prepare \/ Enqueue \/ Failed \/ Check("check", <<>>)
    <3>1. worker \in {<<>>, ToPrepare, ToEnqueue, ToFail, ToCheck}
      BY <1>1, <2>3, TakesMoves, PrepareMoves, EnqueueMoves, FailedMoves, CheckMoves DEF Moves
    <3> QED
      BY <1>2, <1>3, <2>1, <2>2, <3>1
  <2>4. CASE Check("checkOpen", <<"abort", "stop">>)
    <3>1. worker = ToCheckOpen /\ worker' \in {ToCapture, UndoOpen}
      BY <1>1, <2>4, CheckOpenMoves DEF Moves
    <3> QED
      BY <1>2, <1>3, <2>2, <3>1 DEF FileCloses
  <2>5. CASE Check("checkCapture", <<"stop", "abort">>)
    <3>1. worker = ToCheckCapture /\ (Active(mySession) \/ worker' = UndoCapture)
      BY <1>1, <2>5, CheckCaptureMoves DEF Moves
    <3> QED
      BY <1>2, <1>3, <2>2, <2>5, <3>1
  <2> QED
    BY <1>5, <2>3, <2>4, <2>5, Zenon DEF Worker, Aside
<1> QED
  BY <1>4, <1>5

\* What records is stopped by somebody, unless it need not stop.
LEMMA AsideLeft ==
  ASSUME Basics, NoTap, MicLeft, FileLeft, Next, Aside, ~dropped'
  PROVE  MicLeft' /\ FileLeft'
<1>1. Staged /\ (faults' = 0 => faults = 0)
  <2>1. faults \in Nat /\ (faults' = faults \/ faults' = faults + 1)
    BY AudioAssumption, FaultsCount DEF Basics, Types
  <2> QED
    BY <2>1 DEF Basics
<1>2. UNCHANGED <<capturing, writing, file>>
  BY AsideGold
<1>3. /\ {TapStop, TapStopWait, TapAbort, TapAbortWait} = Taps \ {TapDone}
      /\ UndoCapture \in MicCloses /\ ToStop \in MicCloses /\ MicCloses \subseteq FileCloses
      /\ ToCheckOpen \notin MicCloses
  BY StagesDiffer, ClosingStages DEF Taps, MicCloses
<1>4. Active(mySession) /\ Check("checkCapture", <<"stop", "abort">>) => Kept'
  <2>1. SUFFICES ASSUME Active(mySession), Check("checkCapture", <<"stop", "abort">>) PROVE Kept'
    OBVIOUS
  <2>2. UNCHANGED <<state, events, workQueue, session, cancelled>>
    BY <2>1, Zenon DEF Check, loop, button
  <2>3. worker \in Begins
    BY <1>1, <2>1, CheckCaptureMoves DEF Moves, Begins
  <2>4. Kept
    BY <2>1, <2>3 DEF Kept, NoTap, Covered, Active
  <2> QED
    BY <2>2, <2>4 DEF Kept, Ahead, On, Queued, Active
<1>5. Kept => Kept' \/ worker' \in MicCloses \/ tap' = TapStop
  <2>1. Tap => tap' = TapStop
    BY <1>1, TapMovesIn DEF TapMoves
  <2> QED
    BY <1>3, <2>1, KeptStep
<1>6. worker \in MicCloses => worker' \in MicCloses \/ Kept'
  BY <1>3, <1>4, AsideGold
<1>7. worker \in FileCloses => worker' \in FileCloses \/ Kept'
  BY <1>3, <1>4, AsideGold
<1>8. tap \in {TapStop, TapStopWait, TapAbort, TapAbortWait} => tap' = tap
  BY AsideGold
<1>9. MicLeft'
  BY <1>2, <1>5, <1>6, <1>8 DEF MicLeft
<1>10. FileLeft'
  BY <1>1, <1>2, <1>3, <1>5, <1>7, <1>8 DEF FileLeft
<1> QED
  BY <1>9, <1>10

\* The inductive invariant of the golden rule, step by step.
LEMMA GoldStep ==
  ASSUME RecInv, HeardShape, GoldShape, [Next]_vars, RecInv'
  PROVE  GoldShape'
<1>1. Basics
  BY DEF RecInv
<1>2. CASE UNCHANGED vars
  <2>1. /\ UNCHANGED <<codec, captureRun, capturing, stopDone, file, writing, writerDone, worker,
             tap, faults>>
        /\ UNCHANGED <<state, events, session, cancelled, workQueue, dropped, again>>
    BY <1>2, Zenon DEF vars, audioVars, capture, writer, loop, button, work, worker, tap
  <2>2. UNCHANGED <<On, Queued>> /\ (Active(session)' <=> Active(session))
    BY <2>1 DEF On, Queued, Active
  <2>3. Plain' /\ CodecOff'
    BY <2>1 DEF GoldShape, Plain, CodecOff
  <2>4. ~dropped' => NoTap' /\ Finishes'
    BY <2>1, <2>2 DEF GoldShape, NoTap, Covered, Ahead, Finishes
  <2>5. ~dropped' => MicLeft' /\ FileLeft'
    BY <2>1, <2>2 DEF GoldShape, MicLeft, FileLeft, Kept, Ahead
  <2>6. Regularly' => NewRests'
    BY <2>1, <2>2 DEF GoldShape, Regularly, NewRests, Settled, Recording
  <2> QED
    BY <2>3, <2>4, <2>5, <2>6 DEF GoldShape
<1>3. CASE Next
  <2>1. dropped => dropped'
    BY <1>3, Zenon DEF Next, EventLoop, Transition, Bridge, Command, Ignore, ConfirmTimer,
      SyncFinishes, Press, Release, Tap, TimePasses, ButtonTask, ButtonCalls, Discard, RecordMax,
      Worker, WorkerTakes, Prepare, Enqueue, Failed, Check, WorkerCalls, AudioTask, WriterTask
  <2>2. Plain' /\ CodecOff'
    <3>1. CASE ~Aside
      BY <1>1, <1>3, <3>1, CallGold DEF GoldShape, Aside
    <3>2. CASE Aside
      BY <1>1, <1>3, <3>2, AsideGold DEF GoldShape, Plain, CodecOff
    <3> QED
      BY <3>1, <3>2
  <2>3. ASSUME ~dropped' PROVE NoTap' /\ Finishes' /\ MicLeft' /\ FileLeft'
    <3>1. NoTap /\ Finishes /\ MicLeft /\ FileLeft
      BY <2>1, <2>3 DEF GoldShape
    <3>2. NoTap' /\ Finishes'
      BY <1>1, <1>3, <2>3, <3>1, NoTapStep, FinishesStep DEF HeardShape
    <3>3. MicLeft' /\ FileLeft'
      BY <1>1, <1>3, <2>3, <3>1, CallGold, AsideLeft DEF GoldShape, Aside
    <3> QED
      BY <3>2, <3>3
  <2>4. ASSUME Regularly' PROVE NewRests'
    <3>1. Regularly /\ UNCHANGED faults
      BY <1>1, <2>4, StaysRegular
    <3> QED
      BY <1>1, <1>3, <2>4, <3>1, NewRestsStep DEF GoldShape, RecInv
  <2> QED
    BY <2>2, <2>3, <2>4 DEF GoldShape
<1> QED
  BY <1>2, <1>3

\* It holds at the start.
LEMMA GoldInit ==
  ASSUME Init
  PROVE  GoldShape
<1>1. PICK boot \in Boots : events = <<boot>>
  BY DEF Init
<1>2. boot \in {"BOOT_COMPLETE", "REC_PRESS", "PROVISION_REQUEST"}
  BY RecAssumption
<1>3. /\ state = "BOOT" /\ session = 0 /\ workQueue = <<>>
      /\ ~codec /\ ~captureRun /\ ~capturing /\ ~stopDone /\ ~writing /\ ~writerDone /\ file = 0
  BY DEF Init, AudioInit
<1>4. worker = <<>> /\ tap = <<>>
  BY DEF Init, AudioInit, worker, tap, Tasks
<1>5. On = {boot} /\ Queued = {}
  BY <1>1, <1>3 DEF On, Queued, ToSet
<1>6. Plain /\ CodecOff /\ MicLeft /\ FileLeft /\ Finishes /\ NewRests
  BY <1>3 DEF Plain, CodecOff, MicLeft, FileLeft, Finishes, NewRests
<1>7. NoTap
  <2>1. worker \notin Begins \cup {ToPrepare}
    BY <1>4, StagesApart
  <2>2. Followed(events, "RECORDING", "FINALIZING")
    BY <1>1, <1>2 DEF Followed
  <2> QED
    BY <1>2, <1>4, <1>5, <2>1, <2>2 DEF NoTap, Covered
<1> QED
  BY <1>6, <1>7 DEF GoldShape

\* Nothing records outside RECORDING, whatever fails, as long as no command is lost
\* and no earlier press has been taken back.
THEOREM NothingIsLeftOn == Spec => [](RecInv /\ HeardShape /\ GoldShape)
<1>1. Init => GoldShape
  BY GoldInit
<1>2. RecInv /\ HeardShape /\ GoldShape /\ [Next]_vars /\ RecInv' => GoldShape'
  BY GoldStep
<1> QED
  BY RecIsRegular, PressesAreServed, <1>1, <1>2, PTL DEF Spec

\* The golden rule: sync and recording never run together, and the microphone, the
\* codec and the WAV are off or closed whenever nothing is under way outside RECORDING.
THEOREM GoldenRuleHolds == Spec => []GoldenRule
<1>1. ASSUME RecInv, GoldShape,
             Quiet, state # "RECORDING", ~dropped, cancelled \in {0, session} \/ Regularly
      PROVE  ~captureRun /\ ~capturing /\ ~codec /\ (faults = 0 => ~writing /\ file = 0)
  <2>1. worker = <<>> /\ tap = <<>> /\ On = {} /\ Queued = {}
    BY <1>1 DEF Quiet, Tasks, worker, tap, On, Queued, ToSet
  <2>2. /\ <<>> \notin MicCloses \cup FileCloses \cup CodecWaits \cup Ends
        /\ <<>> \notin {TapStop, TapStopWait, TapAbort, TapAbortWait} \cup Taps
    <3>1. <<>> \notin FileCloses /\ MicCloses \subseteq FileCloses /\ <<>> \notin CodecWaits
      BY ClosingStages
    <3>2. <<>> \notin Ends \cup Taps
      BY StagesApart
    <3> QED
      BY <3>1, <3>2 DEF Taps
  <2>3. ~capturing /\ (faults = 0 => ~writing /\ file = 0)
    <3>1. CASE ~Kept
      BY <1>1, <2>1, <2>2, <3>1 DEF GoldShape, MicLeft, FileLeft
    <3>2. CASE Kept
      <4>1. Active(session) /\ Regularly
        BY <1>1, <2>1, <3>2 DEF Kept, Ahead, Active
      <4>2. state \in {"BOOT", "CONFIRM", "SYNC", "PROVISION", "IDLE"}
        <5>1. state # "FINALIZING"
          BY <1>1, <2>1, <2>2 DEF GoldShape, Finishes, Ahead
        <5> QED
          BY <1>1, <4>1, <5>1 DEF RecInv, Regular, LoopShape
      <4>3. Settled
        BY <1>1, <2>1, <4>1, <4>2 DEF RecInv, Regular, Rests, Resting, GoldShape, NewRests
      <4> QED
        BY <4>3 DEF Settled, Recording
    <3> QED
      BY <3>1, <3>2
  <2>4. ~captureRun /\ ~codec
    BY <1>1, <2>1, <2>2, <2>3 DEF GoldShape, Plain, CodecOff
  <2> QED
    BY <2>3, <2>4
<1>2. RecInv /\ HeardShape /\ GoldShape /\ (faults = 0 /\ ~again => ~(syncing /\ capturing))
        => GoldenRule
  BY <1>1 DEF GoldenRule, Regularly
<1> QED
  BY NothingIsLeftOn, SyncIsAlone, <1>2, PTL

-----------------------------------------------------------------------------
(* The room in the event loop's queue. *)

\* What is still to be posted on account of the events, the commands, the worker, the
\* loop's own state and the button.  An event that leads to two counts for two.
Heavy == {"REC_PRESS", "FINALIZING", "FINALIZE_DONE"}
Weight(e) == IF e \in Heavy THEN 2 ELSE 1
Weigh(q) == Len(q) + Tally(q, Heavy)
Toil(c) == IF c = "FINALIZING" THEN 2 ELSE IF c = "RECORDING" THEN 1 ELSE 0
Load(q) == Tally(q, {"RECORDING", "FINALIZING"}) + Tally(q, {"FINALIZING"})
Due(stage) == IF "enqueue" \in ToSet(stage) THEN 2 ELSE IF stage # <<>> THEN 1 ELSE 0
Pending ==
  (IF state = "RECORDING" THEN 1 ELSE 0) + (IF confirmTimer THEN 1 ELSE 0)
    + (IF syncing THEN 1 ELSE 0)
Held ==
  (IF stable THEN 1 ELSE 0) + (IF ~maxSent /\ age # "none" THEN 1 ELSE 0)
    + (IF tap # <<>> THEN 1 ELSE 0)
Running == Weigh(events) + Pending + Load(workQueue)
Debts == Running + Due(worker) + Held

\* What one event or command adds.
LEMMA Weighs ==
  ASSUME NEW S, NEW q \in Seq(S)
  PROVE  /\ Weigh(q) \in Nat /\ Load(q) \in Nat /\ Len(q) <= Weigh(q)
         /\ \A e \in S : /\ Weigh(Append(q, e)) = Weigh(q) + Weight(e)
                         /\ Load(Append(q, e)) = Load(q) + Toil(e)
         /\ q # <<>> => /\ Weigh(q) = Weigh(Tail(q)) + Weight(Head(q))
                        /\ Load(q) = Load(Tail(q)) + Toil(Head(q))
<1>1. /\ Len(q) \in Nat /\ Tally(q, Heavy) \in Nat
      /\ Tally(q, {"RECORDING", "FINALIZING"}) \in Nat /\ Tally(q, {"FINALIZING"}) \in Nat
  BY TallyType, LenProperties
<1>2. ASSUME NEW e \in S
      PROVE  Weigh(Append(q, e)) = Weigh(q) + Weight(e) /\ Load(Append(q, e)) = Load(q) + Toil(e)
  <2>1. \A A : Tally(Append(q, e), A) = Tally(q, A) + (IF e \in A THEN 1 ELSE 0)
    BY TallyPosted
  <2>2. Len(Append(q, e)) = Len(q) + 1
    BY Posted
  <2> QED
    BY <1>1, <2>1, <2>2 DEF Weigh, Load, Weight, Toil
<1>3. ASSUME q # <<>>
      PROVE  Weigh(q) = Weigh(Tail(q)) + Weight(Head(q)) /\ Load(q) = Load(Tail(q)) + Toil(Head(q))
  <2>1. \A A : Tally(q, A) = Tally(Tail(q), A) + (IF Head(q) \in A THEN 1 ELSE 0)
    BY <1>3, TallyTaken
  <2>2. Len(Tail(q)) \in Nat /\ Len(q) = Len(Tail(q)) + 1 /\ Tail(q) \in Seq(S)
    BY <1>3, Taken
  <2>3. \A A : Tally(Tail(q), A) \in Nat
    BY <2>2, TallyType
  <2> QED
    BY <1>1, <2>1, <2>2, <2>3 DEF Weigh, Load, Weight, Toil
<1> QED
  BY <1>1, <1>2, <1>3 DEF Weigh, Load

\* Where the worker's calls leave it.
LEMMA DueFalls ==
  ASSUME Staged, Worker, ~WorkerTakes
  PROVE  worker # <<>> /\ Due(worker') <= Due(worker) /\ Due(worker) \in 1 .. 2
<1>1. /\ worker # <<>>
      /\ \/ Return("worker")
         \/ \E c \in {"run", "spawn", "stopped", "finalized", "aborted"} : GoOn("worker", c)
         \/ \E x \in {<<>>, <<"error">>, GiveUp, <<"abort", "stop">>, <<"stop", "abort">>} :
              Go("worker", x)
  <2>1. CASE Prepare \/ Enqueue \/ Failed
    BY <2>1, Zenon DEF Prepare, Enqueue, Failed, At, worker
  <2>2. CASE \/ Check("check", <<>>)
             \/ Check("checkOpen", <<"abort", "stop">>)
             \/ Check("checkCapture", <<"stop", "abort">>)
    BY <2>2, Zenon DEF Check, At, worker
  <2>3. CASE WorkerCalls
    BY <2>3, Zenon DEF WorkerCalls, CaptureStart, CaptureRun, OpenWav, SpawnWriter, Finalize,
      Finalized, CaptureStop, CaptureStopped, Abort, Aborted, DropSession, At, worker
  <2> QED
    BY <2>1, <2>2, <2>3, Zenon DEF Worker
<1>2. \A x : Go("worker", x) => worker' = x
  BY WorkerGoes DEF Moves
<1>3. worker \in Seq(Calls) /\ Len(worker) \in Nat \ {0}
  BY <1>1, StagesAreCalls, Taken DEF Staged
<1>4. "enqueue" \in ToSet(worker') => "enqueue" \in ToSet(worker)
  <2>1. CASE Return("worker")
    BY <1>1, <1>2, <1>3, <2>1, Taken DEF Return, worker
  <2>2. ASSUME NEW c \in {"run", "spawn", "stopped", "finalized", "aborted"}, GoOn("worker", c)
        PROVE  "enqueue" \in ToSet(worker') => "enqueue" \in ToSet(worker)
    BY <1>2, <1>3, <2>2 DEF GoOn, ToSet, worker
  <2>3. ASSUME NEW x \in {<<>>, <<"error">>, GiveUp, <<"abort", "stop">>, <<"stop", "abort">>},
               Go("worker", x)
        PROVE  "enqueue" \notin ToSet(worker')
    <3>1. worker' = x
      BY <1>2, <2>3
    <3> QED
      BY <3>1 DEF ToSet, GiveUp
  <2> QED
    BY <1>1, <2>1, <2>2, <2>3
<1> QED
  BY <1>1, <1>4 DEF Due

\* The event loop pays for what it posts.
LEMMA LoopPays ==
  ASSUME Basics, EventLoop
  PROVE  Running' <= Running
<1>1. /\ LoopTypes /\ events \in Seq(Events \cup States) /\ workQueue \in Seq(Commands)
      /\ Load(workQueue) \in Nat
  BY Weighs DEF Basics, Types, LoopTypes, QueueTypes
<1>2. events # <<>> /\ Tail(events) \in Seq(Events \cup States)
  <2>1. events # <<>>
    BY Zenon DEF EventLoop, Transition, Bridge, Ignore
  <2> QED
    BY <1>1, <2>1, Taken
<1>3. /\ Weigh(events) = Weigh(Tail(events)) + Weight(Head(events))
      /\ Weigh(Tail(events)) \in Nat
      /\ \A e \in Events \cup States :
           Weigh(Append(Tail(events), e)) = Weigh(Tail(events)) + Weight(e)
  BY <1>1, <1>2, Weighs, Zenon
<1>4. Pending \in Nat /\ Pending' \in Nat
  BY DEF Pending
<1>5. ASSUME NEW s \in States, Transition(s)
      PROVE  Running' <= Running
  <2>1. /\ <<state, Head(events), s>> \in Transitions /\ state' = s
        /\ confirmTimer' = (s = "CONFIRM") /\ UNCHANGED <<syncing, workQueue>>
        /\ events' = Append(Tail(events), s)
    BY <1>5, Zenon DEF Transition
  <2>2. confirmTimer' <=> s = "CONFIRM"
    BY <2>1, Zenon
  <2>3. Weight(s) + Pending' <= Weight(Head(events)) + Pending
    BY <2>1, <2>2 DEF Transitions, Weight, Heavy, Pending
  <2>4. Weight(s) \in Nat /\ Weight(Head(events)) \in Nat
    BY DEF Weight
  <2>5. Weigh(events') = Weigh(Tail(events)) + Weight(s) /\ Load(workQueue') = Load(workQueue)
    BY <1>3, <2>1
  <2> QED
    BY <1>1, <1>3, <1>4, <2>3, <2>4, <2>5 DEF Running
<1>6. ASSUME NEW s \in States, Bridge(s)
      PROVE  Running' <= Running
  <2>1. /\ Head(events) = s /\ UNCHANGED <<state, confirmTimer>> /\ Command(s)
        /\ syncing' = (syncing \/ s = "SYNC")
    BY <1>6, Zenon DEF Bridge
  <2>2. Load(workQueue') \in {Load(workQueue), Load(workQueue) + Toil(s)}
    <3>1. workQueue' = workQueue \/ (s \in Commands /\ workQueue' = Append(workQueue, s))
      BY <2>1, Zenon DEF Command
    <3> QED
      BY <1>1, <3>1, Weighs
  <2> DEFINE i == IF s = "IDLE" THEN 1 ELSE 0
             y == IF s = "SYNC" THEN 1 ELSE 0
  <2>3. Weigh(events') \in {Weigh(Tail(events)), Weigh(Tail(events)) + i}
    <3>1. events' = Tail(events) \/ (s = "IDLE" /\ events' = Append(Tail(events), "SYNC_REQUEST"))
      BY <1>1, <1>6, BridgedEvents
    <3>2. "SYNC_REQUEST" \in Events \cup States /\ Weight("SYNC_REQUEST") = 1
      BY DEF Events, Weight, Heavy
    <3> QED
      BY <1>3, <3>1, <3>2
  <2>4. Pending' <= Pending + y
    <3>1. /\ state' = state /\ (confirmTimer' <=> confirmTimer)
          /\ syncing' => syncing \/ s = "SYNC"
      BY <2>1, Zenon
    <3> QED
      BY <3>1 DEF Pending
  <2>5. Toil(s) \in Nat /\ i \in Nat /\ y \in Nat /\ i + y + Toil(s) <= Weight(s)
    BY DEF Weight, Toil, Heavy
  <2>6. Weigh(events) = Weigh(Tail(events)) + Weight(s) /\ Weight(s) \in Nat
    BY <1>3, <2>1 DEF Weight
  <2> HIDE DEF i, y
  <2> QED
    BY <1>1, <1>3, <1>4, <2>2, <2>3, <2>4, <2>5, <2>6 DEF Running
<1>7. CASE Ignore
  <2>1. events' = Tail(events) /\ UNCHANGED <<state, confirmTimer, syncing, workQueue>>
    BY <1>7, Zenon DEF Ignore
  <2>2. Weight(Head(events)) \in Nat /\ Pending' = Pending
    BY <2>1 DEF Weight, Pending
  <2> QED
    BY <1>1, <1>3, <1>4, <2>1, <2>2 DEF Running
<1> QED
  BY <1>5, <1>6, <1>7 DEF EventLoop

\* Every step pays but for a press, which may owe four events.
LEMMA StepPays ==
  ASSUME Basics, Basics', [Next]_vars
  PROVE  /\ Debts \in Nat /\ Debts' \in Nat /\ Len(events) <= Debts
         /\ Debts' <= Debts + 4 * (presses' - presses)
<1>1. /\ Staged /\ events \in Seq(Events \cup States) /\ workQueue \in Seq(Commands)
      /\ Weigh(events) \in Nat /\ Load(workQueue) \in Nat /\ presses \in Nat
      /\ Weigh(events') \in Nat /\ Load(workQueue') \in Nat /\ presses' \in Nat
      /\ Len(events) \in Nat /\ Len(events) <= Weigh(events)
  BY Weighs, AudioAssumption, LenProperties
    DEF Basics, Types, LoopTypes, QueueTypes, ButtonTypes, Sessions
<1>2. /\ Pending \in Nat /\ Due(worker) \in Nat /\ Held \in Nat
      /\ Pending' \in Nat /\ Due(worker') \in Nat /\ Held' \in Nat
  BY DEF Pending, Due, Held
<1>3. PICK w, o, l, u, h, p, w1, o1, l1, u1, h1, p1 \in Nat :
        /\ w = Weigh(events) /\ o = Pending /\ l = Load(workQueue) /\ u = Due(worker) /\ h = Held
        /\ p = presses /\ w1 = Weigh(events') /\ o1 = Pending' /\ l1 = Load(workQueue')
        /\ u1 = Due(worker') /\ h1 = Held' /\ p1 = presses'
  BY <1>1, <1>2, Zenon
<1>4. SUFFICES w1 + o1 + l1 + u1 + h1 <= w + o + l + u + h + 4 * (p1 - p)
  <2>1. Debts = w + o + l + u + h /\ Debts' = w1 + o1 + l1 + u1 + h1 /\ Len(events) <= w
    BY <1>1, <1>3 DEF Debts, Running
  <2>2. Debts \in Nat /\ Debts' \in Nat
    BY <2>1
  <2>3. Len(events) <= Debts
    BY <1>1, <2>1
  <2>4. p1 = presses' /\ p = presses
    BY <1>3
  <2> QED
    BY <2>1, <2>2, <2>3, <2>4
<1>5. \A x \in Events : Weigh(Append(events, x)) = w + Weight(x)
  BY <1>1, <1>3, Weighs
<1>6. CASE ConfirmTimer \/ SyncFinishes
  <2>1. /\ UNCHANGED <<state, stable, maxSent, age, presses, worker, tap, workQueue>>
        /\ \/ confirmTimer /\ ~confirmTimer' /\ syncing' = syncing
              /\ events' = Append(events, "CONFIRM_DONE")
           \/ syncing /\ ~syncing' /\ confirmTimer' = confirmTimer
              /\ events' = Append(events, "SYNC_DONE")
    BY <1>6, LoopFrame, Zenon DEF ConfirmTimer, SyncFinishes, Post, button
  <2>2. Pending = Pending' + 1 /\ Held' = Held
    BY <2>1 DEF Pending, Held
  <2>3. w1 = w + 1
    BY <1>3, <1>5, <2>1 DEF Weight, Heavy, Events
  <2>4. o = o1 + 1 /\ h1 = h /\ l1 = l /\ u1 = u /\ p1 = p
    BY <1>3, <2>1, <2>2
  <2> QED
    BY <2>3, <2>4
<1>7. CASE /\ Press \/ Release \/ Tap \/ TimePasses \/ Discard \/ RecordMax \/ ButtonCalls
           /\ ~Worker
  <2>1. worker' = worker
    <3>1. Next
      BY <1>7, Zenon DEF Next, ButtonTask
    <3> QED
      BY <1>1, <1>7, <3>1, WorkerFrame
  <2>2. UNCHANGED <<workQueue, state, confirmTimer, syncing>>
    BY <1>7, Zenon DEF Press, Release, Tap, TimePasses, Discard, RecordMax, ButtonCalls, Post, loop
  <2>3. o1 = o /\ u1 = u /\ l1 = l
    BY <1>3, <2>1, <2>2 DEF Pending
  <2>4. CASE Press
    <3>1. /\ ~stable /\ presses' = presses + 1 /\ tap' = tap
          /\ events' = Append(events, "REC_PRESS") \/ UNCHANGED <<events, age, maxSent>>
      BY <2>4, Zenon DEF Press, Post, loop, audioVars, tap
    <3>2. w1 = w + 2 \/ (w1 = w /\ UNCHANGED <<age, maxSent>>)
      BY <1>3, <1>5, <3>1 DEF Weight, Heavy, Events
    <3>3. Held' <= Held + 2
      <4>1. tap' # <<>> <=> tap # <<>>
        BY <3>1
      <4> QED
        BY <3>1, <4>1 DEF Held
    <3>4. w1 <= w + 2 /\ h1 <= h + 2 /\ p1 = p + 1
      BY <1>3, <3>1, <3>2, <3>3
    <3> QED
      BY <2>3, <3>4
  <2>5. CASE Release \/ Discard \/ RecordMax
    <3>1. Held = Held' + 1 /\ presses' = presses
      <4>1. /\ presses' = presses
            /\ \/ stable /\ ~stable' /\ UNCHANGED <<maxSent, age, tap>>
               \/ tap # <<>> /\ tap' = <<>> /\ UNCHANGED <<stable, maxSent, age>>
               \/ ~maxSent /\ age # "none" /\ maxSent' /\ UNCHANGED <<stable, tap>>
        <5>1. Discard => tap = TapDone /\ tap' = <<>>
          BY <1>1, DiscardMoves DEF TapMoves
        <5>2. tap # <<>> \/ ~Discard
          BY <5>1 DEF TapDone
        <5> QED
          BY <2>5, <5>1, <5>2, Zenon DEF Release, Discard, RecordMax, audioVars, button, tap
      <4> QED
        BY <4>1 DEF Held
    <3>2. w1 = w \/ w1 = w + 1
      <4>1. \/ events' = events \/ events' = Append(events, "REC_RELEASE")
            \/ events' = Append(events, "REC_DISCARD") \/ events' = Append(events, "RECORD_MAX")
        BY <2>5, Zenon DEF Release, Discard, RecordMax, Post, loop
      <4> QED
        BY <1>3, <1>5, <4>1 DEF Weight, Heavy, Events
    <3> QED
      BY <1>3, <2>3, <3>1, <3>2
  <2>6. CASE Tap \/ TimePasses \/ ButtonCalls
    <3>1. h1 <= h /\ w1 = w /\ p1 = p
      <4>1. UNCHANGED <<events, presses, maxSent>> /\ (age' # "none" => age # "none")
        BY <2>6, Zenon DEF Tap, TimePasses, ButtonCalls, loop, button
      <4>2. (stable /\ ~stable') \/ (stable' = stable /\ (tap = <<>> => tap' = <<>>))
        <5>1. Tap \/ TimePasses => (stable /\ ~stable') \/ (stable' = stable /\ tap' = tap)
          BY Zenon DEF Tap, TimePasses, audioVars, tap
        <5>2. ButtonCalls => stable' = stable /\ tap # <<>>
          BY Zenon DEF ButtonCalls, button, CaptureStop, CaptureStopped, Abort, Aborted, At, tap
        <5> QED
          BY <2>6, <5>1, <5>2
      <4> QED
        BY <1>3, <4>1, <4>2 DEF Held
    <3> QED
      BY <2>3, <3>1
  <2> QED
    BY <1>7, <2>4, <2>5, <2>6
<1>8. CASE Worker /\ ~WorkerTakes
  <2>1. UNCHANGED <<state, confirmTimer, syncing, stable, maxSent, age, presses, workQueue, tap>>
    <3>1. tap' = tap
      BY <1>1, <1>8, ButtonFrame
    <3> QED
      BY <1>8, <3>1, Zenon DEF Worker, Prepare, Enqueue, Failed, Check, WorkerCalls, Post, loop,
          button
  <2>2. o1 = o /\ h1 = h /\ l1 = l /\ p1 = p
    BY <1>3, <2>1 DEF Pending, Held
  <2>3. w1 + u1 <= w + u
    <3>1. CASE Enqueue
      <4>1. worker = ToEnqueue /\ worker' = <<>>
        BY <1>1, <3>1, EnqueueMoves DEF Moves
      <4>2. u = 2 /\ u1 = 0
        BY <1>3, <4>1 DEF Due, ToEnqueue, ToSet
      <4>3. events' = Append(events, "FINALIZE_DONE") \/ events' = Append(events, "ERROR")
        BY <3>1, Zenon DEF Enqueue, Post
      <4>4. w1 \in {w + 1, w + 2}
        BY <1>3, <1>5, <4>3 DEF Weight, Heavy, Events
      <4> QED
        BY <4>2, <4>4
    <3>2. CASE Failed
      <4>1. worker = ToFail /\ worker' = <<>>
        BY <1>1, <3>2, FailedMoves DEF Moves
      <4>2. u = 1 /\ u1 = 0
        BY <1>3, <4>1 DEF Due, ToFail, ToSet
      <4>3. events' = Append(events, "ERROR")
        BY <3>2, Zenon DEF Failed, Post
      <4>4. w1 = w + 1
        BY <1>3, <1>5, <4>3 DEF Weight, Heavy, Events
      <4> QED
        BY <4>2, <4>4
    <3>3. CASE ~Enqueue /\ ~Failed
      <4>1. events' = events
        BY <1>8, <3>3, Zenon DEF Worker, Prepare, Check, WorkerCalls, loop
      <4> QED
        BY <1>1, <1>3, <1>8, <4>1, DueFalls
    <3> QED
      BY <3>1, <3>2, <3>3
  <2> QED
    BY <2>2, <2>3
<1>9. CASE WorkerTakes
  <2>1. /\ workQueue # <<>> /\ workQueue' = Tail(workQueue) /\ worker = <<>>
        /\ UNCHANGED <<state, events, confirmTimer, syncing, stable, maxSent, age, presses>>
    BY <1>9, Zenon DEF WorkerTakes, loop, button, worker
  <2>2. tap' = tap /\ Due(worker') = Toil(Head(workQueue)) /\ Due(worker) = 0
    <3>1. Due(ToPrepare) = 1 /\ Due(ToStop) = 2 /\ Due(<<>>) = 0
      BY DEF Due, ToPrepare, ToStop, ToSet
    <3> QED
      BY <1>1, <1>9, <2>1, <3>1, TakesMoves DEF Moves, Toil
  <2>3. l = l1 + u1 /\ u = 0
    BY <1>1, <1>3, <2>1, <2>2, Weighs
  <2>4. o1 = o /\ h1 = h /\ w1 = w /\ p1 = p
    BY <1>3, <2>1, <2>2 DEF Pending, Held
  <2> QED
    BY <2>3, <2>4
<1>10. CASE AudioTask \/ WriterTask \/ UNCHANGED vars
  <2>1. UNCHANGED <<state, events, confirmTimer, syncing, stable, maxSent, age, presses, workQueue,
                   worker, tap>>
    BY <1>10, TaskSteps, Zenon DEF AudioTask, WriterTask, loop, button, vars, audioVars, worker,
      tap
  <2>2. o1 = o /\ h1 = h /\ w1 = w /\ p1 = p /\ l1 = l /\ u1 = u
    BY <1>3, <2>1 DEF Pending, Held
  <2> QED
    BY <2>2
<1>11. CASE EventLoop
  <2>1. UNCHANGED <<worker, tap, age, presses, stable, maxSent>>
    BY <1>11, LoopFrame, Zenon DEF EventLoop, Transition, Bridge, Ignore, button
  <2>2. u1 = u /\ h1 = h /\ p1 = p
    BY <1>3, <2>1 DEF Held
  <2>3. w1 + o1 + l1 <= w + o + l
    BY <1>3, <1>11, LoopPays DEF Running
  <2> QED
    BY <2>2, <2>3
<1> QED
  BY <1>6, <1>7, <1>8, <1>9, <1>10, <1>11, Zenon DEF Next, ButtonTask

\* An empty queue owes nothing.
LEMMA NothingWeighs == Weigh(<<>>) = 0 /\ Load(<<>>) = 0
<1>1. \A A : {i \in DOMAIN <<>> : <<>>[i] \in A} = {}
  OBVIOUS
<1> QED
  BY <1>1, FS_EmptySet DEF Weigh, Load, Tally

\* At boot three events at most are owed.
LEMMA DebtsInit == Init => Debts <= 3 /\ presses = 0
<1> SUFFICES ASSUME Init PROVE Debts <= 3 /\ presses = 0
  OBVIOUS
<1>1. PICK boot \in Boots : events = <<boot>>
  BY Zenon DEF Init
<1>2. boot \in Events
  BY RecAssumption DEF Events
<1>3. Weigh(events) = Weight(boot) /\ Weight(boot) \in 1 .. 2
  <2>1. <<>> \in Seq(Events) /\ events = Append(<<>>, boot) /\ Weight(boot) \in 1 .. 2
    BY <1>1 DEF Weight
  <2>2. Weigh(Append(<<>>, boot)) = Weigh(<<>>) + Weight(boot)
    BY <1>2, <2>1, Weighs
  <2> QED
    BY NothingWeighs, <2>1, <2>2
<1>4. /\ workQueue = <<>> /\ worker = <<>> /\ tap = <<>> /\ state = "BOOT" /\ presses = 0
      /\ ~confirmTimer /\ ~syncing /\ age = "none"
  BY DEF Init, AudioInit, worker, tap, Tasks
<1>5. Pending = 0 /\ Due(worker) = 0 /\ Load(workQueue) = 0
  BY NothingWeighs, <1>4 DEF Pending, Due, ToSet
<1>6. Held \in 0 .. 1
  BY <1>4 DEF Held
<1> QED
  BY <1>3, <1>4, <1>5, <1>6 DEF Debts, Running

\* The loop never feeds itself: what waits in its queue, and all that this may still lead to, grows
\* by nothing but a press of the button, and then by four at most.
THEOREM OnlyPressesOwe == Spec => [][Debts' <= Debts + 4 * (presses' - presses)]_vars
<1>1. Basics /\ Basics' /\ [Next]_vars => [Debts' <= Debts + 4 * (presses' - presses)]_vars
  BY StepPays
<1> QED
  BY BasicsInit, BasicsStep, <1>1, PTL DEF Spec

\* So what is owed, and what waits, stays under the line the presses draw.
LEMMA DebtsBounded ==
  ASSUME NEW n \in Nat, Basics, Debts <= 4 * presses + 5 - n, [Next]_vars
  PROVE  /\ Basics' /\ Debts' <= 4 * presses' + 5 - n
         /\ Len(events) <= 4 * presses + 5 - n
<1>1. Basics' /\ presses \in Nat /\ presses' \in Nat /\ Len(events) \in Nat
  BY BasicsStep, AudioAssumption, LenProperties
    DEF Basics, Types, LoopTypes, ButtonTypes, Sessions
<1>2. /\ Debts \in Nat /\ Debts' \in Nat /\ Len(events) <= Debts
      /\ Debts' <= Debts + 4 * (presses' - presses)
  BY <1>1, StepPays
<1>3. \A a, b, c, d, e \in Nat :
        a <= 4 * b + 5 - n /\ c <= a + 4 * (d - b) /\ e <= a
          => c <= 4 * d + 5 - n /\ e <= 4 * b + 5 - n
  OBVIOUS
<1> QED
  BY <1>1, <1>2, <1>3

\* The events that wait are bounded by the presses.
THEOREM LoopBacklog == Spec => [](Len(events) <= 4 * presses + 3)
<1> DEFINE Inv == Basics /\ Debts <= 4 * presses + 3
<1>1. Init => Inv
  BY BasicsInit, DebtsInit
<1>2. ASSUME Inv, [Next]_vars PROVE Inv' /\ Len(events) <= 4 * presses + 3
  <2>1. presses \in Nat /\ presses' \in Nat
    BY <1>2, BasicsStep, AudioAssumption DEF Basics, Types, ButtonTypes, Sessions
  <2>2. 4 * presses + 5 - 2 = 4 * presses + 3 /\ 4 * presses' + 5 - 2 = 4 * presses' + 3
    BY <2>1
  <2> QED
    BY <1>2, <2>2, DebtsBounded
<1> QED
  BY <1>1, <1>2, PTL DEF Spec

\* state_machine.c:109 and app_main.c:114 post to the queue of their own loop.  However long the
\* run, there is room while four events for each press since a quiet moment, and five, fit.
THEOREM LoopHasItsRoom ==
  ASSUME NEW n \in Nat
  PROVE  Spec => []((Quiet /\ presses = n)
                      => [](4 * (presses - n) + 5 <= EventCap => LoopHasRoom))
<1> DEFINE J == Basics /\ Debts <= 4 * presses + 5 - 4 * n
<1>1. ASSUME Basics, Quiet, presses = n PROVE J
  <2>1. Weigh(events) = 0 /\ Load(workQueue) = 0 /\ Due(worker) = 0
    BY <1>1, NothingWeighs DEF Quiet, Tasks, worker, Due, ToSet
  <2>2. Pending \in 0 .. 3 /\ Held \in 0 .. 2
    BY <1>1 DEF Quiet, Tasks, tap, Pending, Held
  <2> QED
    BY <1>1, <2>1, <2>2 DEF Debts, Running
<1>2. ASSUME J, [Next]_vars PROVE J' /\ (4 * (presses - n) + 5 <= EventCap => LoopHasRoom)
  <2>1. presses \in Nat /\ Len(events) \in Nat /\ EventCap \in Nat /\ 4 * n \in Nat
    BY <1>2, AudioAssumption, RecAssumption, LenProperties
      DEF Basics, Types, LoopTypes, ButtonTypes, Sessions
  <2>2. J' /\ Len(events) <= 4 * presses + 5 - 4 * n
    BY <1>2, <2>1, DebtsBounded
  <2> QED
    BY <2>1, <2>2 DEF LoopHasRoom
<1> QED
  BY BasicsInit, BasicsStep, <1>1, <1>2, PTL DEF Spec
=============================================================================
