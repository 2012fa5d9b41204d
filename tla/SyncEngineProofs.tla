-------------------------- MODULE SyncEngineProofs --------------------------
(***************************************************************************)
(* The safety properties of SyncEngine, for any number of captures and any *)
(* limits.                                                                 *)
(***************************************************************************)
EXTENDS SyncEngine, FiniteSetTheorems, TLAPS

-----------------------------------------------------------------------------
(* Type correctness.                                                       *)

\* queue_init counts finitely many jobs.
LEMMA PendingCountType == Cardinality(Pending) \in Nat
<1>1. Pending \subseteq Captures
  BY DEF Pending, InState
<1>2. IsFiniteSet(Pending)
  BY <1>1, QueueAssumption, FS_Subset DEF QueueAssumption
<1> QED
  BY <1>2, FS_CardinalityType

\* The backoff table after a reset.
LEMMA NoRetriesType == NoRetries \in [Captures -> {"none", "waiting", "ready"}]
BY DEF NoRetries

\* A reset that leaves the card well-typed leaves everything well-typed.
LEMMA ResetType ==
  ASSUME TypeOK, ResetVolatile, QueueTypeOK'
  PROVE  TypeOK'
<1>1. app' \in AppStates /\ pc' \in PCs /\ answer' \in Answers /\ syncRequest' \in BOOLEAN
  BY DEF ResetVolatile, AppStates, PCs, Answers
<1>2. capture' = {} /\ todo' = {} /\ current' = {} /\ crashes' \in Nat
  BY DEF ResetVolatile, TypeOK
<1>3. retry' \in [Captures -> {"none", "waiting", "ready"}]
  BY NoRetriesType DEF ResetVolatile
<1>4. hub' \in [Captures -> HubStates] /\ faults' \in Nat
  BY DEF ResetVolatile, TypeOK
<1> QED
  BY <1>1, <1>2, <1>3, <1>4 DEF TypeOK

\* The first power-on is well-typed.
LEMMA InitType == Init => TypeOK
<1> SUFFICES ASSUME Init
             PROVE  TypeOK
  OBVIOUS
<1>1. QueueTypeOK
  BY DEF Init, QueueInit, QueueTypeOK, Places, JobStates, Contents
<1>2. hub \in [Captures -> HubStates]
  BY DEF Init, HubStates
<1> QED
  BY <1>1, <1>2, NoRetriesType DEF Init, TypeOK, AppStates, PCs, Answers

\* Every variable keeps its type through every step: the counters of queue.c,
\* its hint above all, never leave the naturals.
THEOREM TypeCorrect == Spec => []TypeOK
<1>1. Init => TypeOK
  BY InitType
<1>2. TypeOK /\ [Next]_vars => TypeOK'
  <2> SUFFICES ASSUME TypeOK, [Next]_vars
               PROVE  TypeOK'
    OBVIOUS
  <2> USE DEF TypeOK, QueueTypeOK, Places, JobStates, Contents, AppStates, PCs, Answers,
              HubStates, queueVars, card, ramVars, syncVars, shell
  <2>1. CASE PowerOn
    BY <2>1 DEF PowerOn
  <2>2. CASE FinishBoot
    <3>1. hint' \in Nat
      BY <2>2, PendingCountType DEF FinishBoot, QueueInitRam
    <3>2. ram' \in SUBSET Captures
      BY <2>2 DEF FinishBoot, QueueInitRam, Pending, InState
    <3>3. seq' \in Nat
      BY <2>2 DEF FinishBoot, QueueInitRam, Seqs, UsedNums
    <3> QED
      BY <2>2, <3>1, <3>2, <3>3 DEF FinishBoot, QueueInitRam
  <2>3. ASSUME NEW c \in Captures, JournalRecover(c)
        PROVE  TypeOK'
    BY <2>3 DEF JournalRecover, RecoverStuck, WriteJob
  <2>4. ASSUME NEW c \in Captures, StartCapture(c)
        PROVE  TypeOK'
    <3>1. Seqs \subseteq Nat
      BY DEF Seqs, UsedNums
    <3>2. seq' \in Nat /\ num' \in [Captures -> Nat]
      BY <2>4, <3>1 DEF StartCapture, PrepareCapture
    <3> QED
      BY <2>4, <3>2 DEF StartCapture, PrepareCapture
  <2>5. ASSUME NEW c \in Captures, FinishCapture(c)
        PROVE  TypeOK'
    BY <2>5 DEF FinishCapture, Enqueue, WriteJob, RamAdd
  <2>6. ASSUME NEW c \in Captures, AbandonCapture(c)
        PROVE  TypeOK'
    BY <2>6 DEF AbandonCapture
  <2>7. CASE StartSync
    BY <2>7 DEF StartSync
  <2>8. CASE Snapshot
    BY <2>8 DEF Snapshot, Listed, Pending, InState
  <2>9. CASE Connected \/ NotConnected
    BY <2>9 DEF Connected, NotConnected
  <2>10. ASSUME NEW c \in Captures, SkipJob(c)
         PROVE  TypeOK'
    BY <2>10 DEF SkipJob
  <2>11. ASSUME NEW c \in Captures, StartUpload(c)
         PROVE  TypeOK'
    BY <2>11 DEF StartUpload, Mark, WriteJob
  <2>12. ASSUME NEW c \in Captures, Post(c)
         PROVE  TypeOK'
    BY <2>12 DEF Post, Ingest
  <2>13. ASSUME NEW c \in Captures, UploadResult(c)
         PROVE  TypeOK'
    <3>1. CASE UploadOk(c)
      BY <2>13, <3>1 DEF UploadResult, UploadOk, MarkUploaded, WriteJob
    <3>2. CASE UploadGivenUp(c)
      BY <2>13, <3>2 DEF UploadResult, UploadGivenUp, Mark, WriteJob
    <3>3. CASE UploadRetried(c)
      BY <2>13, <3>3 DEF UploadResult, UploadRetried, Mark, WriteJob
    <3> QED
      BY <2>13, <3>1, <3>2, <3>3 DEF UploadResult
  <2>14. CASE UploadsDone
    BY <2>14 DEF UploadsDone, Listed, Pollable, AwaitingHub, InState
  <2>15. ASSUME NEW c \in Captures, PollFails(c)
         PROVE  TypeOK'
    BY <2>15 DEF PollFails
  <2>16. ASSUME NEW c \in Captures, PollDone(c)
         PROVE  TypeOK'
    BY <2>16 DEF PollDone, Mark, WriteJob
  <2>17. ASSUME NEW c \in Captures, PollNotDone(c)
         PROVE  TypeOK'
    BY <2>17 DEF PollNotDone, Mark, WriteJob
  <2>18. ASSUME NEW c \in Captures, CompleteWav(c) \/ CompleteJob(c)
         PROVE  TypeOK'
    BY <2>18 DEF CompleteWav, CompleteJob, MoveWav, MoveJob
  <2>19. CASE PollsDone \/ SyncDone \/ DrainAgain
    BY <2>19 DEF PollsDone, SyncDone, DrainAgain
  <2>20. CASE SleepBackoff
    BY <2>20 DEF SleepBackoff
  <2>21. ASSUME NEW c \in Captures, BackoffElapses(c)
         PROVE  TypeOK'
    BY <2>21 DEF BackoffElapses
  <2>22. ASSUME NEW c \in Captures, HubProcesses(c)
         PROVE  TypeOK'
    BY <2>22 DEF HubProcesses
  <2>23. ASSUME NEW c \in Captures, CrashWhileWriting(c)
         PROVE  TypeOK'
    <3>1. QueueTypeOK'
      BY <2>23 DEF CrashWhileWriting, TornWrite, ResetVolatile, RamLost
    <3> QED
      BY <2>23, <3>1, ResetType DEF CrashWhileWriting
  <2>24. CASE Crash
    <3>1. QueueTypeOK'
      BY <2>24 DEF Crash, ResetVolatile, RamLost
    <3> QED
      BY <2>24, <3>1, ResetType DEF Crash
  <2>25. CASE UNCHANGED vars
    BY <2>25 DEF vars
  <2> QED
    BY <2>1, <2>2, <2>3, <2>4, <2>5, <2>6, <2>7, <2>8, <2>9, <2>10, <2>11, <2>12, <2>13,
       <2>14, <2>15, <2>16, <2>17, <2>18, <2>19, <2>20, <2>21, <2>22, <2>23, <2>24, <2>25
    DEF Next, BootStep, EndCapture, SyncStep
<1> QED
  BY <1>1, <1>2, PTL DEF Spec

-----------------------------------------------------------------------------
(* The inductive invariant.                                                *)

\* The steps that only move the sync task or the application along.
Quiet ==
  \/ PowerOn \/ StartSync \/ Snapshot \/ Connected \/ NotConnected
  \/ UploadsDone \/ PollsDone \/ SyncDone \/ DrainAgain
  \/ \E c \in Captures : SkipJob(c) \/ PollFails(c)

\* They leave the card, the hub and the backoff slots alone.
LEMMA QuietFrame ==
  ASSUME Quiet
  PROVE  UNCHANGED <<wav, job, state, attempts, hasRecId, num, seq, capture, current, answer,
                     retry, hub, crashes>>
BY DEF Quiet, PowerOn, StartSync, Snapshot, Connected, NotConnected, UploadsDone, PollsDone,
       SyncDone, DrainAgain, SkipJob, PollFails, queueVars, card, ramVars, syncVars, shell

\* So only what the control state says has to be looked at again.
LEMMA QuietPreserves ==
  ASSUME IInv, TypeOK', Quiet
  PROVE  IInv'
<1> USE QuietFrame
<1>1. Control' /\ InHand' /\ ToPoll' /\ AttemptLeft'
  <2> USE DEF Control, InHand, ToPoll, AwaitingHub, InState, AttemptLeft, IInv, TypeOK,
              QueueTypeOK, syncVars, shell
  <2>1. CASE PowerOn
    BY <2>1 DEF PowerOn
  <2>2. CASE StartSync
    BY <2>2 DEF StartSync
  <2>3. CASE Snapshot
    BY <2>3 DEF Snapshot
  <2>4. CASE Connected \/ NotConnected
    BY <2>4 DEF Connected, NotConnected
  <2>5. CASE UploadsDone
    BY <2>5 DEF UploadsDone, Listed, Pollable
  <2>6. CASE PollsDone \/ SyncDone \/ DrainAgain
    BY <2>6 DEF PollsDone, SyncDone, DrainAgain
  <2>7. CASE \E c \in Captures : SkipJob(c) \/ PollFails(c)
    BY <2>7 DEF SkipJob, PollFails
  <2> QED
    BY <2>1, <2>2, <2>3, <2>4, <2>5, <2>6, <2>7 DEF Quiet
<1>2. HubHasUploaded' /\ NoCaptureLost' /\ AttemptsBounded' /\ BackoffIsForRetry'
      /\ SeqCoversNames' /\ DistinctNames'
  BY DEF HubHasUploaded, NoCaptureLost, AttemptsBounded, BackoffIsForRetry, Backoffs,
         SeqCoversNames, DistinctNames, InQueueDir, IInv
<1>3. NotYetQueued'
  <2>1. app' \in {"off", "boot"} => app \in {"off", "boot"}
    BY DEF Quiet, PowerOn, StartSync, Snapshot, Connected, NotConnected, UploadsDone, PollsDone,
           SyncDone, DrainAgain, SkipJob, PollFails, shell
  <2> QED
    BY <2>1 DEF NotYetQueued, IInv
<1> QED
  BY <1>1, <1>2, <1>3 DEF IInv

\* queue_init reads the card and leaves it alone; the number it finds covers every name.
LEMMA FinishBootPreserves ==
  ASSUME IInv, TypeOK', FinishBoot
  PROVE  IInv'
<1> USE DEF queueVars, card, ramVars, syncVars, shell
<1>1. SeqCoversNames'
  BY DEF FinishBoot, QueueInitRam, SeqCoversNames, InQueueDir, ScanMaxSeq, UsedNums,
         Seqs, IInv, TypeOK, QueueTypeOK
<1>2. Control' /\ NotYetQueued' /\ InHand' /\ ToPoll' /\ HubHasUploaded' /\
      NoCaptureLost' /\ AttemptsBounded' /\ AttemptLeft' /\ BackoffIsForRetry' /\
      DistinctNames'
  BY SyncAssumption DEF FinishBoot, QueueInitRam, Control, NotYetQueued, InHand,
                        ToPoll, HubHasUploaded, NoCaptureLost, AttemptsBounded,
                        AttemptLeft, BackoffIsForRetry, DistinctNames, AwaitingHub,
                        InState, Backoffs, InQueueDir, IInv, TypeOK, QueueTypeOK
<1> QED
  BY <1>1, <1>2 DEF IInv

\* An interrupted job goes back to queued while no task is at work, and the reset that
\* interrupted it has paid for the attempt.
LEMMA JournalRecoverPreserves ==
  ASSUME IInv, TypeOK', NEW c \in Captures, JournalRecover(c)
  PROVE  IInv'
<1> USE DEF queueVars, card, ramVars, syncVars, shell
<1>1. InHand'
  BY DEF JournalRecover, RecoverStuck, WriteJob, Stuck, InState, InHand, Control,
         IInv, TypeOK, QueueTypeOK
<1>2. ToPoll'
  BY DEF JournalRecover, RecoverStuck, WriteJob, Stuck, InState, ToPoll, AwaitingHub,
         Control, IInv, TypeOK, QueueTypeOK
<1>3. HubHasUploaded'
  BY DEF JournalRecover, RecoverStuck, WriteJob, Stuck, InState, HubHasUploaded, IInv,
         TypeOK, QueueTypeOK
<1>4. AttemptLeft'
  BY SyncAssumption DEF JournalRecover, RecoverStuck, WriteJob, Stuck, InState,
                        AttemptLeft, IInv, TypeOK, QueueTypeOK
<1>5. BackoffIsForRetry'
  BY DEF JournalRecover, RecoverStuck, WriteJob, Stuck, InState, BackoffIsForRetry,
         Backoffs, NotYetQueued, IInv, TypeOK, QueueTypeOK
<1>6. Control' /\ NotYetQueued' /\ NoCaptureLost' /\ AttemptsBounded' /\
      SeqCoversNames' /\ DistinctNames'
  BY SyncAssumption DEF JournalRecover, RecoverStuck, WriteJob, Stuck, InState,
                        Control, NotYetQueued, NoCaptureLost, AttemptsBounded,
                        SeqCoversNames, DistinctNames, InQueueDir, IInv, TypeOK,
                        QueueTypeOK
<1> QED
  BY <1>1, <1>2, <1>3, <1>4, <1>5, <1>6 DEF IInv

\* The new number is above every number in use, whether it is taken from s_seq or from
\* a scan of the card.
LEMMA StartCapturePreserves ==
  ASSUME IInv, TypeOK', NEW c \in Captures, StartCapture(c)
  PROVE  IInv'
<1> USE DEF queueVars, card, ramVars, syncVars, shell
<1>1. PICK top \in Seqs \cup {seq} :
        /\ IF seq = 0 THEN top \in Seqs /\ ScanMaxSeq(top) ELSE top = seq
        /\ seq' = top + 1
        /\ num' = [num EXCEPT ![c] = top + 1]
  BY DEF StartCapture, PrepareCapture
<1>2. top \in Nat
  BY <1>1 DEF IInv, TypeOK, QueueTypeOK, Seqs, UsedNums
<1>3. \A d \in Captures : InQueueDir(d) => num[d] <= top
  <2>1. CASE seq = 0
    BY <1>1, <2>1 DEF ScanMaxSeq, UsedNums, InQueueDir
  <2>2. CASE seq # 0
    BY <1>1, <2>2 DEF IInv, SeqCoversNames
  <2> QED
    BY <2>1, <2>2
<1>4. num'[c] = top + 1 /\ \A d \in Captures \ {c} : num'[d] = num[d]
  BY <1>1 DEF IInv, TypeOK, QueueTypeOK
<1>5. /\ wav' = [wav EXCEPT ![c] = "queue"]
      /\ job' = job
      /\ \A d \in Captures \ {c} : InQueueDir(d)' => InQueueDir(d)
  BY DEF StartCapture, PrepareCapture, InQueueDir, IInv, TypeOK, QueueTypeOK
<1>6. SeqCoversNames'
  BY <1>1, <1>2, <1>3, <1>4, <1>5 DEF SeqCoversNames, IInv, TypeOK, QueueTypeOK
<1>7. DistinctNames'
  <2> SUFFICES ASSUME NEW d \in Captures, NEW e \in Captures,
                      d # e, InQueueDir(d)', InQueueDir(e)'
               PROVE  num'[d] # num'[e]
    BY DEF DistinctNames
  <2>1. CASE d # c /\ e # c
    BY <2>1, <1>4, <1>5 DEF IInv, DistinctNames
  <2>2. CASE d = c
    BY <2>2, <1>2, <1>3, <1>4, <1>5 DEF IInv, TypeOK, QueueTypeOK
  <2>3. CASE e = c
    BY <2>3, <1>2, <1>3, <1>4, <1>5 DEF IInv, TypeOK, QueueTypeOK
  <2> QED
    BY <2>1, <2>2, <2>3
<1>8. NotYetQueued'
  <2>1. job[c] = "none"
    BY DEF StartCapture, IInv, NotYetQueued
  <2>2. capture' = {c} /\ app' = "recording" /\ UNCHANGED <<state, attempts, hub>>
    BY DEF StartCapture, PrepareCapture
  <2>3. num'[c] # 0 /\ wav'[c] = "queue"
    BY <1>2, <1>4, <1>5 DEF IInv, TypeOK, QueueTypeOK
  <2> QED
    BY <1>4, <1>5, <2>1, <2>2, <2>3 DEF IInv, NotYetQueued
<1>9. NoCaptureLost'
  BY DEF StartCapture, PrepareCapture, NoCaptureLost, IInv, TypeOK, QueueTypeOK
<1>10. Control' /\ InHand' /\ ToPoll' /\ HubHasUploaded' /\ AttemptsBounded'
       /\ AttemptLeft' /\ BackoffIsForRetry'
  BY SyncAssumption DEF StartCapture, PrepareCapture, Control, InHand, ToPoll, HubHasUploaded,
       AttemptsBounded, AttemptLeft, BackoffIsForRetry, Backoffs, AwaitingHub, InState,
       IInv, TypeOK, QueueTypeOK
<1> QED
  BY <1>6, <1>7, <1>8, <1>9, <1>10 DEF IInv

\* The new .job has a recording, a number and all its attempts.
LEMMA FinishCapturePreserves ==
  ASSUME IInv, TypeOK', NEW c \in Captures, FinishCapture(c)
  PROVE  IInv'
<1> USE DEF queueVars, card, ramVars, syncVars, shell
<1>1. NotYetQueued'
  BY DEF FinishCapture, Enqueue, WriteJob, NotYetQueued, IInv, TypeOK, QueueTypeOK
<1>2. InHand'
  BY DEF FinishCapture, Enqueue, WriteJob, InHand, Control, IInv, TypeOK, QueueTypeOK
<1>3. ToPoll'
  BY DEF FinishCapture, Enqueue, WriteJob, ToPoll, AwaitingHub, InState, Control,
         IInv, TypeOK, QueueTypeOK
<1>4. HubHasUploaded'
  BY DEF FinishCapture, Enqueue, WriteJob, HubHasUploaded, IInv, TypeOK, QueueTypeOK
<1>5. NoCaptureLost'
  BY DEF FinishCapture, Enqueue, WriteJob, NoCaptureLost, IInv, TypeOK, QueueTypeOK
<1>6. AttemptLeft'
  BY SyncAssumption DEF FinishCapture, Enqueue, WriteJob, AttemptLeft, IInv, TypeOK,
                        QueueTypeOK
<1>7. BackoffIsForRetry'
  BY DEF FinishCapture, Enqueue, WriteJob, BackoffIsForRetry, Backoffs, NotYetQueued,
         IInv, TypeOK, QueueTypeOK
<1>8. Control' /\ AttemptsBounded' /\ SeqCoversNames' /\ DistinctNames'
  BY SyncAssumption DEF FinishCapture, Enqueue, WriteJob, Control, AttemptsBounded,
                        SeqCoversNames, DistinctNames, InQueueDir, IInv, TypeOK,
                        QueueTypeOK
<1> QED
  BY <1>1, <1>2, <1>3, <1>4, <1>5, <1>6, <1>7, <1>8 DEF IInv

\* An abandoned capture has no .job to lose its recording.
LEMMA AbandonCapturePreserves ==
  ASSUME IInv, TypeOK', NEW c \in Captures, AbandonCapture(c)
  PROVE  IInv'
<1> USE DEF queueVars, card, ramVars, syncVars, shell
<1>1. NoCaptureLost'
  BY DEF AbandonCapture, NoCaptureLost, NotYetQueued, IInv, TypeOK, QueueTypeOK
<1>2. Control' /\ NotYetQueued' /\ InHand' /\ ToPoll' /\ HubHasUploaded' /\
      AttemptsBounded' /\ AttemptLeft' /\ BackoffIsForRetry' /\ SeqCoversNames' /\
      DistinctNames'
  BY SyncAssumption DEF AbandonCapture, Control, NotYetQueued, InHand, ToPoll,
                        HubHasUploaded, AttemptsBounded, AttemptLeft,
                        BackoffIsForRetry, SeqCoversNames, DistinctNames, AwaitingHub,
                        InState, Backoffs, InQueueDir, IInv, TypeOK, QueueTypeOK
<1> QED
  BY <1>1, <1>2 DEF IInv

\* The job in hand is pending, so it has an attempt left to spend.
LEMMA StartUploadPreserves ==
  ASSUME IInv, TypeOK', NEW c \in Captures, StartUpload(c)
  PROVE  IInv'
<1> USE DEF queueVars, card, ramVars, syncVars, shell
<1>1. InHand'
  BY DEF StartUpload, Eligible, Exhausted, Pending, InState, Mark, WriteJob, InHand,
         Found, Control, IInv, TypeOK, QueueTypeOK
<1>2. ToPoll'
  BY DEF StartUpload, Eligible, Exhausted, Pending, InState, Mark, WriteJob, ToPoll,
         AwaitingHub, IInv, TypeOK, QueueTypeOK
<1>3. HubHasUploaded'
  BY DEF StartUpload, Eligible, Exhausted, Pending, InState, Mark, WriteJob,
         HubHasUploaded, IInv, TypeOK, QueueTypeOK
<1>4. AttemptsBounded'
  BY SyncAssumption DEF StartUpload, Eligible, Exhausted, Pending, InState, Mark,
                        WriteJob, AttemptsBounded, AttemptLeft, IInv, TypeOK,
                        QueueTypeOK
<1>5. AttemptLeft'
  BY SyncAssumption DEF StartUpload, Eligible, Exhausted, Pending, InState, Mark,
                        WriteJob, AttemptLeft, Control, AttemptsBounded, IInv, TypeOK,
                        QueueTypeOK
<1>6. BackoffIsForRetry'
  BY DEF StartUpload, Eligible, Exhausted, Pending, InState, Mark, WriteJob,
         BackoffIsForRetry, Backoffs, IInv, TypeOK, QueueTypeOK
<1>7. Control' /\ NotYetQueued' /\ NoCaptureLost' /\ SeqCoversNames' /\ DistinctNames'
  BY DEF StartUpload, Eligible, Exhausted, Pending, InState, Mark, WriteJob, Control,
         NotYetQueued, NoCaptureLost, SeqCoversNames, DistinctNames, InQueueDir, IInv,
         TypeOK, QueueTypeOK
<1> QED
  BY <1>1, <1>2, <1>3, <1>4, <1>5, <1>6, <1>7 DEF IInv

\* An accepted upload is one the Hub has.
LEMMA PostPreserves ==
  ASSUME IInv, TypeOK', NEW c \in Captures, Post(c)
  PROVE  IInv'
<1> USE DEF queueVars, card, ramVars, syncVars, shell
<1>1. NotYetQueued'
  BY DEF Post, Ingest, NotYetQueued, InHand, IInv, TypeOK, QueueTypeOK
<1>2. InHand'
  BY DEF Post, Ingest, InHand, Control, IInv, TypeOK, QueueTypeOK
<1>3. HubHasUploaded'
  BY DEF Post, Ingest, HubHasUploaded, IInv, TypeOK, QueueTypeOK
<1>4. NoCaptureLost'
  BY DEF Post, Ingest, NoCaptureLost, IInv, TypeOK, QueueTypeOK
<1>5. Control' /\ ToPoll' /\ AttemptsBounded' /\ AttemptLeft' /\ BackoffIsForRetry' /\
      SeqCoversNames' /\ DistinctNames'
  BY SyncAssumption DEF Post, Ingest, Control, ToPoll, AttemptsBounded, AttemptLeft,
                        BackoffIsForRetry, SeqCoversNames, DistinctNames, AwaitingHub,
                        InState, Backoffs, InQueueDir, IInv, TypeOK, QueueTypeOK
<1> QED
  BY <1>1, <1>2, <1>3, <1>4, <1>5 DEF IInv

\* The accepted job is the one in hand, and the Hub has it.
LEMMA UploadOkPreserves ==
  ASSUME IInv, TypeOK', NEW c \in Captures, UploadResult(c), UploadOk(c)
  PROVE  IInv'
<1> USE DEF queueVars, card, ramVars, syncVars, shell
<1>1. NotYetQueued'
  BY DEF UploadResult, UploadOk, MarkUploaded, WriteJob, NotYetQueued, InHand, IInv,
         TypeOK, QueueTypeOK
<1>2. HubHasUploaded'
  BY DEF UploadResult, UploadOk, MarkUploaded, WriteJob, HubHasUploaded, InHand, IInv,
         TypeOK, QueueTypeOK
<1>3. AttemptLeft'
  BY SyncAssumption DEF UploadResult, UploadOk, MarkUploaded, WriteJob, AttemptLeft,
                        IInv, TypeOK, QueueTypeOK
<1>4. BackoffIsForRetry'
  BY DEF UploadResult, UploadOk, MarkUploaded, WriteJob, BackoffIsForRetry, Backoffs,
         IInv, TypeOK, QueueTypeOK
<1>5. Control' /\ InHand' /\ ToPoll' /\ NoCaptureLost' /\ AttemptsBounded' /\
      SeqCoversNames' /\ DistinctNames'
  BY SyncAssumption DEF UploadResult, UploadOk, MarkUploaded, WriteJob, Control,
                        InHand, ToPoll, NoCaptureLost, AttemptsBounded,
                        SeqCoversNames, DistinctNames, AwaitingHub, InState,
                        InQueueDir, IInv, TypeOK, QueueTypeOK
<1> QED
  BY <1>1, <1>2, <1>3, <1>4, <1>5 DEF IInv

\* A job given up has no backoff slot left.
LEMMA UploadGivenUpPreserves ==
  ASSUME IInv, TypeOK', NEW c \in Captures, UploadResult(c), UploadGivenUp(c)
  PROVE  IInv'
<1> USE DEF queueVars, card, ramVars, syncVars, shell
<1>1. NotYetQueued'
  BY DEF UploadResult, UploadGivenUp, Mark, WriteJob, NotYetQueued, InHand, IInv,
         TypeOK, QueueTypeOK
<1>2. HubHasUploaded'
  BY DEF UploadResult, UploadGivenUp, Mark, WriteJob, HubHasUploaded, IInv, TypeOK,
         QueueTypeOK
<1>3. AttemptLeft'
  BY SyncAssumption DEF UploadResult, UploadGivenUp, Mark, WriteJob, AttemptLeft,
                        IInv, TypeOK, QueueTypeOK
<1>4. BackoffIsForRetry'
  BY DEF UploadResult, UploadGivenUp, Mark, WriteJob, BackoffIsForRetry, Backoffs,
         IInv, TypeOK, QueueTypeOK
<1>5. Control' /\ InHand' /\ ToPoll' /\ NoCaptureLost' /\ AttemptsBounded' /\
      SeqCoversNames' /\ DistinctNames'
  BY SyncAssumption DEF UploadResult, UploadGivenUp, Mark, WriteJob, Control, InHand,
                        ToPoll, NoCaptureLost, AttemptsBounded, SeqCoversNames,
                        DistinctNames, AwaitingHub, InState, InQueueDir, IInv, TypeOK,
                        QueueTypeOK
<1> QED
  BY <1>1, <1>2, <1>3, <1>4, <1>5 DEF IInv

\* A job put back has spent an attempt and has one left.
LEMMA UploadRetriedPreserves ==
  ASSUME IInv, TypeOK', NEW c \in Captures, UploadResult(c), UploadRetried(c)
  PROVE  IInv'
<1> USE DEF queueVars, card, ramVars, syncVars, shell
<1>1. NotYetQueued'
  BY DEF UploadResult, UploadRetried, Mark, WriteJob, NotYetQueued, InHand, IInv,
         TypeOK, QueueTypeOK
<1>2. HubHasUploaded'
  BY DEF UploadResult, UploadRetried, Mark, WriteJob, HubHasUploaded, IInv, TypeOK,
         QueueTypeOK
<1>3. AttemptLeft'
  BY SyncAssumption DEF UploadResult, UploadRetried, Mark, WriteJob, AttemptLeft,
                        IInv, TypeOK, QueueTypeOK
<1>4. BackoffIsForRetry'
  BY SyncAssumption DEF UploadResult, UploadRetried, Mark, WriteJob,
                        BackoffIsForRetry, Backoffs, InHand, IInv, TypeOK, QueueTypeOK
<1>5. Control' /\ InHand' /\ ToPoll' /\ NoCaptureLost' /\ AttemptsBounded' /\
      SeqCoversNames' /\ DistinctNames'
  BY SyncAssumption DEF UploadResult, UploadRetried, Mark, WriteJob, Control, InHand,
                        ToPoll, NoCaptureLost, AttemptsBounded, SeqCoversNames,
                        DistinctNames, AwaitingHub, InState, InQueueDir, IInv, TypeOK,
                        QueueTypeOK
<1> QED
  BY <1>1, <1>2, <1>3, <1>4, <1>5 DEF IInv

\* A job is marked done on the Hub's word only.
LEMMA PollDonePreserves ==
  ASSUME IInv, TypeOK', NEW c \in Captures, PollDone(c)
  PROVE  IInv'
<1> USE DEF queueVars, card, ramVars, syncVars, shell
<1>1. InHand'
  BY DEF PollDone, Oldest, Mark, WriteJob, AwaitingHub, InState, InHand, Control,
         ToPoll, IInv, TypeOK, QueueTypeOK
<1>2. ToPoll'
  BY DEF PollDone, Oldest, Mark, WriteJob, AwaitingHub, InState, ToPoll, IInv, TypeOK,
         QueueTypeOK
<1>3. HubHasUploaded'
  BY DEF PollDone, Oldest, Mark, WriteJob, AwaitingHub, InState, HubHasUploaded, IInv,
         TypeOK, QueueTypeOK
<1>4. AttemptLeft'
  BY SyncAssumption DEF PollDone, Oldest, Mark, WriteJob, AwaitingHub, InState,
                        AttemptLeft, IInv, TypeOK, QueueTypeOK
<1>5. BackoffIsForRetry'
  BY DEF PollDone, Oldest, Mark, WriteJob, AwaitingHub, InState, BackoffIsForRetry,
         Backoffs, ToPoll, IInv, TypeOK, QueueTypeOK
<1>6. Control' /\ NotYetQueued' /\ NoCaptureLost' /\ AttemptsBounded' /\
      SeqCoversNames' /\ DistinctNames'
  BY SyncAssumption DEF PollDone, Oldest, Mark, WriteJob, AwaitingHub, InState,
                        Control, NotYetQueued, NoCaptureLost, AttemptsBounded,
                        SeqCoversNames, DistinctNames, InQueueDir, IInv, TypeOK,
                        QueueTypeOK
<1> QED
  BY <1>1, <1>2, <1>3, <1>4, <1>5, <1>6 DEF IInv

\* The jobs of a polling snapshot are at the Hub and wait for no retry.
LEMMA PollNotDonePreserves ==
  ASSUME IInv, TypeOK', NEW c \in Captures, PollNotDone(c)
  PROVE  IInv'
<1> USE DEF queueVars, card, ramVars, syncVars, shell
<1>1. ToPoll'
  BY DEF PollNotDone, Oldest, Mark, WriteJob, AwaitingHub, InState, ToPoll, IInv,
         TypeOK, QueueTypeOK
<1>2. HubHasUploaded'
  BY DEF PollNotDone, Oldest, Mark, WriteJob, AwaitingHub, InState, HubHasUploaded,
         IInv, TypeOK, QueueTypeOK
<1>3. AttemptLeft'
  BY SyncAssumption DEF PollNotDone, Oldest, Mark, WriteJob, AwaitingHub, InState,
                        AttemptLeft, IInv, TypeOK, QueueTypeOK
<1>4. BackoffIsForRetry'
  BY DEF PollNotDone, Oldest, Mark, WriteJob, AwaitingHub, InState, BackoffIsForRetry,
         Backoffs, ToPoll, IInv, TypeOK, QueueTypeOK
<1>5. Control' /\ NotYetQueued' /\ InHand' /\ NoCaptureLost' /\ AttemptsBounded' /\
      SeqCoversNames' /\ DistinctNames'
  BY SyncAssumption DEF PollNotDone, Oldest, Mark, WriteJob, AwaitingHub, InState,
                        Control, NotYetQueued, InHand, NoCaptureLost, AttemptsBounded,
                        SeqCoversNames, DistinctNames, InQueueDir, IInv, TypeOK,
                        QueueTypeOK
<1> QED
  BY <1>1, <1>2, <1>3, <1>4, <1>5 DEF IInv

\* The recording leaves /queue after the job is done.
LEMMA CompleteWavPreserves ==
  ASSUME IInv, TypeOK', NEW c \in Captures, CompleteWav(c)
  PROVE  IInv'
<1> USE DEF queueVars, card, ramVars, syncVars, shell
<1>1. NotYetQueued'
  BY DEF CompleteWav, MoveWav, NotYetQueued, InHand, Control, IInv, TypeOK,
         QueueTypeOK
<1>2. InHand'
  BY DEF CompleteWav, MoveWav, InHand, IInv, TypeOK, QueueTypeOK
<1>3. NoCaptureLost'
  BY DEF CompleteWav, MoveWav, NoCaptureLost, InHand, HubHasUploaded, IInv, TypeOK,
         QueueTypeOK
<1>4. Control' /\ ToPoll' /\ HubHasUploaded' /\ AttemptsBounded' /\ AttemptLeft' /\
      BackoffIsForRetry' /\ SeqCoversNames' /\ DistinctNames'
  BY SyncAssumption DEF CompleteWav, MoveWav, Control, ToPoll, HubHasUploaded,
                        AttemptsBounded, AttemptLeft, BackoffIsForRetry,
                        SeqCoversNames, DistinctNames, AwaitingHub, InState, Backoffs,
                        InQueueDir, IInv, TypeOK, QueueTypeOK
<1> QED
  BY <1>1, <1>2, <1>3, <1>4 DEF IInv

\* So does the .job.
LEMMA CompleteJobPreserves ==
  ASSUME IInv, TypeOK', NEW c \in Captures, CompleteJob(c)
  PROVE  IInv'
<1> USE DEF queueVars, card, ramVars, syncVars, shell
<1>1. NotYetQueued'
  BY DEF CompleteJob, MoveJob, NotYetQueued, InHand, Control, IInv, TypeOK,
         QueueTypeOK
<1>2. HubHasUploaded'
  BY DEF CompleteJob, MoveJob, HubHasUploaded, InHand, IInv, TypeOK, QueueTypeOK
<1>3. NoCaptureLost'
  BY DEF CompleteJob, MoveJob, NoCaptureLost, InHand, HubHasUploaded, IInv, TypeOK,
         QueueTypeOK
<1>4. Control' /\ InHand' /\ ToPoll' /\ AttemptsBounded' /\ AttemptLeft' /\
      BackoffIsForRetry' /\ SeqCoversNames' /\ DistinctNames'
  BY SyncAssumption DEF CompleteJob, MoveJob, Control, InHand, ToPoll,
                        AttemptsBounded, AttemptLeft, BackoffIsForRetry,
                        SeqCoversNames, DistinctNames, AwaitingHub, InState, Backoffs,
                        InQueueDir, IInv, TypeOK, QueueTypeOK
<1> QED
  BY <1>1, <1>2, <1>3, <1>4 DEF IInv

\* Sleeping makes slots due and sets none.
LEMMA SleepBackoffPreserves ==
  ASSUME IInv, TypeOK', SleepBackoff
  PROVE  IInv'
<1> USE DEF queueVars, card, ramVars, syncVars, shell
<1>1. BackoffIsForRetry'
  BY DEF SleepBackoff, Backoffs, BackoffIsForRetry, IInv, TypeOK, QueueTypeOK
<1>2. Control' /\ NotYetQueued' /\ InHand' /\ ToPoll' /\ HubHasUploaded' /\
      NoCaptureLost' /\ AttemptsBounded' /\ AttemptLeft' /\ SeqCoversNames' /\
      DistinctNames'
  BY SyncAssumption DEF SleepBackoff, Backoffs, Control, NotYetQueued, InHand, ToPoll,
                        HubHasUploaded, NoCaptureLost, AttemptsBounded, AttemptLeft,
                        SeqCoversNames, DistinctNames, AwaitingHub, InState,
                        InQueueDir, IInv, TypeOK, QueueTypeOK
<1> QED
  BY <1>1, <1>2 DEF IInv

\* So does the passing of time.
LEMMA BackoffElapsesPreserves ==
  ASSUME IInv, TypeOK', NEW c \in Captures, BackoffElapses(c)
  PROVE  IInv'
<1> USE DEF queueVars, card, ramVars, syncVars, shell
<1>1. BackoffIsForRetry'
  BY DEF BackoffElapses, BackoffIsForRetry, Backoffs, IInv, TypeOK, QueueTypeOK
<1>2. Control' /\ NotYetQueued' /\ InHand' /\ ToPoll' /\ HubHasUploaded' /\
      NoCaptureLost' /\ AttemptsBounded' /\ AttemptLeft' /\ SeqCoversNames' /\
      DistinctNames'
  BY SyncAssumption DEF BackoffElapses, Control, NotYetQueued, InHand, ToPoll,
                        HubHasUploaded, NoCaptureLost, AttemptsBounded, AttemptLeft,
                        SeqCoversNames, DistinctNames, AwaitingHub, InState,
                        InQueueDir, IInv, TypeOK, QueueTypeOK
<1> QED
  BY <1>1, <1>2 DEF IInv

\* The Hub never forgets a recording.
LEMMA HubProcessesPreserves ==
  ASSUME IInv, TypeOK', NEW c \in Captures, HubProcesses(c)
  PROVE  IInv'
<1> USE DEF queueVars, card, ramVars, syncVars, shell
<1>1. HubHasUploaded'
  BY DEF HubProcesses, HubHasUploaded, IInv, TypeOK, QueueTypeOK
<1>2. NoCaptureLost'
  BY DEF HubProcesses, NoCaptureLost, IInv, TypeOK, QueueTypeOK
<1>3. Control' /\ NotYetQueued' /\ InHand' /\ ToPoll' /\ AttemptsBounded' /\
      AttemptLeft' /\ BackoffIsForRetry' /\ SeqCoversNames' /\ DistinctNames'
  BY SyncAssumption DEF HubProcesses, Control, NotYetQueued, InHand, ToPoll,
                        AttemptsBounded, AttemptLeft, BackoffIsForRetry,
                        SeqCoversNames, DistinctNames, AwaitingHub, InState, Backoffs,
                        InQueueDir, IInv, TypeOK, QueueTypeOK
<1> QED
  BY <1>1, <1>2, <1>3 DEF IInv

\* A torn write loses the state of one job, never its recording, and only of a job
\* that some step was about to write.
LEMMA CrashWhileWritingPreserves ==
  ASSUME IInv, TypeOK', NEW c \in Captures, CrashWhileWriting(c)
  PROVE  IInv'
<1> USE DEF queueVars, card, ramVars, syncVars, shell
<1>1. NotYetQueued'
  BY DEF CrashWhileWriting, AboutToWrite, Oldest, Eligible, Pending, Stuck,
         AwaitingHub, InState, TornWrite, ResetVolatile, RamLost, NoRetries,
         NotYetQueued, InHand, ToPoll, Control, IInv, TypeOK, QueueTypeOK
<1>2. HubHasUploaded'
  BY DEF CrashWhileWriting, AboutToWrite, Oldest, Eligible, Pending, Stuck,
         AwaitingHub, InState, TornWrite, ResetVolatile, RamLost, NoRetries,
         HubHasUploaded, IInv, TypeOK, QueueTypeOK
<1>3. NoCaptureLost'
  BY DEF CrashWhileWriting, AboutToWrite, Oldest, Eligible, Pending, Stuck,
         AwaitingHub, InState, TornWrite, ResetVolatile, RamLost, NoRetries,
         NoCaptureLost, InHand, ToPoll, NotYetQueued, Control, IInv, TypeOK,
         QueueTypeOK
<1>4. AttemptsBounded'
  BY SyncAssumption DEF CrashWhileWriting, AboutToWrite, Oldest, Eligible, Pending,
                        Stuck, AwaitingHub, InState, TornWrite, ResetVolatile,
                        RamLost, NoRetries, AttemptsBounded, IInv, TypeOK, QueueTypeOK
<1>5. AttemptLeft'
  BY SyncAssumption DEF CrashWhileWriting, AboutToWrite, Oldest, Eligible, Pending,
                        Stuck, AwaitingHub, InState, TornWrite, ResetVolatile,
                        RamLost, NoRetries, AttemptLeft, AttemptsBounded, IInv,
                        TypeOK, QueueTypeOK
<1>6. BackoffIsForRetry'
  BY DEF CrashWhileWriting, AboutToWrite, Oldest, Eligible, Pending, Stuck,
         AwaitingHub, InState, TornWrite, ResetVolatile, RamLost, NoRetries,
         BackoffIsForRetry, Backoffs, IInv, TypeOK, QueueTypeOK
<1>7. SeqCoversNames'
  BY DEF CrashWhileWriting, AboutToWrite, Oldest, Eligible, Pending, Stuck,
         AwaitingHub, InState, TornWrite, ResetVolatile, RamLost, NoRetries,
         SeqCoversNames, InQueueDir, IInv, TypeOK, QueueTypeOK
<1>8. DistinctNames'
  BY DEF CrashWhileWriting, AboutToWrite, Oldest, Eligible, Pending, Stuck,
         AwaitingHub, InState, TornWrite, ResetVolatile, RamLost, NoRetries,
         DistinctNames, InQueueDir, InHand, ToPoll, Control, NotYetQueued, IInv,
         TypeOK, QueueTypeOK
<1>9. Control' /\ InHand' /\ ToPoll'
  BY DEF CrashWhileWriting, AboutToWrite, Oldest, Eligible, Pending, Stuck,
         AwaitingHub, InState, TornWrite, ResetVolatile, RamLost, NoRetries, Control,
         InHand, ToPoll, IInv, TypeOK, QueueTypeOK
<1> QED
  BY <1>1, <1>2, <1>3, <1>4, <1>5, <1>6, <1>7, <1>8, <1>9 DEF IInv

\* A reset forgets all that is not on the card and allows one more attempt.
LEMMA CrashPreserves ==
  ASSUME IInv, TypeOK', Crash
  PROVE  IInv'
<1> USE DEF queueVars, card, ramVars, syncVars, shell
<1>1. AttemptsBounded'
  BY SyncAssumption DEF Crash, ResetVolatile, RamLost, NoRetries, AttemptsBounded,
                        IInv, TypeOK, QueueTypeOK
<1>2. AttemptLeft'
  BY SyncAssumption DEF Crash, ResetVolatile, RamLost, NoRetries, AttemptLeft,
                        AttemptsBounded, IInv, TypeOK, QueueTypeOK
<1>3. Control' /\ NotYetQueued' /\ InHand' /\ ToPoll' /\ HubHasUploaded' /\
      NoCaptureLost' /\ BackoffIsForRetry' /\ SeqCoversNames' /\ DistinctNames'
  BY DEF Crash, ResetVolatile, RamLost, NoRetries, Control, NotYetQueued, InHand,
         ToPoll, HubHasUploaded, NoCaptureLost, BackoffIsForRetry, SeqCoversNames,
         DistinctNames, AwaitingHub, InState, Backoffs, InQueueDir, IInv, TypeOK,
         QueueTypeOK
<1> QED
  BY <1>1, <1>2, <1>3 DEF IInv

\* IInv is an invariant: it holds at power-on and each action keeps it.
LEMMA IInvHolds == Spec => []IInv
<1>1. Init => IInv
  <2> SUFFICES ASSUME Init
               PROVE  IInv
    OBVIOUS
  <2>1. TypeOK
    BY InitType
  <2>2. Control /\ NotYetQueued /\ InHand /\ ToPoll /\ SeqCoversNames /\ DistinctNames
    BY DEF Init, QueueInit, Control, NotYetQueued, InHand, ToPoll, SeqCoversNames,
           DistinctNames, InQueueDir
  <2>3. HubHasUploaded /\ NoCaptureLost
    BY DEF Init, QueueInit, HubHasUploaded, NoCaptureLost
  <2>4. AttemptsBounded /\ AttemptLeft
    BY SyncAssumption DEF Init, QueueInit, AttemptsBounded, AttemptLeft
  <2>5. BackoffIsForRetry
    BY DEF Init, QueueInit, NoRetries, BackoffIsForRetry, Backoffs
  <2> QED
    BY <2>1, <2>2, <2>3, <2>4, <2>5 DEF IInv
<1>2. IInv /\ TypeOK' /\ [Next]_vars => IInv'
  <2> SUFFICES ASSUME IInv, TypeOK', [Next]_vars
               PROVE  IInv'
    OBVIOUS
  <2>1. CASE Quiet
    BY <2>1, QuietPreserves
  <2>2. CASE FinishBoot
    BY <2>2, FinishBootPreserves
  <2>3. ASSUME NEW c \in Captures, JournalRecover(c)
        PROVE  IInv'
    BY <2>3, JournalRecoverPreserves
  <2>4. ASSUME NEW c \in Captures, StartCapture(c)
        PROVE  IInv'
    BY <2>4, StartCapturePreserves
  <2>5. ASSUME NEW c \in Captures, FinishCapture(c)
        PROVE  IInv'
    BY <2>5, FinishCapturePreserves
  <2>6. ASSUME NEW c \in Captures, AbandonCapture(c)
        PROVE  IInv'
    BY <2>6, AbandonCapturePreserves
  <2>7. ASSUME NEW c \in Captures, StartUpload(c)
        PROVE  IInv'
    BY <2>7, StartUploadPreserves
  <2>8. ASSUME NEW c \in Captures, Post(c)
        PROVE  IInv'
    BY <2>8, PostPreserves
  <2>9. ASSUME NEW c \in Captures, UploadResult(c)
        PROVE  IInv'
    BY <2>9, UploadOkPreserves, UploadGivenUpPreserves, UploadRetriedPreserves
       DEF UploadResult
  <2>10. ASSUME NEW c \in Captures, PollDone(c)
         PROVE  IInv'
    BY <2>10, PollDonePreserves
  <2>11. ASSUME NEW c \in Captures, PollNotDone(c)
         PROVE  IInv'
    BY <2>11, PollNotDonePreserves
  <2>12. ASSUME NEW c \in Captures, CompleteWav(c)
         PROVE  IInv'
    BY <2>12, CompleteWavPreserves
  <2>13. ASSUME NEW c \in Captures, CompleteJob(c)
         PROVE  IInv'
    BY <2>13, CompleteJobPreserves
  <2>14. CASE SleepBackoff
    BY <2>14, SleepBackoffPreserves
  <2>15. ASSUME NEW c \in Captures, BackoffElapses(c)
         PROVE  IInv'
    BY <2>15, BackoffElapsesPreserves
  <2>16. ASSUME NEW c \in Captures, HubProcesses(c)
         PROVE  IInv'
    BY <2>16, HubProcessesPreserves
  <2>17. ASSUME NEW c \in Captures, CrashWhileWriting(c)
         PROVE  IInv'
    BY <2>17, CrashWhileWritingPreserves
  <2>18. CASE Crash
    BY <2>18, CrashPreserves
  <2>19. CASE UNCHANGED vars
    BY <2>19 DEF vars, queueVars, card, ramVars, syncVars, IInv, TypeOK, QueueTypeOK,
       Control,
           NotYetQueued, InHand, ToPoll, AwaitingHub, InState, HubHasUploaded, NoCaptureLost,
           AttemptsBounded, AttemptLeft, BackoffIsForRetry, Backoffs, SeqCoversNames,
           DistinctNames, InQueueDir
  <2> QED
    BY <2>1, <2>2, <2>3, <2>4, <2>5, <2>6, <2>7, <2>8, <2>9, <2>10, <2>11, <2>12, <2>13,
       <2>14, <2>15, <2>16, <2>17, <2>18, <2>19
    DEF Quiet, Next, BootStep, EndCapture, SyncStep
<1> QED
  BY <1>1, <1>2, TypeCorrect, PTL DEF Spec

-----------------------------------------------------------------------------
(* The theorems.                                                           *)

\* No reset, no lost answer and no repeated upload loses a queued recording, and
\* neither of its files leaves /queue before the Hub is done with it
\* (sync_engine.c sync_engine_drain, queue.c queue_complete).
THEOREM NothingLost == Spec => []NoCaptureLost
<1>1. IInv => NoCaptureLost
  BY DEF IInv
<1> QED
  BY <1>1, IInvHolds, PTL

\* What a .job says of the Hub is true of the Hub (queue.c queue_mark_uploaded,
\* sync_engine.c poll_hub_jobs).
THEOREM UploadsAreReal == Spec => []HubHasUploaded
<1>1. IInv => HubHasUploaded
  BY DEF IInv
<1> QED
  BY <1>1, IInvHolds, PTL

\* A job is uploaded at most MaxAttempts times, and once more for each reset that
\* interrupts an upload (queue.c queue_mark, queue_recover_stuck_jobs).
THEOREM AttemptsLimited == Spec => []AttemptsBounded
<1>1. IInv => AttemptsBounded
  BY DEF IInv
<1> QED
  BY <1>1, IInvHolds, PTL

\* The sync task never waits for the backoff of a job that is not to be retried
\* (sync_engine.c retry_set, retry_clear).
THEOREM SleepsOnlyToRetry == Spec => []BackoffIsForRetry
<1>1. IInv => BackoffIsForRetry
  BY DEF IInv
<1> QED
  BY <1>1, IInvHolds, PTL

\* No recording is written over another one that is still in /queue (queue.c
\* scan_max_seq, queue_prepare_capture).
THEOREM NamesAreDistinct == Spec => []DistinctNames
<1>1. IInv => DistinctNames
  BY DEF IInv
<1> QED
  BY <1>1, IInvHolds, PTL

-----------------------------------------------------------------------------
(* What one step does to a capture, seen from outside.                     *)

DoneKept ==
  \A c \in Captures : job[c] # "none" /\ state[c] = "done" =>
    state'[c] = "done" /\ attempts'[c] = attempts[c]

Holds(c) == job[c] = "none" /\ job' = [job EXCEPT ![c] = "queue"] /\ hub' = hub
Accepts(c) ==
  job[c] = "queue" /\ hub[c] = "none" /\ hub' = [hub EXCEPT ![c] = "queued"] /\ job' = job
Resolves(c) ==
  /\ hub[c] = "queued"
  /\ \E outcome \in {"done", "error"} : hub' = [hub EXCEPT ![c] = outcome]
  /\ job' = job
Releases(c) ==
  job[c] = "queue" /\ hub[c] = "done" /\ job' = [job EXCEPT ![c] = "sent"] /\ hub' = hub

Effect ==
  \/ UNCHANGED <<job, hub>>
  \/ \E c \in Captures : Holds(c) \/ Accepts(c) \/ Resolves(c) \/ Releases(c)

\* A step leaves done jobs alone and does at most one of these things to one capture.
LEMMA StepEffect ==
  ASSUME IInv, [Next]_vars
  PROVE  DoneKept /\ Effect
<1> USE DEF DoneKept, Effect, queueVars, card, ramVars, syncVars, shell
<1>1. CASE Quiet
  BY <1>1, QuietFrame
<1>2. CASE FinishBoot
  BY <1>2 DEF FinishBoot, QueueInitRam, IInv, TypeOK, QueueTypeOK
<1>3. ASSUME NEW c \in Captures, JournalRecover(c)
      PROVE  DoneKept /\ Effect
  <2>1. DoneKept
    BY <1>3 DEF JournalRecover, RecoverStuck, WriteJob, Stuck, InState, IInv, TypeOK,
           QueueTypeOK
  <2>2. Effect
    BY <1>3 DEF JournalRecover, RecoverStuck, WriteJob, Stuck, InState, IInv, TypeOK,
           QueueTypeOK
  <2> QED
    BY <2>1, <2>2
<1>4. ASSUME NEW c \in Captures, StartCapture(c)
      PROVE  DoneKept /\ Effect
  BY <1>4 DEF StartCapture, PrepareCapture, IInv, TypeOK, QueueTypeOK
<1>5. ASSUME NEW c \in Captures, FinishCapture(c)
      PROVE  DoneKept /\ Effect
  <2>1. DoneKept
    BY <1>5 DEF FinishCapture, Enqueue, WriteJob, NotYetQueued, IInv, TypeOK,
           QueueTypeOK
  <2>2. Effect
    BY <1>5 DEF FinishCapture, Enqueue, WriteJob, NotYetQueued, Holds, IInv, TypeOK,
           QueueTypeOK
  <2> QED
    BY <2>1, <2>2
<1>6. ASSUME NEW c \in Captures, AbandonCapture(c)
      PROVE  DoneKept /\ Effect
  BY <1>6 DEF AbandonCapture, IInv, TypeOK, QueueTypeOK
<1>7. ASSUME NEW c \in Captures, StartUpload(c)
      PROVE  DoneKept /\ Effect
  <2>1. DoneKept
    BY <1>7 DEF StartUpload, Eligible, Exhausted, Pending, InState, Mark, WriteJob,
           IInv, TypeOK, QueueTypeOK
  <2>2. Effect
    BY <1>7 DEF StartUpload, Eligible, Exhausted, Pending, InState, Mark, WriteJob,
           IInv, TypeOK, QueueTypeOK
  <2> QED
    BY <2>1, <2>2
<1>8. ASSUME NEW c \in Captures, Post(c)
      PROVE  DoneKept /\ Effect
  <2>1. DoneKept
    BY <1>8 DEF Post, Ingest, InHand, IInv, TypeOK, QueueTypeOK
  <2>2. Effect
    BY <1>8 DEF Post, Ingest, InHand, Accepts, IInv, TypeOK, QueueTypeOK
  <2> QED
    BY <2>1, <2>2
<1>9. ASSUME NEW c \in Captures, UploadResult(c)
      PROVE  DoneKept /\ Effect
  <2>1. DoneKept
    BY <1>9 DEF UploadResult, UploadOk, UploadGivenUp, UploadRetried, MarkUploaded,
           Mark, WriteJob, InHand, IInv, TypeOK, QueueTypeOK
  <2>2. Effect
    BY <1>9 DEF UploadResult, UploadOk, UploadGivenUp, UploadRetried, MarkUploaded,
           Mark, WriteJob, InHand, IInv, TypeOK, QueueTypeOK
  <2> QED
    BY <2>1, <2>2
<1>10. ASSUME NEW c \in Captures, PollDone(c)
       PROVE  DoneKept /\ Effect
  <2>1. DoneKept
    BY <1>10 DEF PollDone, Oldest, Mark, WriteJob, ToPoll, AwaitingHub, InState, IInv,
           TypeOK, QueueTypeOK
  <2>2. Effect
    BY <1>10 DEF PollDone, Oldest, Mark, WriteJob, ToPoll, AwaitingHub, InState, IInv,
           TypeOK, QueueTypeOK
  <2> QED
    BY <2>1, <2>2
<1>11. ASSUME NEW c \in Captures, PollNotDone(c)
       PROVE  DoneKept /\ Effect
  <2>1. DoneKept
    BY <1>11 DEF PollNotDone, Oldest, Mark, WriteJob, ToPoll, AwaitingHub, InState,
           IInv, TypeOK, QueueTypeOK
  <2>2. Effect
    BY <1>11 DEF PollNotDone, Oldest, Mark, WriteJob, ToPoll, AwaitingHub, InState,
           IInv, TypeOK, QueueTypeOK
  <2> QED
    BY <2>1, <2>2
<1>12. ASSUME NEW c \in Captures, CompleteWav(c)
       PROVE  DoneKept /\ Effect
  BY <1>12 DEF CompleteWav, MoveWav, IInv, TypeOK, QueueTypeOK
<1>13. ASSUME NEW c \in Captures, CompleteJob(c)
       PROVE  DoneKept /\ Effect
  <2>1. DoneKept
    BY <1>13 DEF CompleteJob, MoveJob, InHand, HubHasUploaded, IInv, TypeOK,
           QueueTypeOK
  <2>2. Effect
    BY <1>13 DEF CompleteJob, MoveJob, InHand, HubHasUploaded, Releases, IInv, TypeOK,
           QueueTypeOK
  <2> QED
    BY <2>1, <2>2
<1>14. CASE SleepBackoff
  BY <1>14 DEF SleepBackoff, IInv, TypeOK, QueueTypeOK
<1>15. ASSUME NEW c \in Captures, BackoffElapses(c)
       PROVE  DoneKept /\ Effect
  BY <1>15 DEF BackoffElapses, IInv, TypeOK, QueueTypeOK
<1>16. ASSUME NEW c \in Captures, HubProcesses(c)
       PROVE  DoneKept /\ Effect
  <2>1. DoneKept
    BY <1>16 DEF HubProcesses, IInv, TypeOK, QueueTypeOK
  <2>2. Effect
    BY <1>16 DEF HubProcesses, Resolves, IInv, TypeOK, QueueTypeOK
  <2> QED
    BY <2>1, <2>2
<1>17. ASSUME NEW c \in Captures, CrashWhileWriting(c)
       PROVE  DoneKept /\ Effect
  <2>1. DoneKept
    BY <1>17 DEF CrashWhileWriting, AboutToWrite, Oldest, Eligible, Exhausted,
           Pending, Stuck, AwaitingHub, InState, TornWrite, ResetVolatile, RamLost,
           InHand, ToPoll, NotYetQueued, IInv, TypeOK, QueueTypeOK
  <2>2. Effect
    BY <1>17 DEF CrashWhileWriting, AboutToWrite, Oldest, Eligible, Exhausted,
           Pending, Stuck, AwaitingHub, InState, TornWrite, ResetVolatile, RamLost,
           InHand, ToPoll, NotYetQueued, Holds, IInv, TypeOK, QueueTypeOK
  <2> QED
    BY <2>1, <2>2
<1>18. CASE Crash
  BY <1>18 DEF Crash, ResetVolatile, IInv, TypeOK, QueueTypeOK
<1>19. CASE UNCHANGED vars
  BY <1>19 DEF vars
<1> QED
  BY <1>1, <1>2, <1>3, <1>4, <1>5, <1>6, <1>7, <1>8, <1>9, <1>10, <1>11, <1>12, <1>13,
     <1>14, <1>15, <1>16, <1>17, <1>18, <1>19
  DEF Quiet, Next, BootStep, EndCapture, SyncStep

\* A job the Hub has confirmed is never touched again (sync_engine.c
\* sync_engine_drain and poll_hub_jobs skip it, queue_recover_stuck_jobs too).
THEOREM DoneStaysDone == Spec => DoneIsFinal
<1>1. IInv /\ [Next]_vars => [DoneKept]_vars
  BY StepEffect
<1> QED
  BY <1>1, IInvHolds, PTL DEF Spec, DoneIsFinal, DoneKept

\* Every step of the device is a step of CaptureDelivery or invisible to it: it
\* hands each capture over once and lets go of it only after the Hub's "done".
THEOREM PromiseKept == Spec => KeepsPromise
<1>1. Init => Delivery!Init
  BY DEF Init, QueueInit, Delivery!Init
<1>2. IInv /\ TypeOK' /\ [Next]_vars => [Delivery!Next]_(Delivery!vars)
  <2> SUFFICES ASSUME IInv, TypeOK', [Next]_vars
               PROVE  [Delivery!Next]_(Delivery!vars)
    OBVIOUS
  <2> DEFINE Device(place) == CASE place = "none" -> "none"
                               [] place = "queue" -> "held"
                               [] place = "sent" -> "released"
             device == [d \in Captures |-> Device(job[d])]
             deviceNext == [d \in Captures |-> Device(job'[d])]
  <2>1. CASE UNCHANGED <<job, hub>>
    BY <2>1 DEF Delivery!vars
  <2>2. ASSUME NEW c \in Captures, Holds(c)
        PROVE  Delivery!Hold(c)
    <3>1. job'[c] = "queue" /\ \A d \in Captures \ {c} : job'[d] = job[d]
      BY <2>2 DEF Holds, IInv, TypeOK, QueueTypeOK
    <3>2. job[c] = "none" /\ hub' = hub
      BY <2>2 DEF Holds
    <3>3. \A d \in Captures : deviceNext[d] = IF d = c THEN "held" ELSE device[d]
      BY <3>1, <3>2 DEF IInv, TypeOK, QueueTypeOK, Places
    <3>4. deviceNext = [device EXCEPT ![c] = "held"]
      <4> HIDE DEF Device
      <4> QED
        BY <3>3
    <3>5. device[c] = "none"
      BY <3>2
    <3> QED
      BY <3>2, <3>4, <3>5 DEF Delivery!Hold
  <2>3. ASSUME NEW c \in Captures, Accepts(c)
        PROVE  Delivery!Accept(c)
    BY <2>3 DEF Accepts, Delivery!Accept, IInv, TypeOK, QueueTypeOK
  <2>4. ASSUME NEW c \in Captures, Resolves(c)
        PROVE  Delivery!Resolve(c)
    <3>1. hub[c] = "queued" /\ deviceNext = device
      BY <2>4 DEF Resolves
    <3>2. \E outcome \in {"done", "error"} : hub' = [hub EXCEPT ![c] = outcome]
      BY <2>4 DEF Resolves
    <3> QED
      BY <3>1, <3>2 DEF Delivery!Resolve
  <2>5. ASSUME NEW c \in Captures, Releases(c)
        PROVE  Delivery!Release(c)
    <3>1. job'[c] = "sent" /\ \A d \in Captures \ {c} : job'[d] = job[d]
      BY <2>5 DEF Releases, IInv, TypeOK, QueueTypeOK
    <3>2. job[c] = "queue" /\ hub[c] = "done" /\ hub' = hub
      BY <2>5 DEF Releases
    <3>3. \A d \in Captures : deviceNext[d] = IF d = c THEN "released" ELSE device[d]
      BY <3>1, <3>2 DEF IInv, TypeOK, QueueTypeOK, Places
    <3>4. deviceNext = [device EXCEPT ![c] = "released"]
      <4> HIDE DEF Device
      <4> QED
        BY <3>3
    <3>5. device[c] = "held"
      BY <3>2
    <3> QED
      BY <3>2, <3>4, <3>5 DEF Delivery!Release
  <2> QED
    BY StepEffect, <2>1, <2>2, <2>3, <2>4, <2>5 DEF Effect, Delivery!Next
<1> QED
  BY <1>1, <1>2, IInvHolds, TypeCorrect, PTL DEF Spec, KeepsPromise, Delivery!Spec
=============================================================================
