------------------------------ MODULE JobQueue ------------------------------
(***************************************************************************)
(* The capture queue the firmware keeps on the microSD card                *)
(* (components/storage/queue.c and the boot recovery of journal.c).        *)
(*                                                                         *)
(* A capture is identified by its client_job_id.  Its two files, qNNNN.wav *)
(* and qNNNN.job, live in /queue until the Hub is done with it and in      *)
(* /sent afterwards; NNNN is num[c].  Every public function of queue.c     *)
(* runs under s_mutex, so each is one step here, except that the power can *)
(* fail between fopen(path, "w"), which truncates the .job, and the fsync  *)
(* that ends write_job_file: TornWrite is what that leaves behind.         *)
(*                                                                         *)
(* This module has the state of the card, the RAM state beside it, and the *)
(* operations; SyncEngine says who calls them and when.                    *)
(***************************************************************************)
EXTENDS Integers, FiniteSets

CONSTANTS
  Captures,     \* the recordings a user may make, as client_job_ids
  RamMax,       \* RAM_PENDING_MAX: capacity of the RAM index
  ListMax       \* MAX_PENDING_SNAPSHOT: how many ids one listing returns

ASSUME QueueAssumption ==
  /\ IsFiniteSet(Captures)
  /\ RamMax \in Nat \ {0}
  /\ ListMax \in Nat \ {0}

VARIABLES
  wav,          \* where the .wav of each capture is
  job,          \* where the .job of each capture is
  state,        \* what read_job_file returns of it: a job_state_t, or that it fails
  attempts,     \* the job's "attempts" field
  hasRecId,     \* whether the job's hub_recording_id is non-empty
  num,          \* NNNN of the capture's file names, 0 before it has any
  seq,          \* s_seq
  hint,         \* s_pending_hint
  ram           \* ids in the RAM index s_ram

card == <<wav, job, state, attempts, hasRecId, num>>
ramVars == <<seq, hint, ram>>
queueVars == <<card, ramVars>>

Places == {"none", "queue", "sent"}
JobStates == {"queued", "uploading", "uploaded", "processing", "done", "error"}
Contents == JobStates \cup {"unreadable"}

QueueTypeOK ==
  /\ wav \in [Captures -> Places]
  /\ job \in [Captures -> Places]
  /\ state \in [Captures -> Contents]
  /\ attempts \in [Captures -> Nat]
  /\ hasRecId \in [Captures -> BOOLEAN]
  /\ num \in [Captures -> Nat]
  /\ seq \in Nat
  /\ hint \in Nat
  /\ ram \in SUBSET Captures

QueueInit ==
  /\ wav = [c \in Captures |-> "none"]
  /\ job = [c \in Captures |-> "none"]
  /\ state = [c \in Captures |-> "unreadable"]
  /\ attempts = [c \in Captures |-> 0]
  /\ hasRecId = [c \in Captures |-> FALSE]
  /\ num = [c \in Captures |-> 0]
  /\ seq = 0
  /\ hint = 0
  /\ ram = {}

-----------------------------------------------------------------------------
(* Reading the card.                                                       *)

\* The jobs of /queue that read_job_file can read, in one of the given states.
InState(S) == {c \in Captures : job[c] = "queue" /\ state[c] \in S}

\* Mistakes the properties must catch: a recovery that forgets interrupted
\* uploads, a count that includes completed jobs.
StuckInProcessing == InState({"processing"})
AwaitingHubOrDone == InState({"uploaded", "processing", "done"})

Pending == InState({"queued", "error"})
Stuck == InState({"uploading", "processing"})

\* queue_hub_pending_count counts these; queue_list_hub_pending skips the ones
\* that have no hub_recording_id.
AwaitingHub == InState({"uploaded", "processing"})
Pollable == {c \in AwaitingHub : hasRecId[c]}

\* The scan stops at ListMax entries.  readdir returns them in the order they
\* were created, that is by number (a freed FAT entry is not reused here).  When it
\* finds none queue_list_pending tries the jobs of s_ram, but reads their state from
\* the same files: with a card that can be read that adds nothing.
Listed(S) == {c \in S : Cardinality({d \in S : num[d] < num[c]}) < ListMax}

\* The head of a snapshot, which the listings sort by number.
Oldest(c, S) == c \in S /\ \A d \in S : num[c] <= num[d]

\* A mistake: recordings that have no .job yet are not looked at.
JobNums == {num[c] : c \in {d \in Captures : job[d] = "queue"}}

\* scan_max_seq looks at .job and at .wav names of /queue, not at /sent.
UsedNums == {num[c] : c \in {d \in Captures : wav[d] = "queue" \/ job[d] = "queue"}}
ScanMaxSeq(n) == \A m \in UsedNums : m <= n
Seqs == UsedNums \cup {0}

-----------------------------------------------------------------------------
(* Writing a .job.                                                         *)

WriteJob(c, s, n, r) ==
  /\ state' = [state EXCEPT ![c] = s]
  /\ attempts' = [attempts EXCEPT ![c] = n]
  /\ hasRecId' = [hasRecId EXCEPT ![c] = r]

\* The power fails after the truncation and before the new text is on the card.
TornWrite(c) ==
  /\ job' = [job EXCEPT ![c] = "queue"]
  /\ state' = [state EXCEPT ![c] = "unreadable"]
  /\ UNCHANGED <<wav, attempts, hasRecId, num>>

\* find_job_by_id finds c: every operation on an existing job starts with it.  The
\* callers have just read the job, so it never fails on them.
Found(c) == job[c] = "queue" /\ state[c] # "unreadable"

RamAdd(c) == IF Cardinality(ram) < RamMax THEN ram \cup {c} ELSE ram

-----------------------------------------------------------------------------
(* The operations.                                                         *)

\* queue_prepare_capture gives the next number; wav_writer opens the file.
PrepareCapture(c) ==
  /\ \E top \in Seqs \cup {seq} :
       /\ IF seq = 0 THEN top \in Seqs /\ ScanMaxSeq(top) ELSE top = seq
       /\ seq' = top + 1
       /\ num' = [num EXCEPT ![c] = top + 1]
  /\ wav' = [wav EXCEPT ![c] = "queue"]
  /\ UNCHANGED <<job, state, attempts, hasRecId, hint, ram>>

Enqueue(c) ==
  /\ wav[c] = "queue"
  /\ job' = [job EXCEPT ![c] = "queue"]
  /\ WriteJob(c, "queued", 0, FALSE)
  /\ ram' = RamAdd(c)
  /\ hint' = hint + 1
  /\ UNCHANGED <<wav, num, seq>>

\* queue_mark: the number of attempts grows when an upload starts.
Mark(c, s) ==
  /\ Found(c)
  /\ WriteJob(c, s, IF s = "uploading" THEN attempts[c] + 1 ELSE attempts[c],
              hasRecId[c])
  /\ UNCHANGED <<wav, job, num, ramVars>>

\* queue_mark_uploaded: the hint falls only if the .job still says that the
\* capture is pending, and the recording id is overwritten even by an empty one.
MarkUploaded(c, gotRecId) ==
  /\ Found(c)
  /\ WriteJob(c, "uploaded", attempts[c], gotRecId)
  /\ hint' = IF c \in Pending /\ hint > 0 THEN hint - 1 ELSE hint
  /\ ram' = ram \ {c}
  /\ UNCHANGED <<wav, job, num, seq>>

\* queue_complete renames the WAV and then the .job.  FAT refuses to rename onto
\* a name that exists; for the WAV that is logged and otherwise ignored.
SentNameTaken(where, c) == \E d \in Captures : where[d] = "sent" /\ num[d] = num[c]

MoveWav(c) ==
  /\ Found(c)
  /\ wav' = IF wav[c] = "queue" /\ ~SentNameTaken(wav, c)
            THEN [wav EXCEPT ![c] = "sent"] ELSE wav
  /\ UNCHANGED <<job, state, attempts, hasRecId, num, ramVars>>

MoveJob(c) ==
  /\ Found(c)
  /\ job' = IF ~SentNameTaken(job, c) THEN [job EXCEPT ![c] = "sent"] ELSE job
  /\ UNCHANGED <<wav, state, attempts, hasRecId, num, ramVars>>

\* queue_recover_stuck_jobs rewrites one interrupted job.
RecoverStuck(c) ==
  /\ c \in Stuck
  /\ WriteJob(c, "queued", attempts[c], hasRecId[c])
  /\ UNCHANGED <<wav, job, num, ramVars>>

\* queue_init: the RAM state is rebuilt from the card.
QueueInitRam ==
  /\ \E top \in Seqs : ScanMaxSeq(top) /\ seq' = top
  /\ hint' = Cardinality(Pending)
  /\ ram' = {c \in Pending : Cardinality({d \in Pending : num[d] < num[c]}) < RamMax}
  /\ UNCHANGED card

\* What a reset does to the RAM.
RamLost ==
  /\ seq' = 0
  /\ hint' = 0
  /\ ram' = {}
=============================================================================
