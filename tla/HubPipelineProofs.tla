-------------------------- MODULE HubPipelineProofs --------------------------
(***************************************************************************)
(* The safety properties of HubPipeline, for any uploads, any answers of   *)
(* the LLM and any limits.                                                 *)
(***************************************************************************)
EXTENDS HubPipeline, FiniteSetTheorems, TLAPS

-----------------------------------------------------------------------------
(* Plans and their items.                                                  *)

\* A plan that is worked on has a task.
LEMMA PlanType ==
  ASSUME NEW p \in AllPlans
  PROVE  p \in Seq(Nat) /\ Len(p) \in Nat /\ Len(p) > 0 /\ p # NoPlan
<1>1. CASE p \in Plans
  BY <1>1, HubAssumption DEF HubAssumption, NoPlan
<1>2. CASE p = EmptyPlan
  BY <1>2 DEF EmptyPlan, NoPlan
<1> QED
  BY <1>1, <1>2 DEF AllPlans

\* The items of a plan are its tasks and their subtasks.
LEMMA ItemsMember ==
  ASSUME NEW p \in AllPlans, NEW i
  PROVE  i \in Items(p) <=>
           /\ i = <<i[1], i[2]>>
           /\ i[1] \in 1 .. Len(p)
           /\ i[2] \in 0 .. p[i[1]]
<1>1. i \in Items(p) <=> \E n \in 1 .. Len(p) : i \in {n} \X (0 .. p[n])
  BY DEF Items
<1>2. ASSUME NEW n \in 1 .. Len(p)
      PROVE  i \in {n} \X (0 .. p[n]) <=>
               i = <<i[1], i[2]>> /\ i[1] = n /\ i[2] \in 0 .. p[n]
  OBVIOUS
<1> QED
  BY <1>1, <1>2

\* Its tasks and subtasks in the order in which the worker takes them.
LEMMA ItemAt ==
  ASSUME NEW p \in AllPlans, NEW n \in 1 .. Len(p), NEW m \in 0 .. p[n]
  PROVE  <<n, m>> \in Items(p) /\ <<n, m>> \in AllItems
<1>1. <<n, m>> \in Items(p)
  BY ItemsMember
<1> QED
  BY <1>1 DEF AllItems

\* An item of a plan is a pair of numbers.
LEMMA ItemType ==
  ASSUME NEW p \in AllPlans, NEW i \in Items(p)
  PROVE  /\ i = <<i[1], i[2]>>
         /\ i[1] \in 1 .. Len(p) /\ i[1] \in Nat
         /\ i[2] \in 0 .. p[i[1]] /\ i[2] \in Nat /\ p[i[1]] \in Nat
         /\ i \in AllItems
<1>1. i = <<i[1], i[2]>> /\ i[1] \in 1 .. Len(p) /\ i[2] \in 0 .. p[i[1]]
  BY ItemsMember
<1>2. p \in Seq(Nat) /\ Len(p) \in Nat
  BY PlanType
<1>3. i[1] \in Nat /\ p[i[1]] \in Nat
  BY <1>1, <1>2
<1>4. i[2] \in Nat
  BY <1>1, <1>3
<1> QED
  BY <1>1, <1>3, <1>4 DEF AllItems

\* Every recording has a plan, the empty transcript's if no other.
LEMMA PlanOfType ==
  ASSUME TypeOK, NEW r \in Posts
  PROVE  PlanOf(r) \in AllPlans
BY DEF TypeOK, PlanOf, AllPlans

\* received_at is drawn from a finite range.
LEMMA ReceivedType ==
  ASSUME TypeOK, NEW p \in Posts, ReceivedNow(p)
  PROVE  received' \in [Posts -> Nat]
<1>1. Cardinality(Posts) \in Nat
  BY HubAssumption, FS_CardinalityType DEF HubAssumption
<1> QED
  BY <1>1 DEF TypeOK, ReceivedNow

\* The next task is one of the plan.
LEMMA GoToTaskType ==
  ASSUME TypeOK, plan \in AllPlans, NEW n \in Nat, n <= Len(plan), GoToTask(n)
  PROVE  /\ worker' \in {"task", "finish"}
         /\ item' \in AllItems \cup {NoItem}
         /\ worker' = "task" => /\ item' = <<n + 1, 0>> /\ item' \in Items(plan)
                                /\ item'[1] = n + 1 /\ item'[2] = 0
         /\ worker' = "finish" => n = Len(plan)
<1>1. plan \in Seq(Nat) /\ Len(plan) \in Nat
  BY PlanType
<1>2. CASE n < Len(plan)
  <2>1. n + 1 \in 1 .. Len(plan) /\ plan[n + 1] \in Nat
    BY <1>1, <1>2
  <2>2. 0 \in 0 .. plan[n + 1]
    BY <2>1
  <2>3. <<n + 1, 0>> \in Items(plan) /\ <<n + 1, 0>> \in AllItems
    BY <2>1, <2>2, ItemAt
  <2> QED
    BY <2>3, <1>2 DEF GoToTask
<1>3. CASE ~(n < Len(plan))
  BY <1>1, <1>3 DEF GoToTask
<1> QED
  BY <1>2, <1>3

\* One more creation, or one more lost answer, of one item.
LEMMA CountedOnce ==
  ASSUME NEW f \in [Posts -> [AllItems -> Nat]], NEW r \in Posts, NEW i \in AllItems,
         NEW g, g = [f EXCEPT ![r][i] = @ + 1]
  PROVE  /\ g \in [Posts -> [AllItems -> Nat]]
         /\ g[r][i] = f[r][i] + 1
         /\ \A q \in Posts, j \in AllItems : q # r \/ j # i => g[q][j] = f[q][j]
OBVIOUS

-----------------------------------------------------------------------------
(* Type correctness.                                                       *)

\* The Hub starts well-typed.
LEMMA InitType == Init => TypeOK
BY DEF Init, TypeOK, Statuses, InFlight, WorkerSteps, AllItems

\* The worker's plan and item, wherever it is.
LEMMA InHandType ==
  ASSUME IInv, NEW r \in inHand
  PROVE  /\ r \in Posts
         /\ worker \in {"begin", "task", "send", "putKey", "created", "finish"} =>
              plan \in AllPlans /\ plan = PlanOf(r) /\ Asked(r)
         /\ worker \in {"task", "send", "putKey", "created"} =>
              item \in Items(plan) /\ item \in AllItems
<1>1. r \in Posts /\ TypeOK
  BY DEF IInv, TypeOK
<1>2. ASSUME worker \in {"begin", "task", "send", "putKey", "created", "finish"}
      PROVE  plan \in AllPlans /\ plan = PlanOf(r) /\ Asked(r)
  BY <1>1, <1>2, PlanOfType DEF IInv, Asking
<1>3. ASSUME worker \in {"task", "send", "putKey", "created"}
      PROVE  item \in Items(plan) /\ item \in AllItems
  <2>1. item \in Items(plan)
    BY <1>3 DEF IInv, ItemInHand
  <2> QED
    BY <2>1, <1>2, <1>3, ItemType
<1> QED
  BY <1>1, <1>2, <1>3

\* No step spoils a type: the worker's place in the plan is an item of it.
LEMMA TypeStep == IInv /\ [Next]_vars => TypeOK'
<1> SUFFICES ASSUME IInv, [Next]_vars
             PROVE  TypeOK'
  OBVIOUS
<1> USE DEF vars, jobs, requests, progress, todoist
<1>0. TypeOK
  BY DEF IInv
<1>1. ASSUME NEW p \in Posts, PostKnown(p)
      PROVE  TypeOK'
  BY <1>0, <1>1 DEF TypeOK, PostKnown, AnswerWith, RowOf, Rows
<1>2. ASSUME NEW p \in Posts, PostNew(p)
      PROVE  TypeOK'
  BY <1>0, <1>2 DEF TypeOK, PostNew
<1>3. ASSUME NEW p \in Posts, PostRefused(p)
      PROVE  TypeOK'
  BY <1>0, <1>3 DEF TypeOK, PostRefused, Fault
<1>4. ASSUME NEW p \in Posts, PostInserted(p)
      PROVE  TypeOK'
  BY <1>0, <1>4, ReceivedType DEF TypeOK, PostInserted, SetStatus, AnswerWith, Statuses
<1>5. ASSUME NEW p \in Posts, PostBeaten(p)
      PROVE  TypeOK'
  BY <1>0, <1>5 DEF TypeOK, PostBeaten, AnswerWith, RowOf, Rows
<1>6. CASE StartHub
  BY <1>0, <1>6 DEF TypeOK, StartHub
<1>7. CASE ResetStuck
  BY <1>0, <1>7 DEF TypeOK, ResetStuck, Statuses
<1>8. ASSUME NEW r \in Posts, Claim(r)
      PROVE  TypeOK'
  BY <1>0, <1>8 DEF TypeOK, Claim, SetStatus, Statuses, InFlight, WorkerSteps
<1>9. ASSUME NEW r \in Posts, Fail(r)
      PROVE  TypeOK'
  BY <1>0, <1>9 DEF TypeOK, Fail, SetStatus, Release, Statuses
<1>10. ASSUME NEW r \in Posts, Transcribe(r)
       PROVE  TypeOK'
  <2>1. transcript' \in [Posts -> {"null", "text", "empty"}]
    BY <1>0, <1>10 DEF TypeOK, Transcribe
  <2>2. worker' \in WorkerSteps /\ faults' \in Nat
    BY <1>0, <1>10 DEF TypeOK, Transcribe, Fault, WorkerSteps
  <2> QED
    BY <1>0, <1>10, <2>1, <2>2 DEF TypeOK, Transcribe
<1>11. ASSUME NEW r \in Posts, Structure(r)
       PROVE  TypeOK'
  <2>1. plan' \in AllPlans \cup {NoPlan}
    BY <1>0, <1>11 DEF TypeOK, Structure, AllPlans
  <2>2. status' \in [Posts -> Statuses] /\ worker' \in WorkerSteps
    BY <1>0, <1>11 DEF TypeOK, Structure, SetStatus, Statuses, InFlight, WorkerSteps
  <2> QED
    BY <1>0, <1>11, <2>1, <2>2 DEF TypeOK, Structure
<1>12. ASSUME NEW r \in Posts, AskLLM(r)
       PROVE  TypeOK'
  <2>1. plan' \in AllPlans \cup {NoPlan} /\ llm' \in [Posts -> Plans \cup {NoPlan}]
    BY <1>0, <1>12 DEF TypeOK, AskLLM, AllPlans
  <2>2. worker' \in WorkerSteps /\ faults' \in Nat
    BY <1>0, <1>12 DEF TypeOK, AskLLM, Fault, WorkerSteps
  <2> QED
    BY <1>0, <1>12, <2>1, <2>2 DEF TypeOK, AskLLM
<1>13. ASSUME NEW r \in Posts, Begin(r)
       PROVE  TypeOK'
  <2>1. plan \in AllPlans /\ created[r] <= Len(plan) /\ created[r] \in Nat
    BY <1>0, <1>13, InHandType DEF Begin, IInv, MadeInOrder, TypeOK
  <2>2. worker' \in {"task", "finish"} /\ item' \in AllItems \cup {NoItem}
    BY <1>0, <1>13, <2>1, GoToTaskType DEF Begin
  <2> QED
    BY <1>0, <1>13, <2>2 DEF TypeOK, Begin, SetStatus, Statuses, InFlight, WorkerSteps
<1>14. ASSUME NEW r \in Posts, FindKey(r)
       PROVE  TypeOK'
  BY <1>0, <1>14 DEF TypeOK, FindKey, WorkerSteps
<1>15. ASSUME NEW r \in Posts, Send(r)
       PROVE  TypeOK'
  <2>1. item \in AllItems /\ plan \in AllPlans
    BY <1>15, InHandType DEF Send
  <2>2. made' \in [Posts -> [AllItems -> Nat]] /\ madeFrom' \in [Posts -> SUBSET AllPlans]
    <3>1. CASE Make(r)
      <4>1. CASE TodoistDedupes /\ made[r][item] > 0
        BY <1>0, <3>1, <4>1 DEF TypeOK, Make
      <4>2. CASE ~(TodoistDedupes /\ made[r][item] > 0)
        <5>1. made' = [made EXCEPT ![r][item] = @ + 1]
              /\ madeFrom' = [madeFrom EXCEPT ![r] = @ \cup {plan}]
          BY <3>1, <4>2 DEF Make
        <5>2. made' \in [Posts -> [AllItems -> Nat]]
          BY <1>0, <2>1, <5>1, CountedOnce DEF TypeOK
        <5> QED
          BY <1>0, <2>1, <5>1, <5>2 DEF TypeOK
      <4> QED
        BY <4>1, <4>2
    <3>2. CASE UNCHANGED todoist
      BY <1>0, <3>2 DEF TypeOK
    <3> QED
      BY <1>15, <3>1, <3>2 DEF Send
  <2>3. lost' \in [Posts -> [AllItems -> Nat]]
    <3>1. CASE LoseAnswer(r)
      BY <1>0, <2>1, <3>1, CountedOnce DEF TypeOK, LoseAnswer
    <3>2. CASE UNCHANGED lost
      BY <1>0, <3>2 DEF TypeOK
    <3> QED
      BY <1>15, <3>1, <3>2 DEF Send
  <2>4. worker' \in WorkerSteps /\ faults' \in Nat
    BY <1>0, <1>15 DEF TypeOK, Send, Fault, WorkerSteps
  <2> QED
    BY <1>0, <1>15, <2>2, <2>3, <2>4 DEF TypeOK, Send
<1>16. ASSUME NEW r \in Posts, PutKey(r)
       PROVE  TypeOK'
  <2>1. item \in AllItems
    BY <1>16, InHandType DEF PutKey
  <2> QED
    BY <1>0, <1>16, <2>1 DEF TypeOK, PutKey, WorkerSteps
<1>17. ASSUME NEW r \in Posts, TaskCreated(r)
       PROVE  TypeOK'
  <2>1. plan \in AllPlans /\ item \in Items(plan)
    BY <1>17, InHandType DEF TaskCreated
  <2>2. /\ item[1] \in 1 .. Len(plan) /\ item[1] \in Nat
        /\ item[2] \in Nat /\ plan[item[1]] \in Nat
    BY <2>1, ItemType
  <2>3. CASE item[2] < plan[item[1]]
    <3>1. item[2] + 1 \in 0 .. plan[item[1]]
      BY <2>2, <2>3
    <3>2. <<item[1], item[2] + 1>> \in AllItems
      BY <2>1, <2>2, <3>1, ItemAt
    <3> QED
      BY <1>0, <1>17, <2>3, <3>2 DEF TypeOK, TaskCreated, WorkerSteps
  <2>4. CASE ~(item[2] < plan[item[1]])
    <3>1. item[1] <= Len(plan)
      BY <2>1, <2>2, PlanType
    <3>2. GoToTask(item[1])
      BY <1>17, <2>4 DEF TaskCreated
    <3>3. worker' \in {"task", "finish"} /\ item' \in AllItems \cup {NoItem}
      BY <1>0, <2>1, <2>2, <3>1, <3>2, GoToTaskType
    <3> QED
      BY <1>0, <1>17, <2>4, <3>3 DEF TypeOK, TaskCreated, WorkerSteps
  <2> QED
    BY <2>3, <2>4
<1>18. ASSUME NEW r \in Posts, Finish(r)
       PROVE  TypeOK'
  BY <1>0, <1>18 DEF TypeOK, Finish, SetStatus, Release, Statuses, WorkerSteps
<1>19. ASSUME NEW r \in Posts, Retain(r)
       PROVE  TypeOK'
  BY <1>0, <1>19 DEF TypeOK, Retain, Release, Fault, WorkerSteps
<1>20. ASSUME NEW r \in Posts, Purge(r)
       PROVE  TypeOK'
  BY <1>0, <1>20 DEF TypeOK, Purge
<1>21. CASE Crash
  <2>1. lost' \in [Posts -> [AllItems -> Nat]]
    <3>1. CASE worker = "putKey"
      <4>1. PICK r \in inHand : LoseAnswer(r)
        BY <1>21, <3>1 DEF Crash
      <4>2. item \in AllItems /\ r \in Posts
        BY <3>1, InHandType
      <4> QED
        BY <1>0, <4>1, <4>2 DEF TypeOK, LoseAnswer
    <3>2. CASE worker # "putKey"
      BY <1>0, <1>21, <3>2 DEF TypeOK, Crash
    <3> QED
      BY <3>1, <3>2
  <2> QED
    BY <1>0, <1>21, <2>1 DEF TypeOK, Crash
<1>22. CASE UNCHANGED vars
  BY <1>0, <1>22 DEF TypeOK
<1> QED
  BY <1>1, <1>2, <1>3, <1>4, <1>5, <1>6, <1>7, <1>8, <1>9, <1>10, <1>11, <1>12, <1>13, <1>14,
     <1>15, <1>16, <1>17, <1>18, <1>19, <1>20, <1>21, <1>22 DEF Next, Handlers, WorkerStep

-----------------------------------------------------------------------------
(* What a step that leaves a part of the state alone preserves.            *)

\* A recording that has tasks has been heard.
LEMMA DoneIsHeard ==
  ASSUME IInv, NEW r \in Posts, status[r] = "done"
  PROVE  transcript[r] # "null"
<1>1. PlanOf(r) \in AllPlans
  BY PlanOfType DEF IInv
<1>2. created[r] > 0
  BY <1>1, PlanType DEF IInv, DoneIsComplete
<1>3. Asked(r)
  BY <1>2 DEF IInv, MadeInOrder
<1> QED
  BY <1>3 DEF IInv, Asking, Asked

\* The job in hand has a row.
LEMMA InHandIsRow ==
  ASSUME IInv, NEW r \in inHand
  PROVE  r \in Posts /\ status[r] # "absent"
<1>1. r \in Posts /\ worker \in WorkerSteps
  BY DEF IInv, TypeOK, WorkerHoldsOne
<1> QED
  BY <1>1 DEF IInv, StatusInHand, WorkerSteps, InFlight

\* Handlers do not disturb the work.
LEMMA WorkQuiet ==
  ASSUME IInv, UNCHANGED <<transcript, llm, created, keys, worker, inHand, progress, todoist>>
  PROVE  (WorkerHoldsOne /\ Asking /\ OnePlan /\ MadeInOrder /\ ItemInHand /\ TasksAccounted)'
<1> USE DEF IInv, progress, todoist
<1>1. WorkerHoldsOne'
  BY DEF WorkerHoldsOne
<1>2. Asking'
  BY DEF Asking, Asked, PlanOf
<1>3. OnePlan'
  BY DEF OnePlan, PlanOf
<1>4. MadeInOrder'
  BY DEF MadeInOrder, Asked, PlanOf
<1>5. ItemInHand'
  BY DEF ItemInHand
<1>6. TasksAccounted'
  BY DEF TasksAccounted, AboutToStore
<1> QED
  BY <1>1, <1>2, <1>3, <1>4, <1>5, <1>6

\* The worker never makes or removes a row, nor does it answer an upload.
LEMMA RequestsQuiet ==
  ASSUME IInv, UNCHANGED requests, audio' = audio,
         \A r \in Posts : status'[r] = "absent" <=> status[r] = "absent"
  PROVE  UploadRows'
<1>1. Rows' = Rows
  BY DEF Rows
<1>2. \A c : RowOf(c)' = RowOf(c)
  BY <1>1 DEF RowOf, requests
<1> QED
  BY <1>1, <1>2 DEF IInv, UploadRows, requests

\* Where the worker is says nothing about what has been made.
LEMMA RecordsQuiet ==
  ASSUME IInv, UNCHANGED <<transcript, llm, created, keys, todoist>>
  PROVE  (OnePlan /\ MadeInOrder)'
<1> USE DEF IInv, todoist
<1>1. OnePlan'
  BY DEF OnePlan, PlanOf
<1>2. MadeInOrder'
  BY DEF MadeInOrder, Asked, PlanOf
<1> QED
  BY <1>1, <1>2

\* Without an answer to store, the accounts are closed.
LEMMA AccountsQuiet ==
  ASSUME IInv, UNCHANGED <<keys, todoist>>, worker # "putKey"
  PROVE  TasksAccounted'
BY DEF IInv, TasksAccounted, AboutToStore, todoist

\* A job that was done stays complete, and no other becomes done.
LEMMA DoneQuiet ==
  ASSUME IInv, UNCHANGED <<llm, created, todoist>>,
         \A r \in Posts : status'[r] = "done" => status[r] = "done"
  PROVE  DoneIsComplete'
BY DEF IInv, DoneIsComplete, PlanOf, todoist

-----------------------------------------------------------------------------
(* The handlers preserve the inductive invariant.                          *)

LEMMA PostKnownPreserves ==
  ASSUME IInv, TypeOK', NEW p \in Posts, PostKnown(p)
  PROVE  IInv'
<1> USE DEF PostKnown, AnswerWith, jobs
<1>1. UploadRows'
  BY DEF IInv, TypeOK, UploadRows, Rows, RowOf
<1>2. (WorkerHoldsOne /\ Asking /\ OnePlan /\ MadeInOrder /\ ItemInHand /\ TasksAccounted)'
  BY WorkQuiet
<1>3. DoneIsComplete'
  BY DoneQuiet DEF todoist
<1>4. (StatusInHand /\ InFlightIsInHand /\ AudioWhileNeeded)'
  BY DEF IInv, StatusInHand, InFlightIsInHand, AudioWhileNeeded, Rows
<1> QED
  BY <1>1, <1>2, <1>3, <1>4 DEF IInv

LEMMA PostNewPreserves ==
  ASSUME IInv, TypeOK', NEW p \in Posts, PostNew(p)
  PROVE  IInv'
<1> USE DEF PostNew, jobs
<1>1. UploadRows'
  BY DEF IInv, TypeOK, UploadRows, Rows, RowOf
<1>2. (WorkerHoldsOne /\ Asking /\ OnePlan /\ MadeInOrder /\ ItemInHand /\ TasksAccounted)'
  BY WorkQuiet
<1>3. DoneIsComplete'
  BY DoneQuiet DEF todoist
<1>4. (StatusInHand /\ InFlightIsInHand /\ AudioWhileNeeded)'
  BY DEF IInv, StatusInHand, InFlightIsInHand, AudioWhileNeeded, Rows
<1> QED
  BY <1>1, <1>2, <1>3, <1>4 DEF IInv

\* A handler that gives up removes no WAV but its own, which no row names.
LEMMA PostRefusedPreserves ==
  ASSUME IInv, TypeOK', NEW p \in Posts, PostRefused(p)
  PROVE  IInv'
<1> USE DEF PostRefused, jobs
<1>1. p \notin Rows
  BY DEF IInv, UploadRows
<1>2. UploadRows'
  BY DEF IInv, TypeOK, UploadRows, Rows, RowOf
<1>3. (WorkerHoldsOne /\ Asking /\ OnePlan /\ MadeInOrder /\ ItemInHand /\ TasksAccounted)'
  BY WorkQuiet
<1>4. DoneIsComplete'
  BY DoneQuiet DEF todoist
<1>5. AudioWhileNeeded'
  BY <1>1 DEF IInv, AudioWhileNeeded, Rows
<1>6. (StatusInHand /\ InFlightIsInHand)'
  BY DEF IInv, StatusInHand, InFlightIsInHand
<1> QED
  BY <1>2, <1>3, <1>4, <1>5, <1>6 DEF IInv

\* The second of two handlers of one capture finds the first one's row.
LEMMA PostInsertedPreserves ==
  ASSUME IInv, TypeOK', NEW p \in Posts, PostInserted(p)
  PROVE  IInv'
<1> USE DEF PostInserted, SetStatus
<1>0. TypeOK /\ p \notin Rows /\ p \in audio /\ p \notin inHand
  BY InHandIsRow DEF IInv, UploadRows, Rows
<1>1. Rows' = Rows \cup {p}
  BY <1>0 DEF TypeOK, Rows
<1>2. UploadRows'
  <2>1. \A q \in Posts : handler'[q] \in {"unsent", "body"} => q \notin Rows'
    BY <1>0, <1>1 DEF IInv, TypeOK, UploadRows, AnswerWith
  <2>2. \A q \in Posts : handler'[q] = "body" => q \in audio'
    BY <1>0 DEF IInv, TypeOK, UploadRows, AnswerWith
  <2>3. \A q \in Posts : handler'[q] = "answered" => answer'[q] \in RowOf(client[q])'
    BY <1>0, <1>1 DEF IInv, TypeOK, UploadRows, AnswerWith, RowOf
  <2>4. \A q, r \in Rows' : client'[q] = client'[r] => q = r
    BY <1>0, <1>1 DEF IInv, UploadRows, AnswerWith, RowOf
  <2> QED
    BY <2>1, <2>2, <2>3, <2>4, <1>0 DEF UploadRows, TypeOK, AnswerWith
<1>3. (WorkerHoldsOne /\ Asking /\ OnePlan /\ MadeInOrder /\ ItemInHand /\ TasksAccounted)'
  BY WorkQuiet
<1>4. DoneIsComplete'
  BY <1>0, DoneQuiet DEF TypeOK, todoist
<1>5. AudioWhileNeeded'
  BY <1>0, <1>1 DEF IInv, TypeOK, AudioWhileNeeded, Rows
<1>6. (StatusInHand /\ InFlightIsInHand)'
  BY <1>0 DEF IInv, TypeOK, StatusInHand, InFlightIsInHand, InFlight
<1> QED
  BY <1>2, <1>3, <1>4, <1>5, <1>6 DEF IInv

LEMMA PostBeatenPreserves ==
  ASSUME IInv, TypeOK', NEW p \in Posts, PostBeaten(p)
  PROVE  IInv'
<1> USE DEF PostBeaten, AnswerWith, jobs
<1>1. p \notin Rows
  BY DEF IInv, UploadRows
<1>2. UploadRows'
  BY DEF IInv, TypeOK, UploadRows, Rows, RowOf
<1>3. (WorkerHoldsOne /\ Asking /\ OnePlan /\ MadeInOrder /\ ItemInHand /\ TasksAccounted)'
  BY WorkQuiet
<1>4. DoneIsComplete'
  BY DoneQuiet DEF todoist
<1>5. AudioWhileNeeded'
  BY <1>1 DEF IInv, AudioWhileNeeded, Rows
<1>6. (StatusInHand /\ InFlightIsInHand)'
  BY DEF IInv, StatusInHand, InFlightIsInHand
<1> QED
  BY <1>2, <1>3, <1>4, <1>5, <1>6 DEF IInv

\* The retention takes the WAVs of finished jobs, which nobody needs.
LEMMA PurgePreserves ==
  ASSUME IInv, TypeOK', NEW r \in Posts, Purge(r)
  PROVE  IInv'
<1> USE DEF Purge, jobs
<1>1. UploadRows'
  BY DEF IInv, TypeOK, UploadRows, Rows, RowOf, requests
<1>2. AudioWhileNeeded'
  BY DoneIsHeard DEF IInv, AudioWhileNeeded, Rows
<1>3. (WorkerHoldsOne /\ Asking /\ OnePlan /\ MadeInOrder /\ ItemInHand /\ TasksAccounted)'
  BY WorkQuiet
<1>4. DoneIsComplete'
  BY DoneQuiet DEF todoist
<1>5. (StatusInHand /\ InFlightIsInHand)'
  BY DEF IInv, StatusInHand, InFlightIsInHand
<1> QED
  BY <1>1, <1>2, <1>3, <1>4, <1>5 DEF IInv

-----------------------------------------------------------------------------
(* The worker's loop and the process preserve it.                          *)

LEMMA StartHubPreserves ==
  ASSUME IInv, TypeOK', StartHub
  PROVE  IInv'
<1> USE DEF StartHub, jobs
<1>0. inHand = {}
  BY DEF IInv, TypeOK, WorkerHoldsOne, WorkerSteps
<1>1. UploadRows'
  BY RequestsQuiet
<1>2. (OnePlan /\ MadeInOrder)'
  BY RecordsQuiet
<1>3. TasksAccounted'
  BY AccountsQuiet
<1>4. DoneIsComplete'
  BY DoneQuiet DEF todoist
<1>5. (WorkerHoldsOne /\ StatusInHand /\ InFlightIsInHand /\ ItemInHand)'
  BY <1>0 DEF WorkerHoldsOne, WorkerSteps, StatusInHand, InFlightIsInHand, ItemInHand
<1>6. (Asking /\ AudioWhileNeeded)'
  BY <1>0 DEF IInv, Asking, AudioWhileNeeded, Rows
<1> QED
  BY <1>1, <1>2, <1>3, <1>4, <1>5, <1>6 DEF IInv

\* No job is in flight once every job that was is queued again.
LEMMA ResetStuckPreserves ==
  ASSUME IInv, TypeOK', ResetStuck
  PROVE  IInv'
<1> USE DEF ResetStuck
<1>0. TypeOK /\ inHand = {}
  BY DEF IInv, WorkerHoldsOne, WorkerSteps
<1>1. \A r \in Posts : /\ status'[r] = "absent" <=> status[r] = "absent"
                       /\ status'[r] = "done" <=> status[r] = "done"
                       /\ status'[r] = "error" <=> status[r] = "error"
                       /\ status'[r] \notin InFlight
  BY <1>0 DEF TypeOK, InFlight
<1>2. UploadRows'
  BY <1>1, RequestsQuiet
<1>3. (OnePlan /\ MadeInOrder)'
  BY RecordsQuiet
<1>4. TasksAccounted'
  BY AccountsQuiet
<1>5. DoneIsComplete'
  BY <1>1, DoneQuiet DEF todoist
<1>6. (WorkerHoldsOne /\ StatusInHand /\ InFlightIsInHand /\ ItemInHand)'
  BY <1>0, <1>1 DEF WorkerHoldsOne, WorkerSteps, StatusInHand, InFlightIsInHand, ItemInHand
<1>7. (Asking /\ AudioWhileNeeded)'
  BY <1>0, <1>1 DEF IInv, Asking, Asked, AudioWhileNeeded, Rows
<1> QED
  BY <1>2, <1>3, <1>4, <1>5, <1>6, <1>7 DEF IInv

LEMMA ClaimPreserves ==
  ASSUME IInv, TypeOK', NEW r \in Posts, Claim(r)
  PROVE  IInv'
<1> USE DEF Claim, SetStatus
<1>0. TypeOK /\ inHand = {}
  BY DEF IInv, WorkerHoldsOne, WorkerSteps
<1>1. \A q \in Posts : /\ status'[q] = "absent" <=> status[q] = "absent"
                       /\ status'[q] = "done" <=> status[q] = "done"
                       /\ status'[q] = "error" <=> status[q] = "error"
                       /\ q # r => status'[q] = status[q]
  BY <1>0 DEF TypeOK
<1>2. UploadRows'
  BY <1>1, RequestsQuiet
<1>3. (OnePlan /\ MadeInOrder)'
  BY RecordsQuiet
<1>4. TasksAccounted'
  BY AccountsQuiet
<1>5. DoneIsComplete'
  BY <1>1, DoneQuiet DEF todoist
<1>6. WorkerHoldsOne'
  BY DEF WorkerHoldsOne, WorkerSteps
<1>7. StatusInHand' /\ ItemInHand'
  BY <1>0 DEF TypeOK, StatusInHand, ItemInHand, InFlight
<1>8. InFlightIsInHand'
  BY <1>0, <1>1 DEF IInv, InFlightIsInHand
<1>9. (Asking /\ AudioWhileNeeded)'
  BY <1>0, <1>1 DEF IInv, Asking, Asked, AudioWhileNeeded, Rows
<1> QED
  BY <1>2, <1>3, <1>4, <1>5, <1>6, <1>7, <1>8, <1>9 DEF IInv

LEMMA FailPreserves ==
  ASSUME IInv, TypeOK', NEW r \in Posts, Fail(r)
  PROVE  IInv'
<1> USE DEF Fail, SetStatus, Release
<1>0. TypeOK /\ status[r] # "absent"
  BY InHandIsRow DEF IInv
<1>1. \A q \in Posts : /\ status'[q] = "absent" <=> status[q] = "absent"
                       /\ status'[q] = "done" => status[q] = "done"
                       /\ q # r => status'[q] = status[q]
                       /\ status'[r] \notin InFlight
  BY <1>0 DEF TypeOK, InFlight
<1>2. UploadRows'
  BY <1>1, RequestsQuiet
<1>3. (OnePlan /\ MadeInOrder)'
  BY RecordsQuiet
<1>4. TasksAccounted'
  BY AccountsQuiet
<1>5. DoneIsComplete'
  BY <1>1, DoneQuiet DEF todoist
<1>6. (WorkerHoldsOne /\ StatusInHand /\ ItemInHand)'
  BY DEF WorkerHoldsOne, WorkerSteps, StatusInHand, ItemInHand
<1>7. InFlightIsInHand'
  <2>1. \A q \in inHand : q = r
    BY DEF IInv, WorkerHoldsOne
  <2> QED
    BY <1>1, <2>1 DEF IInv, InFlightIsInHand
<1>8. Asking'
  BY DEF IInv, Asking, Asked
<1>9. AudioWhileNeeded'
  <2>1. status[r] # "error"
    BY DEF IInv, StatusInHand, InFlight
  <2> QED
    BY <1>1, <2>1 DEF IInv, AudioWhileNeeded, Rows
<1> QED
  BY <1>2, <1>3, <1>4, <1>5, <1>6, <1>7, <1>8, <1>9 DEF IInv

\* A creation whose answer was not stored when the process stopped is lost.
LEMMA CrashPreserves ==
  ASSUME IInv, TypeOK', Crash
  PROVE  IInv'
<1> USE DEF Crash, jobs
<1>0. TypeOK
  BY DEF IInv
<1>1. UploadRows'
  <2>1. \A p \in Posts : handler'[p] = handler[p] \/ handler'[p] = "refused"
    BY <1>0 DEF TypeOK
  <2> QED
    BY <2>1 DEF IInv, UploadRows, Rows, RowOf
<1>2. (WorkerHoldsOne /\ StatusInHand /\ InFlightIsInHand /\ ItemInHand)'
  BY DEF WorkerHoldsOne, WorkerSteps, StatusInHand, InFlightIsInHand, ItemInHand
<1>3. (Asking /\ AudioWhileNeeded)'
  BY DEF IInv, Asking, Asked, AudioWhileNeeded, Rows
<1>4. OnePlan' /\ MadeInOrder'
  BY DEF IInv, OnePlan, MadeInOrder, Asked, PlanOf
<1>5. DoneIsComplete'
  BY DEF IInv, DoneIsComplete, PlanOf
<1>6. TasksAccounted'
  <2>1. CASE worker = "putKey"
    <3>1. PICK r \in inHand : LoseAnswer(r)
      BY <2>1
    <3>2. r \in Posts /\ item \in AllItems
      BY <2>1, InHandType
    <3>3. \A q \in inHand : q = r
      BY DEF IInv, WorkerHoldsOne
    <3>4. /\ lost'[r][item] = lost[r][item] + 1
          /\ \A q \in Posts, i \in AllItems : q # r \/ i # item => lost'[q][i] = lost[q][i]
      BY <1>0, <3>1, <3>2, CountedOnce DEF TypeOK, LoseAnswer
    <3>5. \A q \in Posts, i \in AllItems : made[q][i] \in Nat /\ lost[q][i] \in Nat
      BY <1>0 DEF TypeOK
    <3>6. ASSUME NEW q \in Posts, NEW i \in AllItems, q = r /\ i = item
          PROVE  (TodoistDedupes => made[q][i] <= 1) /\ made[q][i] <= lost'[q][i]
      BY <3>4, <3>5, <3>6 DEF IInv, TasksAccounted
    <3>7. ASSUME NEW q \in Posts, NEW i \in AllItems, ~(q = r /\ i = item)
          PROVE  ~AboutToStore(q, i) /\ lost'[q][i] = lost[q][i]
      BY <3>3, <3>4, <3>7 DEF AboutToStore
    <3>8. \A q \in Posts, i \in AllItems : ~AboutToStore(q, i)'
      BY DEF AboutToStore
    <3> QED
      BY <3>4, <3>5, <3>6, <3>7, <3>8 DEF IInv, TasksAccounted
  <2>2. CASE worker # "putKey"
    BY <2>2, AccountsQuiet DEF todoist
  <2> QED
    BY <2>1, <2>2
<1> QED
  BY <1>1, <1>2, <1>3, <1>4, <1>5, <1>6 DEF IInv

-----------------------------------------------------------------------------
(* The pipeline preserves it.                                              *)

\* Nothing has been made for a recording that is heard only now.
LEMMA TranscribePreserves ==
  ASSUME IInv, TypeOK', NEW r \in Posts, Transcribe(r)
  PROVE  IInv'
<1> USE DEF Transcribe
<1>0. TypeOK /\ \A q \in inHand : q = r
  BY DEF IInv, WorkerHoldsOne
<1>1. \A q \in Posts : Asked(q) => Asked(q)'
  BY <1>0 DEF IInv, TypeOK, Asked, Asking
<1>2. UploadRows'
  BY RequestsQuiet
<1>3. (OnePlan /\ MadeInOrder)'
  BY <1>1 DEF IInv, OnePlan, MadeInOrder, PlanOf, todoist
<1>4. TasksAccounted'
  BY AccountsQuiet
<1>5. DoneIsComplete'
  BY DoneQuiet
<1>6. (WorkerHoldsOne /\ StatusInHand /\ InFlightIsInHand /\ ItemInHand)'
  BY DEF IInv, WorkerHoldsOne, WorkerSteps, StatusInHand, InFlightIsInHand, ItemInHand, InFlight
<1>7. Asking'
  BY <1>0 DEF IInv, TypeOK, Asking
<1>8. AudioWhileNeeded'
  BY <1>0 DEF IInv, TypeOK, AudioWhileNeeded, Rows
<1> QED
  BY <1>2, <1>3, <1>4, <1>5, <1>6, <1>7, <1>8 DEF IInv

LEMMA StructurePreserves ==
  ASSUME IInv, TypeOK', NEW r \in Posts, Structure(r)
  PROVE  IInv'
<1> USE DEF Structure, SetStatus
<1>0. /\ TypeOK
      /\ \A q \in inHand : q = r
      /\ status[r] = "transcribing" /\ transcript[r] # "null"
  BY DEF IInv, WorkerHoldsOne, StatusInHand, Asking
<1>1. \A q \in Posts : /\ status'[q] = "absent" <=> status[q] = "absent"
                       /\ status'[q] = "done" => status[q] = "done"
                       /\ status'[q] = "error" <=> status[q] = "error"
                       /\ status'[q] \in InFlight => status[q] \in InFlight
  BY <1>0 DEF TypeOK, InFlight
<1>2. UploadRows'
  BY <1>1, RequestsQuiet
<1>3. (OnePlan /\ MadeInOrder)'
  BY RecordsQuiet
<1>4. TasksAccounted'
  BY AccountsQuiet
<1>5. DoneIsComplete'
  BY <1>1, DoneQuiet DEF todoist
<1>6. (WorkerHoldsOne /\ ItemInHand)'
  BY DEF IInv, WorkerHoldsOne, WorkerSteps, ItemInHand
<1>7. StatusInHand'
  BY <1>0 DEF TypeOK, StatusInHand
<1>8. InFlightIsInHand'
  BY <1>1 DEF IInv, InFlightIsInHand
<1>9. Asking'
  BY <1>0 DEF IInv, TypeOK, Asking, Asked, PlanOf
<1>10. AudioWhileNeeded'
  BY <1>1 DEF IInv, AudioWhileNeeded, Rows
<1> QED
  BY <1>2, <1>3, <1>4, <1>5, <1>6, <1>7, <1>8, <1>9, <1>10 DEF IInv

\* The plan changes only while nothing has been made from the one before.
LEMMA AskLLMPreserves ==
  ASSUME IInv, TypeOK', NEW r \in Posts, AskLLM(r)
  PROVE  IInv'
<1> USE DEF AskLLM
<1>0. /\ TypeOK
      /\ \A q \in inHand : q = r
      /\ status[r] = "structuring" /\ transcript[r] = "text" /\ llm[r] = NoPlan
  BY DEF IInv, WorkerHoldsOne, StatusInHand, Asking
<1>1. ~Asked(r) /\ created[r] = 0 /\ madeFrom[r] = {}
  BY <1>0 DEF IInv, MadeInOrder, Asked
<1>2. \A q \in Posts : q # r => PlanOf(q)' = PlanOf(q) /\ (Asked(q)' <=> Asked(q))
  BY <1>0 DEF TypeOK, PlanOf, Asked
<1>3. PlanOf(r)' \in AllPlans
  BY DEF TypeOK, PlanOf, AllPlans
<1>4. UploadRows'
  BY RequestsQuiet
<1>5. OnePlan'
  BY <1>1, <1>2 DEF IInv, OnePlan, todoist
<1>6. MadeInOrder'
  <2>1. \A q \in Posts : ~Asked(q)' => created'[q] = 0 /\ madeFrom'[q] = {}
    BY <1>1, <1>2 DEF IInv, MadeInOrder, todoist
  <2>2. \A q \in Posts : created'[q] <= Len(PlanOf(q)')
    <3>1. 0 <= Len(PlanOf(r)')
      BY <1>3, PlanType
    <3> QED
      BY <1>1, <1>2, <3>1 DEF IInv, MadeInOrder
  <2>3. \A q \in Posts : \A i \in Items(PlanOf(q)') : i[1] <= created'[q] => made'[q][i] > 0
    <3>1. \A i \in Items(PlanOf(r)') : ~(i[1] <= 0)
      BY <1>3, ItemType
    <3> QED
      BY <1>1, <1>2, <3>1 DEF IInv, MadeInOrder, todoist
  <2>4. \A q \in Posts : \A i \in keys'[q] : made'[q][i] > 0
    BY DEF IInv, MadeInOrder, todoist
  <2> QED
    BY <2>1, <2>2, <2>3, <2>4 DEF MadeInOrder
<1>7. TasksAccounted'
  BY AccountsQuiet
<1>8. DoneIsComplete'
  <2>1. \A q \in Posts : status'[q] = "done" => status[q] = "done" /\ q # r
    BY <1>0
  <2> QED
    BY <1>2, <2>1 DEF IInv, DoneIsComplete, todoist
<1>9. (WorkerHoldsOne /\ StatusInHand /\ InFlightIsInHand /\ ItemInHand)'
  BY DEF IInv, WorkerHoldsOne, WorkerSteps, StatusInHand, InFlightIsInHand, ItemInHand, InFlight
<1>10. Asking'
  BY <1>0, HubAssumption DEF IInv, TypeOK, Asking, Asked, PlanOf, HubAssumption, NoPlan
<1>11. AudioWhileNeeded'
  BY DEF IInv, AudioWhileNeeded, Rows
<1> QED
  BY <1>4, <1>5, <1>6, <1>7, <1>8, <1>9, <1>10, <1>11 DEF IInv

\* Before the first subtask of a task there is none.
LEMMA BeginPreserves ==
  ASSUME IInv, TypeOK', NEW r \in Posts, Begin(r)
  PROVE  IInv'
<1> USE DEF Begin, SetStatus
<1>0. /\ TypeOK
      /\ \A q \in inHand : q = r
      /\ status[r] \in {"transcribing", "structuring"}
      /\ plan \in AllPlans /\ plan = PlanOf(r) /\ Asked(r)
      /\ created[r] \in Nat /\ created[r] <= Len(plan)
  BY InHandType DEF IInv, TypeOK, WorkerHoldsOne, StatusInHand, MadeInOrder
<1>1. \A q \in Posts : /\ status'[q] = "absent" <=> status[q] = "absent"
                       /\ status'[q] = "done" => status[q] = "done"
                       /\ status'[q] = "error" <=> status[q] = "error"
                       /\ status'[q] \in InFlight => status[q] \in InFlight
  BY <1>0 DEF TypeOK, InFlight
<1>2. /\ worker' \in {"task", "finish"}
      /\ worker' = "task" => item' \in Items(plan) /\ item'[1] = created[r] + 1 /\ item'[2] = 0
      /\ worker' = "finish" => created[r] = Len(plan)
  BY <1>0, GoToTaskType
<1>3. UploadRows'
  BY <1>1, RequestsQuiet
<1>4. (OnePlan /\ MadeInOrder)'
  BY RecordsQuiet
<1>5. TasksAccounted'
  BY AccountsQuiet
<1>6. DoneIsComplete'
  BY <1>1, DoneQuiet DEF todoist
<1>7. WorkerHoldsOne' /\ StatusInHand'
  BY <1>0, <1>2 DEF IInv, TypeOK, WorkerHoldsOne, WorkerSteps, StatusInHand
<1>8. InFlightIsInHand'
  BY <1>1 DEF IInv, InFlightIsInHand
<1>9. Asking'
  BY <1>0, <1>2 DEF IInv, Asking, Asked, PlanOf
<1>10. ItemInHand'
  <2>1. \A i \in Items(plan) : i[2] \in Nat
    BY <1>0, ItemType
  <2>2. \A i \in Items(plan) : ~(i[2] < 0)
    BY <2>1
  <2> QED
    BY <1>0, <1>2, <2>2 DEF ItemInHand
<1>11. AudioWhileNeeded'
  BY <1>1 DEF IInv, AudioWhileNeeded, Rows
<1> QED
  BY <1>3, <1>4, <1>5, <1>6, <1>7, <1>8, <1>9, <1>10, <1>11 DEF IInv

LEMMA FindKeyPreserves ==
  ASSUME IInv, TypeOK', NEW r \in Posts, FindKey(r)
  PROVE  IInv'
<1> USE DEF FindKey, jobs, progress
<1>0. TypeOK /\ \A q \in inHand : q = r
  BY DEF IInv, WorkerHoldsOne
<1>1. UploadRows'
  BY RequestsQuiet
<1>2. (OnePlan /\ MadeInOrder)'
  BY RecordsQuiet
<1>3. TasksAccounted'
  BY AccountsQuiet
<1>4. DoneIsComplete'
  BY DoneQuiet DEF todoist
<1>5. (WorkerHoldsOne /\ StatusInHand /\ InFlightIsInHand)'
  BY DEF IInv, WorkerHoldsOne, WorkerSteps, StatusInHand, InFlightIsInHand
<1>6. ItemInHand'
  BY <1>0 DEF IInv, ItemInHand, MadeInOrder, todoist
<1>7. (Asking /\ AudioWhileNeeded)'
  BY DEF IInv, Asking, Asked, PlanOf, AudioWhileNeeded, Rows
<1> QED
  BY <1>1, <1>2, <1>3, <1>4, <1>5, <1>6, <1>7 DEF IInv

\* What a call to Todoist does: at most one more task, of the item in hand.
LEMMA SendEffect ==
  ASSUME IInv, NEW r \in Posts, Send(r)
  PROVE  /\ \A q \in Posts, i \in AllItems : made[q][i] > 0 => made'[q][i] > 0
         /\ \A q \in Posts : madeFrom'[q] = madeFrom[q] \/ (q = r /\ madeFrom'[q] \subseteq madeFrom[q] \cup {plan})
         /\ worker' = "putKey" => made'[r][item] > 0
         /\ \A q \in Posts, i \in AllItems : q # r \/ i # item =>
              made'[q][i] = made[q][i] /\ lost'[q][i] = lost[q][i]
         /\ TodoistDedupes => made'[r][item] <= 1
         /\ made'[r][item] <= lost'[r][item] + 1
         /\ ~TodoistDedupes /\ worker' # "putKey" => made'[r][item] <= lost'[r][item]
<1> USE DEF todoist
<1>0. TypeOK /\ r \in inHand /\ worker = "send" /\ item \in AllItems
  BY InHandType DEF IInv, Send
<1>1. /\ made[r][item] \in Nat /\ lost[r][item] \in Nat
      /\ TodoistDedupes => made[r][item] <= 1
      /\ made[r][item] <= lost[r][item] + 1
      /\ ~TodoistDedupes => made[r][item] <= lost[r][item]
  BY <1>0 DEF IInv, TypeOK, ItemInHand, TasksAccounted, AboutToStore
<1>2. ASSUME Make(r)
      PROVE  /\ made'[r][item] \in Nat /\ made'[r][item] > 0
             /\ made'[r][item] <= made[r][item] + 1
             /\ TodoistDedupes => made'[r][item] <= 1
             /\ \A q \in Posts, i \in AllItems : q # r \/ i # item => made'[q][i] = made[q][i]
             /\ \A q \in Posts : madeFrom'[q] = madeFrom[q] \/ (q = r /\ madeFrom'[q] \subseteq madeFrom[q] \cup {plan})
  <2>1. CASE TodoistDedupes /\ made[r][item] > 0
    BY <1>1, <1>2, <2>1 DEF Make
  <2>2. CASE ~(TodoistDedupes /\ made[r][item] > 0)
    <3>1. /\ made' = [made EXCEPT ![r][item] = @ + 1]
          /\ madeFrom' = [madeFrom EXCEPT ![r] = @ \cup {plan}]
      BY <1>2, <2>2 DEF Make
    <3>2. /\ made'[r][item] = made[r][item] + 1
          /\ \A q \in Posts, i \in AllItems : q # r \/ i # item => made'[q][i] = made[q][i]
      BY <1>0, <3>1, CountedOnce DEF TypeOK
    <3>3. \A q \in Posts : madeFrom'[q] = madeFrom[q] \/ (q = r /\ madeFrom'[q] \subseteq madeFrom[q] \cup {plan})
      BY <1>0, <3>1 DEF TypeOK
    <3> QED
      BY <1>1, <2>2, <3>2, <3>3
  <2> QED
    BY <2>1, <2>2
<1>3. ASSUME LoseAnswer(r)
      PROVE  /\ lost'[r][item] = lost[r][item] + 1
             /\ \A q \in Posts, i \in AllItems : q # r \/ i # item => lost'[q][i] = lost[q][i]
  BY <1>0, <1>3, CountedOnce DEF TypeOK, LoseAnswer
<1>4. CASE Make(r) /\ worker' = "putKey" /\ UNCHANGED lost
  <2>1. \A q \in Posts, i \in AllItems : made[q][i] > 0 => made'[q][i] > 0
    BY <1>2, <1>4
  <2> QED
    BY <1>1, <1>2, <1>4, <2>1
<1>5. CASE Make(r) /\ LoseAnswer(r) /\ worker' = "failed"
  <2>1. \A q \in Posts, i \in AllItems : made[q][i] > 0 => made'[q][i] > 0
    BY <1>2, <1>5
  <2> QED
    BY <1>1, <1>2, <1>3, <1>5, <2>1
<1>6. CASE UNCHANGED todoist /\ worker' = "failed"
  BY <1>1, <1>6
<1> QED
  BY <1>4, <1>5, <1>6 DEF Send

LEMMA SendPreserves ==
  ASSUME IInv, TypeOK', NEW r \in Posts, Send(r)
  PROVE  IInv'
<1>0. /\ TypeOK /\ r \in inHand /\ worker = "send"
      /\ \A q \in inHand : q = r
      /\ item \in Items(plan) /\ item \in AllItems
      /\ plan \in AllPlans /\ plan = PlanOf(r) /\ Asked(r) /\ status[r] = "creating"
  BY InHandType DEF IInv, WorkerHoldsOne, StatusInHand, Send
<1>1. UNCHANGED <<requests, audio, status, transcript, llm, created, received, keys, inHand,
                  plan, item>>
      /\ worker' \in {"putKey", "failed"}
  BY DEF Send, jobs, progress
<1>2. \A q \in Posts : PlanOf(q)' = PlanOf(q) /\ (Asked(q)' <=> Asked(q))
  BY <1>1 DEF PlanOf, Asked
<1>3. \A q \in Posts : \A i \in Items(PlanOf(q)) : i \in AllItems
  BY PlanOfType, <1>0 DEF AllItems
<1>4. UploadRows'
  BY <1>1, RequestsQuiet
<1>5. OnePlan'
  BY <1>0, <1>2, SendEffect DEF IInv, OnePlan
<1>6. MadeInOrder'
  <2>1. \A q \in Posts : ~Asked(q)' => created'[q] = 0 /\ madeFrom'[q] = {}
    BY <1>0, <1>1, <1>2, SendEffect DEF IInv, MadeInOrder
  <2>2. \A q \in Posts : created'[q] <= Len(PlanOf(q)')
    BY <1>1, <1>2 DEF IInv, MadeInOrder
  <2>3. \A q \in Posts : \A i \in Items(PlanOf(q)') : i[1] <= created'[q] => made'[q][i] > 0
    BY <1>1, <1>2, <1>3, SendEffect DEF IInv, MadeInOrder
  <2>4. \A q \in Posts : \A i \in keys'[q] : made'[q][i] > 0
    BY <1>0, <1>1, SendEffect DEF IInv, TypeOK, MadeInOrder
  <2> QED
    BY <2>1, <2>2, <2>3, <2>4 DEF MadeInOrder
<1>7. DoneIsComplete'
  BY <1>1, <1>2, <1>3, SendEffect DEF IInv, DoneIsComplete
<1>8. TasksAccounted'
  <2>1. \A q \in Posts, i \in AllItems : q # r \/ i # item =>
          ~AboutToStore(q, i) /\ made'[q][i] = made[q][i] /\ lost'[q][i] = lost[q][i]
    BY <1>0, SendEffect DEF AboutToStore
  <2>2. ASSUME NEW q \in Posts, NEW i \in AllItems, q = r /\ i = item
        PROVE  /\ TodoistDedupes => made'[q][i] <= 1
               /\ made'[q][i] <= lost'[q][i] + 1
               /\ ~TodoistDedupes /\ i \notin keys'[q] /\ ~AboutToStore(q, i)' =>
                    made'[q][i] <= lost'[q][i]
    <3>1. /\ TodoistDedupes => made'[r][item] <= 1
          /\ made'[r][item] <= lost'[r][item] + 1
          /\ ~TodoistDedupes /\ worker' # "putKey" => made'[r][item] <= lost'[r][item]
      BY SendEffect
    <3>2. ~AboutToStore(q, i)' => worker' # "putKey"
      BY <1>0, <1>1, <2>2 DEF AboutToStore
    <3> QED
      BY <2>2, <3>1, <3>2
  <2>3. ASSUME NEW q \in Posts, NEW i \in AllItems, q # r \/ i # item
        PROVE  /\ TodoistDedupes => made'[q][i] <= 1
               /\ made'[q][i] <= lost'[q][i] + 1
               /\ ~TodoistDedupes /\ i \notin keys'[q] /\ ~AboutToStore(q, i)' =>
                    made'[q][i] <= lost'[q][i]
    BY <1>1, <2>1, <2>3 DEF IInv, TasksAccounted
  <2> QED
    BY <2>2, <2>3 DEF TasksAccounted
<1>9. ItemInHand'
  <2>1. \A i \in Items(plan) : i \in AllItems
    BY <1>0, ItemType
  <2> QED
    BY <1>0, <1>1, <2>1, SendEffect DEF IInv, ItemInHand
<1>10. (WorkerHoldsOne /\ StatusInHand /\ InFlightIsInHand)'
  BY <1>0, <1>1 DEF IInv, WorkerHoldsOne, WorkerSteps, StatusInHand, InFlightIsInHand, InFlight
<1>11. (Asking /\ AudioWhileNeeded)'
  BY <1>0, <1>1, <1>2 DEF IInv, Asking, AudioWhileNeeded, Rows
<1> QED
  BY <1>4, <1>5, <1>6, <1>7, <1>8, <1>9, <1>10, <1>11 DEF IInv

LEMMA PutKeyPreserves ==
  ASSUME IInv, TypeOK', NEW r \in Posts, PutKey(r)
  PROVE  IInv'
<1> USE DEF PutKey, progress, todoist
<1>0. /\ TypeOK
      /\ \A q \in inHand : q = r
      /\ item \in AllItems /\ made[r][item] > 0
  BY InHandType DEF IInv, WorkerHoldsOne, ItemInHand
<1>1. \A q \in Posts : keys'[q] = IF q = r THEN keys[q] \cup {item} ELSE keys[q]
  BY <1>0 DEF TypeOK
<1>2. UploadRows'
  BY RequestsQuiet
<1>3. OnePlan'
  BY DEF IInv, OnePlan, PlanOf
<1>4. MadeInOrder'
  BY <1>0, <1>1 DEF IInv, MadeInOrder, Asked, PlanOf
<1>5. DoneIsComplete'
  BY DoneQuiet
<1>6. TasksAccounted'
  BY <1>0, <1>1 DEF IInv, TasksAccounted, AboutToStore
<1>7. (WorkerHoldsOne /\ StatusInHand /\ InFlightIsInHand)'
  BY DEF IInv, WorkerHoldsOne, WorkerSteps, StatusInHand, InFlightIsInHand
<1>8. ItemInHand'
  BY DEF IInv, ItemInHand
<1>9. (Asking /\ AudioWhileNeeded)'
  BY DEF IInv, Asking, Asked, PlanOf, AudioWhileNeeded, Rows
<1> QED
  BY <1>2, <1>3, <1>4, <1>5, <1>6, <1>7, <1>8, <1>9 DEF IInv

\* A task is recorded when it and all its subtasks have been made.
LEMMA TaskCreatedPreserves ==
  ASSUME IInv, TypeOK', NEW r \in Posts, TaskCreated(r)
  PROVE  IInv'
<1> USE DEF TaskCreated
<1>0. /\ TypeOK /\ r \in inHand /\ worker = "created"
      /\ \A q \in inHand : q = r
      /\ item \in Items(plan) /\ item[1] = created[r] + 1 /\ made[r][item] > 0
      /\ plan \in AllPlans /\ plan = PlanOf(r) /\ Asked(r) /\ status[r] = "creating"
  BY InHandType DEF IInv, WorkerHoldsOne, StatusInHand, ItemInHand
<1>1. /\ item = <<item[1], item[2]>> /\ item[2] \in Nat /\ plan[item[1]] \in Nat
      /\ item[1] \in 1 .. Len(plan) /\ item[1] \in Nat /\ Len(plan) \in Nat
      /\ item[1] <= Len(plan)
  BY <1>0, ItemType, PlanType
<1>2. /\ worker' \in {"task", "finish"}
      /\ worker' = "task" => item' \in Items(plan)
      /\ UNCHANGED <<requests, audio, status, transcript, llm, keys, inHand, plan, todoist>>
  <2>1. CASE item[2] < plan[item[1]]
    <3>1. item[2] + 1 \in 0 .. plan[item[1]]
      BY <1>1, <2>1
    <3> QED
      BY <1>0, <1>1, <2>1, <3>1, ItemAt
  <2>2. CASE ~(item[2] < plan[item[1]])
    BY <1>0, <1>1, <2>2, GoToTaskType
  <2> QED
    BY <2>1, <2>2
<1>3. /\ \A i \in Items(plan) : i[1] = item[1] /\ i[2] < item[2] => made[r][i] > 0
      /\ \A i \in Items(plan) : /\ i = <<i[1], i[2]>> /\ i[1] \in Nat /\ i[2] \in Nat
                                /\ i[2] <= plan[i[1]]
  BY <1>0, ItemType DEF IInv, ItemInHand
\* What has been made of the current task, the current item included.
<1>4. \A i \in Items(plan) : i[1] = item[1] /\ i[2] <= item[2] => made[r][i] > 0
  <2> SUFFICES ASSUME NEW i \in Items(plan), i[1] = item[1], i[2] <= item[2]
               PROVE  made[r][i] > 0
    OBVIOUS
  <2>1. CASE i[2] < item[2]
    BY <1>3, <2>1
  <2>2. CASE i[2] = item[2]
    <3>1. i = item
      BY <1>1, <1>3, <2>2
    <3> QED
      BY <1>0, <3>1
  <2> QED
    BY <1>1, <1>3, <2>1, <2>2
<1>5. \A q \in Posts : PlanOf(q)' = PlanOf(q) /\ (Asked(q)' <=> Asked(q))
  BY <1>2 DEF PlanOf, Asked
<1>6. UploadRows'
  BY <1>2, RequestsQuiet
<1>7. OnePlan'
  BY <1>2, <1>5 DEF IInv, OnePlan, todoist
<1>8. TasksAccounted'
  BY <1>0, <1>2, AccountsQuiet
<1>9. (WorkerHoldsOne /\ StatusInHand /\ InFlightIsInHand /\ AudioWhileNeeded)'
  BY <1>0, <1>2 DEF IInv, WorkerHoldsOne, WorkerSteps, StatusInHand, InFlightIsInHand,
                    AudioWhileNeeded, Rows
<1>10. Asking'
  BY <1>0, <1>2, <1>5 DEF IInv, Asking
<1>11. CASE item[2] < plan[item[1]]
  <2>1. /\ worker' = "task" /\ item' = <<item[1], item[2] + 1>>
        /\ item'[1] = item[1] /\ item'[2] = item[2] + 1 /\ created' = created
    BY <1>11
  <2>2. MadeInOrder'
    BY <1>2, <1>5, <2>1 DEF IInv, MadeInOrder, todoist
  <2>3. \A i \in Items(plan) : i[1] = item'[1] /\ i[2] < item'[2] => made'[r][i] > 0
    BY <1>1, <1>2, <1>3, <1>4, <2>1 DEF todoist
  <2>4. ItemInHand'
    BY <1>0, <1>2, <2>1, <2>3 DEF ItemInHand
  <2>5. DoneIsComplete'
    BY <1>2, <2>1, DoneQuiet
  <2> QED
    BY <1>6, <1>7, <1>8, <1>9, <1>10, <2>2, <2>4, <2>5 DEF IInv
<1>12. CASE ~(item[2] < plan[item[1]])
  <2>1. /\ \A q \in Posts : created'[q] = IF q = r THEN item[1] ELSE created[q]
        /\ GoToTask(item[1])
    BY <1>0, <1>12 DEF TypeOK
  <2>2. /\ worker' = "task" => item'[1] = item[1] + 1 /\ item'[2] = 0
        /\ worker' = "finish" => item[1] = Len(plan)
    BY <1>0, <1>1, <2>1, GoToTaskType
  <2>3. \A i \in Items(plan) : i[1] <= item[1] => made[r][i] > 0
    <3> SUFFICES ASSUME NEW i \in Items(plan), i[1] <= item[1]
                 PROVE  made[r][i] > 0
      OBVIOUS
    <3>1. CASE i[1] <= created[r]
      BY <1>0, <3>1 DEF IInv, MadeInOrder
    <3>2. CASE i[1] = item[1]
      BY <1>1, <1>3, <1>4, <1>12, <3>2
    <3> QED
      BY <1>0, <1>3, <3>1, <3>2 DEF TypeOK
  <2>4. MadeInOrder'
    BY <1>0, <1>1, <1>2, <1>5, <2>1, <2>3 DEF IInv, MadeInOrder, todoist
  <2>5. ItemInHand'
    BY <1>0, <1>2, <1>3, <2>1, <2>2 DEF ItemInHand
  <2>6. DoneIsComplete'
    BY <1>0, <1>2, <1>5, <2>1 DEF IInv, DoneIsComplete, todoist
  <2> QED
    BY <1>6, <1>7, <1>8, <1>9, <1>10, <2>4, <2>5, <2>6 DEF IInv
<1> QED
  BY <1>11, <1>12

\* set_done: the plan is exhausted.
LEMMA FinishPreserves ==
  ASSUME IInv, TypeOK', NEW r \in Posts, Finish(r)
  PROVE  IInv'
<1> USE DEF Finish, SetStatus, Release
<1>0. /\ TypeOK /\ r \in inHand
      /\ \A q \in inHand : q = r
      /\ status[r] = "creating"
      /\ plan \in AllPlans /\ plan = PlanOf(r) /\ created[r] = Len(plan)
  BY InHandType DEF IInv, WorkerHoldsOne, StatusInHand, ItemInHand
<1>1. \A q \in Posts : /\ status'[q] = "absent" <=> status[q] = "absent"
                       /\ q # r => status'[q] = status[q]
                       /\ status'[r] = "done"
  BY <1>0 DEF TypeOK
<1>2. UploadRows'
  BY <1>1, RequestsQuiet
<1>3. (OnePlan /\ MadeInOrder)'
  BY RecordsQuiet
<1>4. TasksAccounted'
  BY AccountsQuiet
<1>5. DoneIsComplete'
  <2>1. \A i \in Items(PlanOf(r)) : made[r][i] > 0
    <3>1. \A i \in Items(PlanOf(r)) : i[1] <= created[r]
      BY <1>0, ItemType, PlanType
    <3> QED
      BY <3>1 DEF IInv, MadeInOrder
  <2> QED
    BY <1>0, <1>1, <2>1 DEF IInv, DoneIsComplete, PlanOf, todoist
<1>6. (WorkerHoldsOne /\ StatusInHand /\ ItemInHand)'
  BY <1>0, <1>1 DEF IInv, WorkerHoldsOne, WorkerSteps, StatusInHand, ItemInHand
<1>7. InFlightIsInHand'
  BY <1>0, <1>1 DEF IInv, InFlightIsInHand, InFlight
<1>8. Asking'
  BY DEF IInv, Asking, Asked
<1>9. AudioWhileNeeded'
  BY <1>0, <1>1 DEF IInv, AudioWhileNeeded, Rows
<1> QED
  BY <1>2, <1>3, <1>4, <1>5, <1>6, <1>7, <1>8, <1>9 DEF IInv

LEMMA RetainPreserves ==
  ASSUME IInv, TypeOK', NEW r \in Posts, Retain(r)
  PROVE  IInv'
<1> USE DEF Retain, Release, jobs
<1>0. /\ TypeOK /\ r \in inHand
      /\ \A q \in inHand : q = r
      /\ status[r] = "done"
      /\ transcript[r] # "null"
  BY DoneIsHeard DEF IInv, TypeOK, WorkerHoldsOne, StatusInHand
<1>1. UploadRows'
  BY <1>0 DEF IInv, UploadRows, Rows, RowOf, requests
<1>2. (OnePlan /\ MadeInOrder)'
  BY RecordsQuiet
<1>3. TasksAccounted'
  BY AccountsQuiet
<1>4. DoneIsComplete'
  BY DoneQuiet DEF todoist
<1>5. AudioWhileNeeded'
  BY <1>0 DEF IInv, AudioWhileNeeded, Rows
<1>6. RetainZero
  BY <1>0 DEF IInv, StatusInHand
<1>7. (WorkerHoldsOne /\ StatusInHand /\ ItemInHand)'
  BY <1>0, <1>6 DEF IInv, WorkerHoldsOne, WorkerSteps, StatusInHand, ItemInHand
<1>8. InFlightIsInHand'
  BY <1>0 DEF IInv, InFlightIsInHand, InFlight
<1>9. Asking'
  BY DEF IInv, Asking, Asked, PlanOf
<1> QED
  BY <1>1, <1>2, <1>3, <1>4, <1>5, <1>7, <1>8, <1>9 DEF IInv

-----------------------------------------------------------------------------
(* The theorems.                                                           *)

\* Before the first upload there is nothing to hold true.
LEMMA InitInv == Init => IInv
<1> SUFFICES ASSUME Init
             PROVE  IInv
  OBVIOUS
<1> USE DEF Init
<1>1. TypeOK
  BY InitType
<1>2. Rows = {} /\ \A r \in Posts : PlanOf(r) = EmptyPlan /\ ~Asked(r)
  BY DEF Rows, PlanOf, Asked
<1>3. UploadRows /\ WorkerHoldsOne /\ StatusInHand /\ InFlightIsInHand /\ AudioWhileNeeded
  BY <1>2 DEF UploadRows, WorkerHoldsOne, WorkerSteps, StatusInHand, InFlightIsInHand,
              AudioWhileNeeded
<1>4. Asking /\ OnePlan /\ ItemInHand /\ DoneIsComplete
  BY DEF Asking, OnePlan, ItemInHand, DoneIsComplete
<1>5. MadeInOrder
  <2>1. EmptyPlan \in AllPlans
    BY DEF AllPlans
  <2>2. 0 <= Len(EmptyPlan) /\ \A i \in Items(EmptyPlan) : ~(i[1] <= 0)
    BY <2>1, PlanType, ItemType
  <2> QED
    BY <1>2, <2>2 DEF MadeInOrder
<1>6. TasksAccounted
  BY DEF TasksAccounted
<1> QED
  BY <1>1, <1>3, <1>4, <1>5, <1>6 DEF IInv

\* Every step of a handler, the worker, the retention or the process keeps it.
LEMMA NextInv == IInv /\ [Next]_vars => IInv'
<1> SUFFICES ASSUME IInv, [Next]_vars
             PROVE  IInv'
  OBVIOUS
<1>0. TypeOK'
  BY TypeStep
<1>1. CASE Handlers
  BY <1>0, <1>1, PostKnownPreserves, PostNewPreserves, PostRefusedPreserves,
     PostInsertedPreserves, PostBeatenPreserves DEF Handlers
<1>2. CASE StartHub
  BY <1>0, <1>2, StartHubPreserves
<1>3. CASE ResetStuck
  BY <1>0, <1>3, ResetStuckPreserves
<1>4. ASSUME NEW r \in Posts, Claim(r) \/ Fail(r)
      PROVE  IInv'
  BY <1>0, <1>4, ClaimPreserves, FailPreserves
<1>5. ASSUME NEW r \in Posts, Transcribe(r) \/ Structure(r) \/ AskLLM(r)
      PROVE  IInv'
  BY <1>0, <1>5, TranscribePreserves, StructurePreserves, AskLLMPreserves
<1>6. ASSUME NEW r \in Posts, Begin(r) \/ FindKey(r) \/ Send(r) \/ PutKey(r)
      PROVE  IInv'
  BY <1>0, <1>6, BeginPreserves, FindKeyPreserves, SendPreserves, PutKeyPreserves
<1>7. ASSUME NEW r \in Posts, TaskCreated(r) \/ Finish(r) \/ Retain(r)
      PROVE  IInv'
  BY <1>0, <1>7, TaskCreatedPreserves, FinishPreserves, RetainPreserves
<1>8. ASSUME NEW r \in Posts, Purge(r)
      PROVE  IInv'
  BY <1>0, <1>8, PurgePreserves
<1>9. CASE Crash
  BY <1>0, <1>9, CrashPreserves
<1>10. CASE UNCHANGED vars
  <2> USE <1>10 DEF vars, jobs
  <2>1. UploadRows'
    BY RequestsQuiet
  <2>2. (WorkerHoldsOne /\ Asking /\ OnePlan /\ MadeInOrder /\ ItemInHand /\ TasksAccounted)'
    BY WorkQuiet
  <2>3. DoneIsComplete'
    BY DoneQuiet DEF todoist
  <2>4. (StatusInHand /\ InFlightIsInHand /\ AudioWhileNeeded)'
    BY DEF IInv, StatusInHand, InFlightIsInHand, AudioWhileNeeded, Rows
  <2> QED
    BY <1>0, <2>1, <2>2, <2>3, <2>4 DEF IInv
<1> QED
  BY <1>1, <1>2, <1>3, <1>4, <1>5, <1>6, <1>7, <1>8, <1>9, <1>10 DEF Next, WorkerStep

\* The inductive invariant.
LEMMA IInvHolds == Spec => []IInv
BY InitInv, NextInv, PTL DEF Spec

\* Every column, file and counter keeps its type; the worker's place in a plan
\* is always one of its tasks or subtasks.
THEOREM TypeCorrect == Spec => []TypeOK
<1>1. IInv => TypeOK
  BY DEF IInv
<1> QED
  BY IInvHolds, <1>1, PTL

\* create_recording answers all uploads of one capture with one recording.
THEOREM UploadsAgree == Spec => []AnswersAgree
<1>1. IInv => AnswersAgree
  BY DEF IInv, UploadRows, AnswersAgree, RowOf
<1> QED
  BY IInvHolds, <1>1, PTL

\* Neither a second upload nor the retention removes a WAV that is still needed.
THEOREM AudioIsKept == Spec => []AudioWhileNeeded
<1>1. IInv => AudioWhileNeeded
  BY DEF IInv
<1> QED
  BY IInvHolds, <1>1, PTL

\* Through retries and restarts, Todoist has at most one task of each key for
\* each answer that did not reach todoist_task_keys, and one if it dedupes.
THEOREM DuplicatesAreLosses == Spec => []DuplicatesNeedALoss
<1>1. IInv => DuplicatesNeedALoss
  <2> SUFFICES ASSUME IInv, NEW r \in Posts, NEW i \in AllItems
               PROVE  made[r][i] <= IF TodoistDedupes THEN 1 ELSE 1 + lost[r][i]
    BY DEF DuplicatesNeedALoss
  <2>1. lost[r][i] \in Nat
    BY DEF IInv, TypeOK
  <2> QED
    BY <2>1 DEF IInv, TasksAccounted
<1> QED
  BY IInvHolds, <1>1, PTL

\* set_done is reached only with every task and subtask of the plan in Todoist.
THEOREM DoneMeansAllTasks == Spec => []DoneIsComplete
<1>1. IInv => DoneIsComplete
  BY DEF IInv
<1> QED
  BY IInvHolds, <1>1, PTL

\* All tasks of a recording come from one answer of the LLM.
THEOREM PlansAreNotMixed == Spec => []OnePlan
<1>1. IInv => OnePlan
  BY DEF IInv
<1> QED
  BY IInvHolds, <1>1, PTL

\* No job stays in an in-flight status unless the worker holds it.
THEOREM NoJobIsStranded == Spec => []InFlightIsInHand
<1>1. IInv => InFlightIsInHand
  BY DEF IInv
<1> QED
  BY IInvHolds, <1>1, PTL

-----------------------------------------------------------------------------
(* Refinement.                                                             *)

\* The one row of a capture says what becomes of it.
LEMMA ServerOfRow ==
  ASSUME IInv, NEW r \in Rows
  PROVE  /\ client[r] \in Clients
         /\ ServerOf(client[r]) = IF status[r] \in {"done", "error"} THEN status[r] ELSE "queued"
<1>1. RowOf(client[r]) = {r} /\ r \in Posts
  BY DEF IInv, UploadRows, Rows, RowOf
<1> QED
  BY <1>1 DEF ServerOf, IInv, TypeOK

\* Steps that accept no capture and end none.
LEMMA ServerQuiet ==
  ASSUME TypeOK, client' = client,
         \A r \in Posts : /\ status'[r] = "absent" <=> status[r] = "absent"
                          /\ status'[r] = "done" <=> status[r] = "done"
                          /\ status'[r] = "error" <=> status[r] = "error"
  PROVE  Server' = Server
<1>1. Rows' = Rows
  BY DEF Rows
<1>2. \A c \in Clients : RowOf(c)' = RowOf(c)
  BY <1>1 DEF RowOf
<1>3. \A c \in Clients : ServerOf(c)' = ServerOf(c)
  <2> SUFFICES ASSUME NEW c \in Clients
               PROVE  ServerOf(c)' = ServerOf(c)
    OBVIOUS
  <2>1. RowOf(c)' = RowOf(c) /\ \A r \in RowOf(c) : r \in Posts
    BY <1>2 DEF RowOf, Rows
  <2> QED
    BY <2>1 DEF ServerOf
<1> QED
  BY <1>3 DEF Server

\* A row that ends ends its capture.
LEMMA ServerEnds ==
  ASSUME IInv, IInv', client' = client, NEW r \in Rows,
         status[r] \notin {"done", "error"}, status'[r] \in {"done", "error"},
         \A q \in Posts : q # r => status'[q] = status[q]
  PROVE  Service!Resolve(client[r])
<1>0. r \in Posts /\ r \in Rows'
  BY DEF Rows
<1>1. client[r] \in Clients /\ ServerOf(client[r]) = "queued"
  BY ServerOfRow
<1>2. ServerOf(client[r])' = status'[r]
  <2>1. RowOf(client[r])' = {r}
    BY <1>0 DEF IInv, UploadRows, Rows, RowOf
  <2> QED
    BY <2>1 DEF ServerOf
<1>3. ASSUME NEW c \in Clients, c # client[r]
      PROVE  ServerOf(c)' = ServerOf(c)
  <2>1. /\ RowOf(c)' = RowOf(c)
        /\ \A q \in RowOf(c) : q \in Posts /\ status'[q] = status[q]
    BY <1>0, <1>3 DEF RowOf, Rows
  <2> QED
    BY <2>1 DEF ServerOf
<1> QED
  BY <1>1, <1>2, <1>3 DEF Server, Service!Resolve

\* A first row accepts its capture.
LEMMA ServerAccepts ==
  ASSUME IInv, IInv', NEW p \in Posts, PostInserted(p)
  PROVE  Service!Accept(client[p])
<1>0. TypeOK /\ RowOf(client[p]) = {} /\ client' = client /\ client[p] \in Clients
  BY DEF IInv, TypeOK, PostInserted, AnswerWith
<1>1. \A q \in Posts : status'[q] = IF q = p THEN "queued" ELSE status[q]
  BY <1>0 DEF TypeOK, PostInserted, SetStatus
<1>2. ServerOf(client[p])' = "queued"
  <2>1. p \in RowOf(client[p])' /\ status'[p] = "queued"
    BY <1>0, <1>1 DEF RowOf, Rows
  <2> QED
    BY <2>1 DEF ServerOf
<1>3. ASSUME NEW c \in Clients, c # client[p]
      PROVE  ServerOf(c)' = ServerOf(c)
  <2>1. /\ RowOf(c)' = RowOf(c)
        /\ \A q \in RowOf(c) : q \in Posts /\ status'[q] = status[q]
    BY <1>0, <1>1, <1>3 DEF RowOf, Rows
  <2> QED
    BY <2>1 DEF ServerOf
<1> QED
  BY <1>0, <1>2, <1>3 DEF Server, ServerOf, Service!Accept

\* Every step accepts one capture, ends one, or changes nothing that a device
\* can ask about.
LEMMA ServiceStep ==
  ASSUME ~RetainZero, IInv, IInv', [Next]_vars
  PROVE  [Service!Next]_Server
<1> USE DEF vars, jobs, requests
<1>0. TypeOK
  BY DEF IInv
<1>1. ASSUME NEW p \in Posts, PostInserted(p)
      PROVE  Service!Next
  <2>1. client[p] \in Clients
    BY <1>0 DEF TypeOK
  <2> QED
    BY <1>1, <2>1, ServerAccepts DEF Service!Next
<1>2. ASSUME NEW p \in Posts, PostKnown(p) \/ PostNew(p) \/ PostRefused(p) \/ PostBeaten(p)
      PROVE  Server' = Server
  BY <1>0, <1>2, ServerQuiet DEF PostKnown, PostNew, PostRefused, PostBeaten, AnswerWith
<1>3. CASE StartHub \/ Crash
  BY <1>0, <1>3, ServerQuiet DEF StartHub, Crash
<1>4. CASE ResetStuck
  <2>1. \A r \in Posts : /\ status'[r] = "absent" <=> status[r] = "absent"
                         /\ status'[r] = "done" <=> status[r] = "done"
                         /\ status'[r] = "error" <=> status[r] = "error"
    BY <1>0, <1>4 DEF TypeOK, ResetStuck, InFlight
  <2> QED
    BY <1>0, <1>4, <2>1, ServerQuiet DEF ResetStuck
<1>5. ASSUME NEW r \in Posts, Claim(r) \/ Structure(r) \/ Begin(r)
      PROVE  Server' = Server
  <2>1. status[r] \in {"queued", "transcribing", "structuring"}
    BY <1>5 DEF IInv, StatusInHand, Claim, Structure, Begin
  <2>2. \A q \in Posts : /\ status'[q] = "absent" <=> status[q] = "absent"
                         /\ status'[q] = "done" <=> status[q] = "done"
                         /\ status'[q] = "error" <=> status[q] = "error"
    BY <1>0, <1>5, <2>1 DEF TypeOK, Claim, Structure, Begin, SetStatus
  <2> QED
    BY <1>0, <1>5, <2>2, ServerQuiet DEF Claim, Structure, Begin
<1>6. ASSUME NEW r \in Posts,
             Transcribe(r) \/ AskLLM(r) \/ FindKey(r) \/ Send(r) \/ PutKey(r) \/ TaskCreated(r)
      PROVE  Server' = Server
  BY <1>0, <1>6, ServerQuiet DEF Transcribe, AskLLM, FindKey, Send, PutKey, TaskCreated
<1>7. ASSUME NEW r \in Posts, Retain(r) \/ Purge(r)
      PROVE  Server' = Server
  BY <1>0, <1>7, ServerQuiet DEF Retain, Purge
<1>8. ASSUME NEW r \in Posts, Finish(r)
      PROVE  Service!Next
  <2>1. status[r] = "creating" /\ r \in Rows
    BY <1>8, InHandIsRow DEF IInv, StatusInHand, Finish, Rows
  <2>2. /\ status'[r] = "done" /\ client' = client
        /\ \A q \in Posts : q # r => status'[q] = status[q]
    BY <1>0, <1>8 DEF TypeOK, Finish, SetStatus
  <2>3. client[r] \in Clients
    BY <2>1, ServerOfRow
  <2> QED
    BY <2>1, <2>2, <2>3, ServerEnds DEF Service!Next
<1>9. ASSUME NEW r \in Posts, Fail(r)
      PROVE  [Service!Next]_Server
  <2>1. status[r] \in InFlight /\ r \in Rows
    BY <1>9, InHandIsRow DEF IInv, StatusInHand, Fail, Rows
  <2>2. /\ status'[r] \in {"queued", "error"} /\ client' = client
        /\ \A q \in Posts : q # r => status'[q] = status[q]
    BY <1>0, <1>9 DEF TypeOK, Fail, SetStatus
  <2>3. client[r] \in Clients
    BY <2>1, ServerOfRow
  <2>4. CASE status'[r] = "error"
    BY <2>1, <2>2, <2>3, <2>4, ServerEnds DEF Service!Next, InFlight
  <2>5. CASE status'[r] = "queued"
    <3>1. \A q \in Posts : /\ status'[q] = "absent" <=> status[q] = "absent"
                           /\ status'[q] = "done" <=> status[q] = "done"
                           /\ status'[q] = "error" <=> status[q] = "error"
      BY <2>1, <2>2, <2>5 DEF InFlight, Rows
    <3> QED
      BY <1>0, <2>2, <3>1, ServerQuiet
  <2> QED
    BY <2>2, <2>4, <2>5
<1>10. CASE UNCHANGED vars
  BY <1>0, <1>10, ServerQuiet
<1> QED
  BY <1>1, <1>2, <1>3, <1>4, <1>5, <1>6, <1>7, <1>8, <1>9, <1>10
  DEF Next, Handlers, WorkerStep

\* With retain_audio_days above 0, a capture that is accepted is accepted once,
\* and ends once, whatever fails and however often the Hub restarts.
THEOREM ServiceKept ==
  ASSUME ~RetainZero
  PROVE  Spec => IsHubService
<1>1. Init => Service!Init
  BY DEF Init, Service!Init, Server, ServerOf, RowOf, Rows
<1>2. IInv /\ IInv' /\ [Next]_vars => [Service!Next]_Server
  BY ServiceStep
<1> QED
  BY <1>1, <1>2, IInvHolds, PTL DEF Spec, IsHubService, Service!Spec
=============================================================================
