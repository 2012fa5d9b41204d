---------------------------- MODULE RoutingProofs ----------------------------
(***************************************************************************)
(* What the Hub records of the tasks it has made, for every account, every *)
(* plan and every number of edits, failures and restarts; and what it      *)
(* takes for the JSON object, for every answer of the LLM.                 *)
(***************************************************************************)
EXTENDS HubRouting, FiniteSetTheorems, SequenceTheorems, WellFoundedInduction, TLAPS

-----------------------------------------------------------------------------
(* The invariants.                                                         *)

\* The LLM is asked only for a job that has no plan yet.
AsksOnce == pc \in {"ask", "parse"} => plan = NoPlan

\* Where the worker is with a task, it is the first without a record, and it is
\* routed by the lists this turn has read.
AtTask ==
  pc \in {"route", "send", "putKey", "next"} =>
    /\ item[1] = Len(record) + 1 /\ item[1] <= Len(plan.tasks)
    /\ pc = "route" => item[2] = 0
    /\ pc # "route" => route.project = RouteTask(Task, plan.review, lists.projects)

\* Behind the task itself, its subtasks go where it is: to where it has been made
\* in this turn, or to where it is routed if it was made in an earlier one.
WithParent ==
  pc \in {"putKey", "next"} \/ (pc = "send" /\ item[2] > 0) =>
    /\ route.parent = route.project
    /\ ~route.hit => \E t \in made : t.item = <<item[1], 0>> /\ t.project = route.project

\* What is in Todoist is where the projects seen then have sent it.
MadeByRoute ==
  \A t \in made :
    /\ t.item[1] \in 1..Len(plan.tasks)
    /\ t.project = RouteTask(plan.tasks[t.item[1]], plan.review, t.seen)
    /\ t.item[2] = 0 => Always \in t.labels /\ (t.project = None => Review \in t.labels)

\* And so is what has been recorded of it.
RecordByRoute ==
  \A i \in 1..Len(record) :
    /\ record[i].project = RouteTask(plan.tasks[i], plan.review, record[i].seen)
    /\ ~record[i].hit => \E t \in made : t.item = <<i, 0>> /\ t.project = record[i].project

RoutingInv ==
  TypeOK /\ AsksOnce /\ AtTask /\ WithParent /\ MadeByRoute /\ RecordByRoute

-----------------------------------------------------------------------------
(* The decision.                                                           *)

\* A task is sent to a project of those the worker has read, or to the Inbox; to
\* the Inbox always if the plan is to be reviewed.
LEMMA RouteIsKnown ==
  ASSUME NEW task, NEW review \in BOOLEAN, NEW projects \in SUBSET Projects
  PROVE  /\ RouteTask(task, review, projects) \in Ids
         /\ review => RouteTask(task, review, projects) = None
<1>1. ASSUME NEW S \in SUBSET projects, S # {} PROVE OneOf(S).id \in Ids
  <2>1. OneOf(S) \in S
    BY <1>1 DEF OneOf
  <2> QED
    BY <2>1 DEF Ids
<1>2. Resolve(task.suggestion, projects).project \in Ids
  <2> DEFINE needle == Key[task.suggestion]
             exact == Exact(needle, projects)
             likest == Likest(needle, projects)
  <2>1. exact \in SUBSET projects /\ likest \in SUBSET projects
    BY DEF Exact, Likest
  <2>0. Resolve(task.suggestion, projects) =
          IF task.suggestion = None THEN Nowhere
          ELSE IF exact # {} THEN [project |-> OneOf(exact).id, quality |-> 10000]
          ELSE IF likest # {}
          THEN [project |-> OneOf(likest).id, quality |-> 85 * Likeness(needle, OneOf(likest))]
          ELSE Nowhere
    BY DEF Resolve
  <2> HIDE DEF exact, likest, needle
  <2>2. CASE task.suggestion = None
    BY <2>0, <2>2 DEF Nowhere, Ids
  <2>3. CASE task.suggestion # None /\ exact # {}
    <3>1. Resolve(task.suggestion, projects) = [project |-> OneOf(exact).id, quality |-> 10000]
      BY <2>0, <2>3
    <3> QED
      BY <1>1, <2>1, <2>3, <3>1
  <2>4. CASE task.suggestion # None /\ exact = {} /\ likest # {}
    <3>1. Resolve(task.suggestion, projects) =
            [project |-> OneOf(likest).id, quality |-> 85 * Likeness(needle, OneOf(likest))]
      BY <2>0, <2>4
    <3> QED
      BY <1>1, <2>1, <2>4, <3>1
  <2>5. CASE task.suggestion # None /\ exact = {} /\ likest = {}
    BY <2>0, <2>5 DEF Nowhere, Ids
  <2> QED
    BY <2>2, <2>3, <2>4, <2>5
<1>3. \/ RouteTask(task, review, projects) = None
      \/ ~review /\ RouteTask(task, review, projects) = Resolve(task.suggestion, projects).project
  <2> DEFINE match == Resolve(task.suggestion, projects)
             sure == match.quality > 0 /\ task.confidence * match.quality >= Threshold * 10000 /\ ~review
  <2>1. RouteTask(task, review, projects) = IF sure THEN match.project ELSE None
    BY DEF RouteTask
  <2>2. sure => ~review
    OBVIOUS
  <2> HIDE DEF sure
  <2> QED
    BY <2>1, <2>2, Zenon
<1> QED
  BY <1>2, <1>3 DEF Ids

\* The plan is one of the LLM's or none, and its tasks form a sequence.
LEMMA PlanIsOne ==
  ASSUME TypeOK
  PROVE  /\ Len(plan.tasks) \in Nat /\ plan.review \in BOOLEAN
         /\ \A i \in 1..Len(plan.tasks) : plan.tasks[i].subtasks \in Nat
         /\ Len(record) \in Nat /\ DOMAIN record = 1..Len(record)
<1>1. CASE plan = NoPlan
  BY <1>1, LenProperties DEF NoPlan, TypeOK
<1>2. CASE plan \in Plans
  <2>1. /\ plan.tasks \in Seq({plan.tasks[i] : i \in DOMAIN plan.tasks}) /\ plan.review \in BOOLEAN
        /\ \A i \in DOMAIN plan.tasks : plan.tasks[i].subtasks \in Nat
    BY <1>2, RoutingAssumption
  <2>2. DOMAIN plan.tasks = 1..Len(plan.tasks) /\ Len(plan.tasks) \in Nat
    BY <2>1, LenProperties
  <2> QED
    BY <2>1, <2>2, LenProperties DEF TypeOK
<1> QED
  BY <1>1, <1>2 DEF TypeOK

-----------------------------------------------------------------------------
(* Types.                                                                  *)

\* The parts of the type invariant that go together.
JobTypes ==
  /\ status \in {"queued", "structuring", "creating", "done", "error"}
  /\ plan \in Plans \cup {NoPlan} /\ Len(record) <= Len(plan.tasks)
  /\ record \in Seq([project : Ids, hit : BOOLEAN, seen : SUBSET Projects])
  /\ keys \subseteq Items
WorkerTypes ==
  /\ pc \in {"boot", "claim", "ask", "parse", "lists", "labels", "route", "send", "putKey",
             "next", "finish"}
  /\ attempt \in 0 .. Retries + 1 /\ raw \in Raws \cup {NoText}
  /\ lists \in Lists /\ item \in Items
  /\ route \in [project : Ids, hit : BOOLEAN, parent : Ids]
CacheTypes ==
  /\ account \in Accounts /\ cache \in Lists
  /\ refresh \in [Refreshers ->
       [at : {"rest", "projects", "labels", "storeProjects", "storeLabels"},
        projects : SUBSET Projects, labels : SUBSET Labels]]
TodoistTypes ==
  /\ made \subseteq [item : Items, project : Ids, seen : SUBSET Projects,
                    labels : SUBSET (Labels \cup {Always, Review})]
  /\ gone \in BOOLEAN
BoundTypes == edits \in 0 .. MaxEdits /\ faults \in 0 .. MaxFaults /\ crashes \in 0 .. MaxCrashes

LEMMA TypeParts == TypeOK <=> JobTypes /\ WorkerTypes /\ CacheTypes /\ TodoistTypes /\ BoundTypes
BY DEF TypeOK, JobTypes, WorkerTypes, CacheTypes, TodoistTypes, BoundTypes

\* What a worker that begins again has in hand.
LEMMA BlankTypes ==
  /\ NoLists \in Lists /\ NoItem \in Items /\ NoRoute \in [project : Ids, hit : BOOLEAN, parent : Ids]
  /\ \A at \in {"rest", "projects"} :
       [AtRest EXCEPT !.at = at] \in
         [at : {"rest", "projects", "labels", "storeProjects", "storeLabels"},
          projects : SUBSET Projects, labels : SUBSET Labels]
  /\ AtRest = [AtRest EXCEPT !.at = "rest"]
BY DEF NoLists, Lists, NoItem, Items, NoRoute, Ids, AtRest

\* The refreshers after a start of the process.
LEMMA RefreshersBegin ==
  [w \in Refreshers |-> IF w = "loop" THEN [AtRest EXCEPT !.at = "projects"] ELSE AtRest] \in
    [Refreshers ->
       [at : {"rest", "projects", "labels", "storeProjects", "storeLabels"},
        projects : SUBSET Projects, labels : SUBSET Labels]]
BY BlankTypes, Zenon

\* A failure gives the job back or gives it up.
LEMMA FailsTypes ==
  ASSUME TypeOK, Fails
  PROVE  JobTypes' /\ WorkerTypes'
<1>1. JobTypes'
  BY DEF Fails, TypeOK, JobTypes
<1>2. WorkerTypes'
  BY BlankTypes, RoutingAssumption DEF Fails, Goes, TypeOK, WorkerTypes
<1> QED
  BY <1>1, <1>2

\* Every step keeps the types.
LEMMA TypePreserves ==
  ASSUME TypeOK, AsksOnce, AtTask, [Next]_vars
  PROVE  TypeOK'
<1> USE DEF job, worker, todoist, bounds, Outside
<1>0. JobTypes /\ WorkerTypes /\ CacheTypes /\ TodoistTypes /\ BoundTypes
  BY TypeParts
<1>a. /\ MaxEdits \in Nat /\ MaxFaults \in Nat /\ MaxCrashes \in Nat /\ Retries \in Nat
  BY RoutingAssumption
<1>b. /\ UNCHANGED <<status, plan, record, keys>> => JobTypes'
      /\ UNCHANGED <<pc, attempt, raw, lists, item, route>> => WorkerTypes'
      /\ UNCHANGED <<account, cache, refresh>> => CacheTypes'
      /\ UNCHANGED <<made, gone>> => TodoistTypes'
      /\ UNCHANGED <<edits, faults, crashes>> => BoundTypes'
  <2>1. UNCHANGED <<status, plan, record, keys>> => JobTypes'
    BY <1>0 DEF JobTypes
  <2>2. UNCHANGED <<pc, attempt, raw, lists, item, route>> => WorkerTypes'
    BY <1>0 DEF WorkerTypes
  <2>3. UNCHANGED <<account, cache, refresh>> => CacheTypes'
    BY <1>0 DEF CacheTypes
  <2>4. UNCHANGED <<made, gone>> => TodoistTypes'
    BY <1>0 DEF TodoistTypes
  <2>5. UNCHANGED <<edits, faults, crashes>> => BoundTypes'
    BY <1>0 DEF BoundTypes
  <2> QED
    BY <2>1, <2>2, <2>3, <2>4, <2>5
<1>d. JobTypes' /\ WorkerTypes' /\ CacheTypes' /\ TodoistTypes' /\ BoundTypes' => TypeOK'
  BY DEF TypeOK, JobTypes, WorkerTypes, CacheTypes, TodoistTypes, BoundTypes
<1>c. Fault => BoundTypes'
  BY <1>0, <1>a DEF Fault, BoundTypes
<1>1. ASSUME Edit PROVE TypeOK'
  <2>1. CacheTypes'
    BY <1>0, <1>1 DEF Edit, CacheTypes
  <2>2. TodoistTypes'
    <3>1. gone' \in BOOLEAN /\ made' = made
      BY <1>1, Zenon DEF Edit
    <3> QED
      BY <1>0, <3>1 DEF TodoistTypes
  <2>3. BoundTypes'
    BY <1>0, <1>1, <1>a DEF Edit, BoundTypes
  <2>4. UNCHANGED <<status, plan, record, keys>> /\ UNCHANGED <<pc, attempt, raw, lists, item, route>>
    BY <1>1, Zenon DEF Edit
  <2> QED
    BY <1>b, <1>d, <2>1, <2>2, <2>3, <2>4, Zenon
<1>2. ASSUME NEW w \in Refreshers, Refresh(w) PROVE TypeOK'
  <2>1. UNCHANGED <<status, plan, record, keys>> /\ UNCHANGED <<pc, attempt, raw, lists, item, route>>
        /\ UNCHANGED <<made, gone>>
    BY <1>2, Zenon DEF Refresh, StartRefresh, FetchProjects, FetchLabels, FetchFails, StoreProjects, StoreLabels
  <2>2. BoundTypes'
    BY <1>b, <1>c, <1>2 DEF Refresh, StartRefresh, FetchProjects, FetchLabels, FetchFails, StoreProjects, StoreLabels
  <2>3. account.projects \in SUBSET Projects /\ account.labels \in SUBSET Labels
    BY <1>0 DEF CacheTypes, Projects, Labels
  <2>4. CacheTypes'
    <3>1. CASE StartRefresh(w)
      BY <1>0, <3>1 DEF StartRefresh, Moves, CacheTypes
    <3>2. CASE FetchProjects(w)
      BY <1>0, <2>3, <3>2 DEF FetchProjects, CacheTypes
    <3>3. CASE FetchLabels(w)
      BY <1>0, <2>3, <3>3 DEF FetchLabels, CacheTypes
    <3>4. CASE FetchFails(w)
      BY <1>0, <3>4, BlankTypes DEF FetchFails, CacheTypes
    <3>5. CASE StoreProjects(w)
      BY <1>0, <3>5 DEF StoreProjects, CacheTypes, Lists
    <3>6. CASE StoreLabels(w)
      BY <1>0, <3>6, BlankTypes DEF StoreLabels, CacheTypes, Lists
    <3> QED
      BY <1>2, <3>1, <3>2, <3>3, <3>4, <3>5, <3>6 DEF Refresh
  <2> QED
    BY <1>b, <1>d, <2>1, <2>2, <2>4, Zenon
<1>3. ASSUME Crash PROVE TypeOK'
  <2>1. CacheTypes'
    BY <1>0, <1>3, RefreshersBegin DEF Crash, CacheTypes
  <2>2. WorkerTypes'
    BY <1>3, <1>a, BlankTypes DEF Crash, Goes, WorkerTypes
  <2>3. BoundTypes'
    BY <1>0, <1>a, <1>3 DEF Crash, BoundTypes
  <2>4. UNCHANGED <<status, plan, record, keys>> /\ UNCHANGED <<made, gone>>
    BY <1>3, Zenon DEF Crash
  <2> QED
    BY <1>b, <1>d, <2>1, <2>2, <2>3, <2>4, Zenon
<1>4. ASSUME StartWorker \/ Claim PROVE TypeOK'
  <2>1. JobTypes'
    BY <1>0, <1>4 DEF StartWorker, Claim, JobTypes
  <2>2. WorkerTypes'
    BY <1>0, <1>a, <1>4 DEF StartWorker, Claim, Goes, WorkerTypes
  <2>3. UNCHANGED <<account, cache, refresh>> /\ UNCHANGED <<made, gone>> /\ UNCHANGED <<edits, faults, crashes>>
    BY <1>4, Zenon DEF StartWorker, Claim
  <2> QED
    BY <1>b, <1>d, <2>1, <2>2, <2>3, Zenon
<1>5. ASSUME Ask PROVE TypeOK'
  <2>1. UNCHANGED <<account, cache, refresh>> /\ UNCHANGED <<made, gone>>
    BY <1>5, Zenon DEF Ask
  <2>2. CASE /\ raw' \in Raws /\ Goes("parse")
             /\ UNCHANGED <<status, plan, record, keys, attempt, lists, item, route, edits, faults, crashes>>
    <3>1. WorkerTypes'
      BY <1>0, <2>2 DEF Goes, WorkerTypes
    <3> QED
      BY <1>b, <1>d, <2>1, <2>2, <3>1, Zenon
  <2>3. CASE Fault /\ Fails
    BY <1>b, <1>d, <1>c, <2>1, <2>3, FailsTypes, Zenon
  <2> QED
    BY <1>5, <2>2, <2>3 DEF Ask
<1>6. ASSUME Parse PROVE TypeOK'
  <2>1. UNCHANGED <<account, cache, refresh>> /\ UNCHANGED <<made, gone>> /\ UNCHANGED <<edits, faults, crashes>>
    BY <1>6, Zenon DEF Parse
  <2>2. CASE /\ attempt <= Retries /\ attempt' = attempt + 1 /\ raw' = NoText /\ Goes("ask")
             /\ UNCHANGED <<status, plan, record, keys, lists, item, route>>
    <3>1. WorkerTypes'
      BY <1>0, <1>a, <2>2 DEF Goes, WorkerTypes
    <3> QED
      BY <1>b, <1>d, <2>1, <2>2, <3>1, Zenon
  <2>3. CASE Fails
    BY <1>b, <1>d, <2>1, <2>3, FailsTypes, Zenon
  <2>4. CASE /\ pc = "parse" /\ plan' \in Plans /\ raw' = NoText /\ attempt' = 0
             /\ status' = "creating" /\ Goes("lists")
             /\ UNCHANGED <<record, keys, lists, item, route>>
    <3>1. Len(record) = 0 /\ Len(plan'.tasks) \in Nat
      <4>1. Len(record) <= Len(plan.tasks) /\ plan.tasks = <<>> /\ Len(record) \in Nat
        BY <1>0, <2>4, PlanIsOne DEF AsksOnce, NoPlan, JobTypes
      <4>2. plan'.tasks \in Seq({plan'.tasks[i] : i \in DOMAIN plan'.tasks})
        BY <2>4, RoutingAssumption
      <4>3. Len(plan'.tasks) \in Nat
        BY <4>2, LenProperties
      <4> QED
        BY <4>1, <4>3
    <3>2. JobTypes'
      BY <1>0, <2>4, <3>1 DEF JobTypes
    <3>3. WorkerTypes'
      BY <1>0, <1>a, <2>4 DEF Goes, WorkerTypes
    <3> QED
      BY <1>b, <1>d, <2>1, <3>2, <3>3, Zenon
  <2> QED
    BY <1>6, <2>2, <2>3, <2>4, Zenon DEF Parse
<1>7. ASSUME NEW n \in Nat, n <= Len(plan.tasks), NextTask(n)
      PROVE  item' \in Items /\ pc' \in {"route", "finish"}
  <2>1. CASE item' = <<n + 1, 0>> /\ Goes("route")
    BY <2>1 DEF Goes, Items
  <2>2. CASE item' = NoItem /\ Goes("finish")
    BY <2>2, BlankTypes DEF Goes
  <2> QED
    BY <1>7, <2>1, <2>2, Zenon DEF NextTask
<1>8. ASSUME ReadProjects \/ ReadLabels PROVE TypeOK'
  <2>1. UNCHANGED <<account, cache, refresh>> /\ UNCHANGED <<made, gone>> /\ UNCHANGED <<edits, faults, crashes>>
        /\ UNCHANGED <<status, plan, record, keys>>
    BY <1>8, Zenon DEF ReadProjects, ReadLabels
  <2>2. lists' \in Lists
    BY <1>0, <1>8 DEF ReadProjects, ReadLabels, WorkerTypes, CacheTypes, Lists
  <2>3. item' \in Items /\ pc' \in {"route", "finish", "labels"}
    <3>1. CASE ReadProjects
      BY <1>0, <3>1 DEF ReadProjects, Goes, WorkerTypes
    <3>2. CASE ReadLabels
      <4>1. Len(record) \in Nat /\ Len(record) <= Len(plan.tasks) /\ NextTask(Len(record))
        BY <1>0, <3>2, PlanIsOne DEF ReadLabels, JobTypes
      <4> QED
        BY <1>7, <4>1
    <3> QED
      BY <1>8, <3>1, <3>2
  <2>4. UNCHANGED <<attempt, raw, route>>
    BY <1>8, Zenon DEF ReadProjects, ReadLabels
  <2>5. WorkerTypes'
    BY <1>0, <2>2, <2>3, <2>4 DEF WorkerTypes
  <2> QED
    BY <1>b, <1>d, <2>1, <2>5, Zenon
<1>9. ASSUME Route PROVE TypeOK'
  <2>1. UNCHANGED <<account, cache, refresh>> /\ UNCHANGED <<made, gone>> /\ UNCHANGED <<edits, faults, crashes>>
        /\ UNCHANGED <<status, plan, record, keys>>
    BY <1>9, Zenon DEF Route
  <2>2. RouteTask(Task, plan.review, lists.projects) \in Ids
    <3>1. lists.projects \in SUBSET Projects /\ plan.review \in BOOLEAN
      BY <1>0, PlanIsOne DEF WorkerTypes, Lists
    <3> QED
      BY <3>1, RouteIsKnown
  <2>3. route' \in [project : Ids, hit : BOOLEAN, parent : Ids]
    <3> DEFINE p == RouteTask(Task, plan.review, lists.projects)
               q == IF item \in keys THEN p ELSE None
               h == item \in keys
    <3>1. route' = [project |-> p, hit |-> h, parent |-> q]
      BY <1>9, Zenon DEF Route
    <3>2. q \in Ids
      BY <2>2 DEF Ids
    <3>3. h \in BOOLEAN
      OBVIOUS
    <3>4. p \in Ids
      BY <2>2
    <3> HIDE DEF p, q, h
    <3> QED
      BY <3>1, <3>2, <3>3, <3>4
  <2>4. pc' \in {"next", "send"} /\ UNCHANGED <<attempt, raw, lists, item>>
    <3>1. UNCHANGED <<attempt, raw, lists, item>>
      BY <1>9, Zenon DEF Route
    <3>2. pc' = IF item \in keys THEN "next" ELSE "send"
      BY <1>9, Zenon DEF Route, Goes
    <3> QED
      BY <3>1, <3>2
  <2>5. WorkerTypes'
    BY <1>0, <2>3, <2>4 DEF WorkerTypes
  <2> QED
    BY <1>b, <1>d, <2>1, <2>5, Zenon
<1>10. ASSUME Send PROVE TypeOK'
  <2> DEFINE sub == item[2] > 0
             project == IF sub THEN route.parent ELSE route.project
             new == [item |-> item, project |-> project, seen |-> lists.projects,
                     labels |-> IF sub THEN {}
                                ELSE MergeLabels(Task, project, plan.review, lists.labels)]
  <2>1. UNCHANGED <<account, cache, refresh>> /\ gone' = gone
    BY <1>10, Zenon DEF Send
  <2>2. CASE /\ made' = made \cup {new}
             /\ route' = IF sub THEN route ELSE [route EXCEPT !.parent = project]
             /\ Goes("putKey")
             /\ UNCHANGED <<status, plan, record, keys, attempt, raw, lists, item, edits, faults, crashes>>
    <3>1. project \in Ids
      BY <1>0 DEF WorkerTypes
    <3>2. MergeLabels(Task, project, plan.review, lists.labels) \in SUBSET (Labels \cup {Always, Review})
      <4>1. lists.labels \in SUBSET Labels
        BY <1>0 DEF WorkerTypes, Lists
      <4> QED
        BY <4>1 DEF MergeLabels
    <3>3. new \in [item : Items, project : Ids, seen : SUBSET Projects,
                   labels : SUBSET (Labels \cup {Always, Review})]
      <4>1. item \in Items /\ lists.projects \in SUBSET Projects
        BY <1>0 DEF WorkerTypes, Lists
      <4> HIDE DEF project
      <4> QED
        BY <3>1, <3>2, <4>1
    <3>4. TodoistTypes'
      <4> HIDE DEF new
      <4> QED
        BY <1>0, <2>1, <2>2, <3>3 DEF TodoistTypes
    <3>5. route' \in [project : Ids, hit : BOOLEAN, parent : Ids]
      <4> HIDE DEF project, sub
      <4> QED
        BY <1>0, <2>2, <3>1 DEF WorkerTypes
    <3>6. WorkerTypes'
      <4> HIDE DEF project, sub, new
      <4> QED
        BY <1>0, <2>2, <3>5 DEF WorkerTypes, Goes
    <3> QED
      BY <1>b, <1>d, <2>1, <2>2, <3>4, <3>6, Zenon
  <2>3. CASE Fails /\ UNCHANGED <<made, edits, faults, crashes>>
    BY <1>b, <1>d, <2>1, <2>3, FailsTypes, Zenon
  <2>4. CASE Fault /\ Fails /\ UNCHANGED made
    BY <1>b, <1>d, <1>c, <2>1, <2>4, FailsTypes, Zenon
  <2> QED
    BY <1>10, <2>2, <2>3, <2>4, Zenon DEF Send
<1>11. ASSUME PutKey \/ Finish PROVE TypeOK'
  <2>1. UNCHANGED <<account, cache, refresh>> /\ UNCHANGED <<made, gone>> /\ UNCHANGED <<edits, faults, crashes>>
    BY <1>11, Zenon DEF PutKey, Finish
  <2>2. JobTypes'
    BY <1>0, <1>11 DEF PutKey, Finish, JobTypes, WorkerTypes
  <2>3. WorkerTypes'
    BY <1>0, <1>11, BlankTypes DEF PutKey, Finish, Goes, WorkerTypes
  <2> QED
    BY <1>b, <1>d, <2>1, <2>2, <2>3, Zenon
<1>12. ASSUME Proceed PROVE TypeOK'
  <2>1. /\ UNCHANGED <<account, cache, refresh>> /\ UNCHANGED <<made, gone>> /\ UNCHANGED <<edits, faults, crashes>>
        /\ UNCHANGED <<status, plan, keys, attempt, raw, lists>>
    BY <1>12, Zenon DEF Proceed
  <2>2. CASE /\ item' = <<item[1], item[2] + 1>>
             /\ Goes(IF item' \in keys THEN "next" ELSE "send")
             /\ UNCHANGED <<record, route>>
    <3>1. item' \in Items
      BY <1>0, <2>2 DEF WorkerTypes, Items
    <3>2. pc' \in {"next", "send"}
      BY <2>2 DEF Goes
    <3>3. WorkerTypes'
      BY <1>0, <2>1, <2>2, <3>1, <3>2 DEF WorkerTypes
    <3> QED
      BY <1>b, <1>d, <2>1, <2>2, <3>3, Zenon
  <2>3. CASE /\ record' = Append(record, [project |-> route.project, hit |-> route.hit,
                                          seen |-> lists.projects])
             /\ NextTask(Len(record')) /\ route' = NoRoute
    <3>1. [project |-> route.project, hit |-> route.hit, seen |-> lists.projects] \in
             [project : Ids, hit : BOOLEAN, seen : SUBSET Projects]
      BY <1>0 DEF WorkerTypes, Lists
    <3>2. /\ record' \in Seq([project : Ids, hit : BOOLEAN, seen : SUBSET Projects])
          /\ Len(record') = Len(record) + 1
      BY <1>0, <2>3, <3>1, AppendProperties DEF JobTypes
    <3>3. Len(record') <= Len(plan.tasks) /\ Len(record') \in Nat
      <4>1. pc = "next"
        BY <1>12 DEF Proceed
      <4>2. item[1] = Len(record) + 1 /\ item[1] <= Len(plan.tasks)
        BY <4>1 DEF AtTask
      <4> QED
        BY <3>2, <4>2, PlanIsOne
    <3>4. item' \in Items /\ pc' \in {"route", "finish"}
      BY <1>7, <2>3, <3>3
    <3>5. JobTypes'
      BY <1>0, <2>1, <3>2, <3>3 DEF JobTypes
    <3>6. WorkerTypes'
      BY <1>0, <2>1, <2>3, <3>4, BlankTypes DEF WorkerTypes
    <3> QED
      BY <1>b, <1>d, <2>1, <3>5, <3>6, Zenon
  <2> QED
    BY <1>12, <2>2, <2>3, Zenon DEF Proceed
<1>13. ASSUME UNCHANGED vars PROVE TypeOK'
  <2>1. /\ UNCHANGED <<account, cache, refresh>> /\ UNCHANGED <<made, gone>> /\ UNCHANGED <<edits, faults, crashes>>
        /\ UNCHANGED <<status, plan, record, keys>> /\ UNCHANGED <<pc, attempt, raw, lists, item, route>>
    BY <1>13, Zenon DEF vars
  <2> QED
    BY <1>b, <1>d, <2>1, Zenon
<1> QED
  BY <1>1, <1>2, <1>3, <1>4, <1>5, <1>6, <1>8, <1>9, <1>10, <1>11, <1>12, <1>13 DEF Next, Work

-----------------------------------------------------------------------------
(* Where the tasks go.                                                     *)

\* A step after which the worker has nothing in hand.
Begins == pc' \in {"boot", "claim"} /\ UNCHANGED <<plan, record, made>>

\* The user, the refreshers and a failure leave the worker alone or let it begin again.
LEMMA WorkerSteps ==
  ASSUME [Next]_vars
  PROVE  \/ UNCHANGED <<pc, plan, record, item, route, lists, made>>
         \/ Begins
         \/ Claim
         \/ Ask /\ Goes("parse") /\ UNCHANGED <<plan, record, made>>
         \/ Parse /\ Goes("ask") /\ UNCHANGED <<plan, record, made>>
         \/ Parse /\ Goes("lists") /\ plan' \in Plans /\ record' = record
         \/ ReadProjects \/ ReadLabels \/ Route
         \/ Send /\ Goes("putKey")
         \/ PutKey \/ Proceed
<1> USE DEF job, worker, todoist, bounds, Outside
<1>1. ASSUME UNCHANGED vars \/ Edit PROVE UNCHANGED <<pc, plan, record, item, route, lists, made>>
  BY <1>1, Zenon DEF vars, Edit
<1>2. ASSUME NEW w \in Refreshers, Refresh(w)
      PROVE  UNCHANGED <<pc, plan, record, item, route, lists, made>>
  BY <1>2, Zenon DEF Refresh, StartRefresh, FetchProjects, FetchLabels, FetchFails, StoreProjects, StoreLabels
<1>3. ASSUME Crash \/ StartWorker \/ Finish PROVE Begins
  BY <1>3 DEF Crash, StartWorker, Finish, Goes, Begins
<1>4. ASSUME Fails, UNCHANGED made PROVE Begins
  BY <1>4 DEF Fails, Goes, Begins
<1>5. ASSUME Ask PROVE Begins \/ (Goes("parse") /\ UNCHANGED <<plan, record, made>>)
  BY <1>4, <1>5, Zenon DEF Ask
<1>6. ASSUME Parse
      PROVE  \/ Begins
             \/ Goes("ask") /\ UNCHANGED <<plan, record, made>>
             \/ Goes("lists") /\ plan' \in Plans /\ record' = record
  BY <1>4, <1>6, Zenon DEF Parse
<1>7. ASSUME Send PROVE Begins \/ Goes("putKey")
  BY <1>4, <1>7, Zenon DEF Send
<1> HIDE DEF job, worker, todoist, bounds, Outside
<1> QED
  BY <1>1, <1>2, <1>3, <1>5, <1>6, <1>7, Zenon DEF Next, Work

\* Every step keeps the task in hand, its parent and what has been made and
\* recorded where the routing has put them.
LEMMA RoutePreserves ==
  ASSUME RoutingInv, TypeOK', [Next]_vars
  PROVE  AsksOnce' /\ AtTask' /\ WithParent' /\ MadeByRoute' /\ RecordByRoute'
<1> DEFINE Goal == AsksOnce' /\ AtTask' /\ WithParent' /\ MadeByRoute' /\ RecordByRoute'
<1> USE DEF job, worker, todoist, bounds, Outside
<1>0. TypeOK /\ AsksOnce /\ AtTask /\ WithParent /\ MadeByRoute /\ RecordByRoute
  BY DEF RoutingInv
<1>a. /\ Len(plan.tasks) \in Nat /\ plan.review \in BOOLEAN
      /\ Len(record) \in Nat /\ DOMAIN record = 1..Len(record)
  BY <1>0, PlanIsOne
<1>b. UNCHANGED <<plan, record, made>> => MadeByRoute' /\ RecordByRoute'
  BY <1>0 DEF MadeByRoute, RecordByRoute
<1>1. ASSUME UNCHANGED <<pc, plan, record, item, route, lists, made>> PROVE Goal
  BY <1>0, <1>1 DEF AsksOnce, AtTask, WithParent, MadeByRoute, RecordByRoute, Task
<1>2. ASSUME Begins PROVE Goal
  BY <1>b, <1>2 DEF Begins, AsksOnce, AtTask, WithParent
<1>3. ASSUME Claim PROVE Goal
  <2>1. UNCHANGED <<plan, record, made>> /\ pc' \in {"lists", "ask"} /\ (pc' = "ask" => plan = NoPlan)
    BY <1>3 DEF Claim, Goes
  <2> QED
    BY <1>b, <2>1 DEF AsksOnce, AtTask, WithParent
<1>4. ASSUME Ask \/ Parse, Goes("parse") \/ Goes("ask"), UNCHANGED <<plan, record, made>> PROVE Goal
  <2>1. pc \in {"ask", "parse"} /\ pc' \in {"ask", "parse"}
    BY <1>4 DEF Ask, Parse, Goes
  <2> QED
    BY <1>0, <1>4, <1>b, <2>1 DEF AsksOnce, AtTask, WithParent
<1>5. ASSUME Parse, Goes("lists"), plan' \in Plans, record' = record PROVE Goal
  <2>1. pc = "parse" /\ pc' = "lists" /\ made' = made
    BY <1>5, Zenon DEF Parse, Goes
  <2>2. plan = NoPlan
    BY <1>0, <2>1 DEF AsksOnce
  <2>3. Len(plan.tasks) = 0
    BY <2>2 DEF NoPlan
  <2>4. made = {} /\ Len(record) = 0
    BY <1>0, <1>a, <2>3 DEF MadeByRoute, TypeOK
  <2>5. MadeByRoute' /\ RecordByRoute'
    BY <1>5, <2>1, <2>4 DEF MadeByRoute, RecordByRoute
  <2> QED
    BY <2>1, <2>5 DEF AsksOnce, AtTask, WithParent
<1>6. ASSUME ReadProjects PROVE Goal
  <2>1. UNCHANGED <<plan, record, made>> /\ pc' = "labels"
    BY <1>6 DEF ReadProjects, Goes
  <2> QED
    BY <1>b, <2>1 DEF AsksOnce, AtTask, WithParent
<1>7. ASSUME NEW n \in Nat, NextTask(n), n = Len(record'), plan' = plan
      PROVE  AsksOnce' /\ AtTask' /\ WithParent'
  <2>1. CASE n < Len(plan.tasks) /\ item' = <<n + 1, 0>> /\ pc' = "route"
    <3>1. item'[1] = Len(record') + 1 /\ item'[1] <= Len(plan'.tasks) /\ item'[2] = 0
      BY <1>7, <1>a, <2>1
    <3> QED
      BY <2>1, <3>1 DEF AsksOnce, AtTask, WithParent
  <2>2. CASE pc' = "finish"
    BY <2>2 DEF AsksOnce, AtTask, WithParent
  <2> QED
    BY <1>7, <2>1, <2>2, Zenon DEF NextTask, Goes
<1>8. ASSUME ReadLabels PROVE Goal
  <2>1. UNCHANGED <<plan, record, made>> /\ NextTask(Len(record))
    BY <1>8 DEF ReadLabels
  <2> QED
    BY <1>7, <1>a, <1>b, <2>1
<1>9. ASSUME Route PROVE Goal
  <2> DEFINE p == RouteTask(Task, plan.review, lists.projects)
  <2>1. /\ pc = "route" /\ pc' \in {"next", "send"}
        /\ UNCHANGED <<plan, record, made, item, lists>>
        /\ route' = [project |-> p, hit |-> item \in keys, parent |-> IF item \in keys THEN p ELSE None]
        /\ pc' = IF item \in keys THEN "next" ELSE "send"
    BY <1>9 DEF Route, Goes
  <2>2. item[1] = Len(record) + 1 /\ item[1] <= Len(plan.tasks) /\ item[2] = 0
    BY <1>0, <2>1 DEF AtTask
  <2>3. route'.project = p /\ (pc' = "next" => route'.hit /\ route'.parent = p)
    <3> HIDE DEF p
    <3> QED
      BY <2>1
  <2>4. AtTask'
    BY <2>1, <2>2, <2>3 DEF AtTask, Task
  <2>5. WithParent'
    <3> HIDE DEF p
    <3> QED
      BY <2>1, <2>2, <2>3 DEF WithParent
  <2> QED
    BY <1>b, <2>1, <2>4, <2>5 DEF AsksOnce
<1>10. ASSUME Send, Goes("putKey") PROVE Goal
  <2> DEFINE sub == item[2] > 0
             project == IF sub THEN route.parent ELSE route.project
             marks == IF sub THEN {} ELSE MergeLabels(Task, project, plan.review, lists.labels)
             new == [item |-> item, project |-> project, seen |-> lists.projects, labels |-> marks]
             p == RouteTask(Task, plan.review, lists.projects)
  <2>1. /\ pc = "send" /\ pc' = "putKey" /\ UNCHANGED <<plan, record, item, lists>>
        /\ made' = made \cup {new}
        /\ route' = IF sub THEN route ELSE [route EXCEPT !.parent = project]
    <3>1. ~Fails
      BY <1>10 DEF Goes, Fails
    <3> QED
      BY <1>10, <3>1, Zenon DEF Send, Goes
  <2>2. /\ item[1] = Len(record) + 1 /\ item[1] <= Len(plan.tasks) /\ route.project = p
        /\ item \in Items /\ item[1] \in Nat /\ item[2] \in Nat
    BY <1>0, <2>1 DEF AtTask, TypeOK, Items
  <2>3. project = p /\ route'.project = p /\ route'.parent = p /\ route'.hit = route.hit
    <3>1. route \in [project : Ids, hit : BOOLEAN, parent : Ids]
      BY <1>0 DEF TypeOK
    <3>2. CASE sub
      <4>1. route.parent = route.project
        BY <1>0, <2>1, <3>2 DEF WithParent
      <4> HIDE DEF p
      <4> QED
        BY <2>1, <2>2, <3>2, <4>1
    <3>3. CASE ~sub
      <4>1. project = route.project
        BY <3>3
      <4> HIDE DEF p, project, sub
      <4> QED
        BY <2>1, <2>2, <3>1, <3>3, <4>1
    <3> QED
      BY <3>2, <3>3
  <2>4. AsksOnce' /\ AtTask'
    <3>1. route'.project = RouteTask(Task', plan'.review, lists'.projects)
      BY <2>1, <2>3 DEF Task
    <3>2. item'[1] = Len(record') + 1 /\ item'[1] <= Len(plan'.tasks)
      BY <2>1, <2>2
    <3> QED
      BY <2>1, <3>1, <3>2 DEF AsksOnce, AtTask
  <2>5. new \in made' /\ new.item = item /\ new.project = p /\ new.seen = lists.projects
        /\ new.labels = marks
    <3> HIDE DEF project, marks, p
    <3> QED
      BY <2>1, <2>3
  <2>6. WithParent'
    <3>1. ASSUME ~route'.hit PROVE \E t \in made' : t.item = <<item[1], 0>> /\ t.project = p
      <4>1. CASE sub
        <5>1. PICK t \in made : t.item = <<item[1], 0>> /\ t.project = route.project
          BY <1>0, <2>1, <2>3, <3>1, <4>1 DEF WithParent
        <5> HIDE DEF new, p
        <5> QED
          BY <2>1, <2>2, <5>1
      <4>2. CASE ~sub
        <5>1. item = <<item[1], 0>>
          BY <2>2, <4>2 DEF Items
        <5> HIDE DEF new, p
        <5> QED
          BY <2>5, <5>1
      <4> QED
        BY <4>1, <4>2
    <3>2. route'.parent = route'.project /\ route'.project = p /\ item' = item
      BY <2>1, <2>3
    <3> HIDE DEF new, p
    <3> QED
      BY <3>1, <3>2 DEF WithParent
  <2>7. MadeByRoute'
    <3>1. p = RouteTask(plan.tasks[item[1]], plan.review, lists.projects)
      BY DEF Task
    <3>2. item[1] \in 1..Len(plan.tasks)
      BY <1>a, <2>2
    <3>3. ASSUME item[2] = 0 PROVE Always \in marks /\ (p = None => Review \in marks)
      <4>1. marks = MergeLabels(Task, p, plan.review, lists.labels)
        <5>1. ~sub
          BY <3>3
        <5> HIDE DEF p, project, sub
        <5> QED
          BY <2>3, <5>1
      <4> HIDE DEF p, marks
      <4> QED
        BY <4>1 DEF MergeLabels
    <3> HIDE DEF p, new, marks
    <3>4. ASSUME NEW t \in made'
          PROVE  /\ t.item[1] \in 1..Len(plan.tasks)
                 /\ t.project = RouteTask(plan.tasks[t.item[1]], plan.review, t.seen)
                 /\ t.item[2] = 0 => Always \in t.labels /\ (t.project = None => Review \in t.labels)
      <4>1. CASE t \in made
        BY <1>0, <4>1 DEF MadeByRoute
      <4>2. CASE t = new
        BY <2>5, <3>1, <3>2, <3>3, <4>2
      <4> QED
        BY <2>1, <3>4, <4>1, <4>2
    <3> QED
      BY <2>1, <3>4 DEF MadeByRoute
  <2>8. RecordByRoute'
    <3> HIDE DEF new
    <3> QED
      BY <1>0, <2>1 DEF RecordByRoute
  <2> QED
    BY <2>4, <2>6, <2>7, <2>8
<1>11. ASSUME PutKey PROVE Goal
  <2>1. /\ pc = "putKey" /\ pc' = "next"
        /\ UNCHANGED <<plan, record, made, item, lists, route>>
    BY <1>11 DEF PutKey, Goes
  <2> QED
    BY <1>0, <1>b, <2>1 DEF AsksOnce, AtTask, WithParent, Task
<1>12. ASSUME Proceed PROVE Goal
  <2>1. pc = "next" /\ UNCHANGED <<plan, made, lists>>
    BY <1>12 DEF Proceed
  <2>2. /\ item[1] = Len(record) + 1 /\ item[1] <= Len(plan.tasks) /\ item[1] \in Nat /\ item[2] \in Nat
        /\ route.project = RouteTask(Task, plan.review, lists.projects)
        /\ route.parent = route.project
        /\ ~route.hit => \E t \in made : t.item = <<item[1], 0>> /\ t.project = route.project
    BY <1>0, <2>1 DEF AtTask, WithParent, TypeOK, Items
  <2>3. CASE /\ item' = <<item[1], item[2] + 1>>
             /\ Goes(IF item' \in keys THEN "next" ELSE "send")
             /\ UNCHANGED <<record, route>>
    <3>1. pc' \in {"next", "send"} /\ item'[1] = item[1] /\ Task' = Task
      BY <2>1, <2>3 DEF Goes, Task
    <3>2. AsksOnce' /\ AtTask'
      BY <2>1, <2>2, <2>3, <3>1 DEF AsksOnce, AtTask
    <3>3. WithParent'
      BY <2>1, <2>2, <2>3, <3>1 DEF WithParent
    <3> QED
      BY <1>b, <2>1, <2>3, <3>2, <3>3
  <2>4. CASE /\ record' = Append(record, [project |-> route.project, hit |-> route.hit,
                                          seen |-> lists.projects])
             /\ NextTask(Len(record')) /\ route' = NoRoute
    <3> DEFINE last == [project |-> route.project, hit |-> route.hit, seen |-> lists.projects]
    <3>1. last \in [project : Ids, hit : BOOLEAN, seen : SUBSET Projects]
      BY <1>0 DEF TypeOK, Lists
    <3>2. /\ Len(record') = Len(record) + 1 /\ record'[Len(record) + 1] = last
          /\ \A i \in 1..Len(record) : record'[i] = record[i]
      <4> HIDE DEF last
      <4> QED
        BY <1>0, <2>4, <3>1, AppendProperties DEF TypeOK, last
    <3>3. AsksOnce' /\ AtTask' /\ WithParent'
      BY <1>7, <1>a, <2>1, <2>4, <3>2
    <3>4. MadeByRoute'
      BY <1>0, <2>1 DEF MadeByRoute
    <3>5. ASSUME NEW i \in 1..Len(record')
          PROVE  /\ record'[i].project = RouteTask(plan.tasks[i], plan.review, record'[i].seen)
                 /\ ~record'[i].hit => \E t \in made : t.item = <<i, 0>> /\ t.project = record'[i].project
      <4>1. CASE i \in 1..Len(record)
        BY <1>0, <3>2, <4>1 DEF RecordByRoute
      <4>2. CASE i = item[1]
        <5>1. record'[i].project = route.project /\ record'[i].hit = route.hit /\ record'[i].seen = lists.projects
          BY <2>2, <3>2, <4>2
        <5> QED
          BY <2>2, <4>2, <5>1 DEF Task
      <4> QED
        BY <1>a, <2>2, <3>2, <4>1, <4>2
    <3>6. RecordByRoute'
      BY <2>1, <3>5 DEF RecordByRoute
    <3> QED
      BY <3>3, <3>4, <3>6
  <2> QED
    BY <1>12, <2>3, <2>4, Zenon DEF Proceed
<1> HIDE DEF Goal, job, worker, todoist, bounds, Outside
<1>13. Goal
  BY <1>1, <1>2, <1>3, <1>4, <1>5, <1>6, <1>8, <1>9, <1>10, <1>11, <1>12, WorkerSteps
<1> QED
  BY <1>13 DEF Goal

-----------------------------------------------------------------------------
(* Induction.                                                              *)

\* A set of naturals has a least element.
LEMMA LeastOfNat ==
  ASSUME NEW T, T \subseteq Nat, T # {}
  PROVE  \E x \in T : \A y \in T : x <= y
<1>1. PICK x \in T : \A y \in T : ~(<<y, x>> \in OpToRel(<, Nat))
  BY NatLessThanWellFounded, WFMin, Zenon
<1>2. ASSUME NEW y \in T PROVE x <= y
  <2>1. ~(y < x)
    <3>1. SUFFICES ASSUME y < x PROVE FALSE
      OBVIOUS
    <3>2. y \in Nat /\ x \in Nat
      OBVIOUS
    <3>3. <<y, x>> \in OpToRel(<, Nat)
      BY <3>1, <3>2, Zenon DEF OpToRel
    <3> QED
      BY <1>1, <3>3
  <2> QED
    BY <2>1
<1> QED
  BY <1>2

\* Induction, for a set in place of a predicate.
LEMMA AllNaturals ==
  ASSUME NEW S, \A n \in Nat : (\A m \in 0 .. n-1 : m \in S) => n \in S
  PROVE  Nat \subseteq S
<1> SUFFICES ASSUME Nat \ S # {} PROVE FALSE
  OBVIOUS
<1>1. PICK n \in Nat \ S : \A m \in Nat \ S : n <= m
  BY LeastOfNat
<1>2. \A m \in 0 .. n-1 : m \in S
  BY <1>1
<1> QED
  BY <1>2

-----------------------------------------------------------------------------
(* The scanner.                                                            *)

Blank == [depth |-> 0, inString |-> FALSE, escape |-> FALSE]

\* Scanned is defined: its recursion ends.
LEMMA ScanExists ==
  ASSUME NEW text, NEW start \in Int, NEW end \in Int, start - 1 <= end
  PROVE  \E f : f = [i \in start-1 .. end |->
                       IF i < start THEN Blank ELSE ReadChar(f[i-1], text[i])]
<1> DEFINE Turn(f, i) == IF i < start THEN Blank ELSE ReadChar(f[i-1], text[i])
           Good == {n \in Nat : \E f : f = [i \in start-1 .. start-1+n |-> Turn(f, i)]}
<1>1. ASSUME NEW n \in Nat, \A m \in 0 .. n-1 : m \in Good
      PROVE  n \in Good
  <2>1. CASE n = 0
    <3> DEFINE g == [i \in start-1 .. start-1+n |-> Blank]
    <3>1. g = [i \in start-1 .. start-1+n |-> Turn(g, i)]
      BY <2>1
    <3> HIDE DEF g
    <3> QED
      BY <3>1
  <2>2. CASE n # 0
    <3>1. n - 1 \in Good
      <4>1. n - 1 \in 0 .. n-1
        BY <2>2
      <4> QED
        BY <1>1, <4>1
    <3>2. PICK f : f = [i \in start-1 .. start-1+(n-1) |-> Turn(f, i)]
      BY <3>1
    <3> DEFINE g == [i \in start-1 .. start-1+n |->
                       IF i < start-1+n THEN f[i] ELSE ReadChar(f[i-1], text[i])]
    <3>3. \A i \in start-1 .. start-1+n : g[i] = Turn(g, i)
      <4> TAKE i \in start-1 .. start-1+n
      <4>1. CASE i = start-1+n
        <5>1. g[i] = ReadChar(f[i-1], text[i]) /\ ~(i < start)
          BY <4>1, <2>2
        <5>2. g[i-1] = f[i-1]
          BY <4>1, <2>2
        <5> HIDE DEF g
        <5> QED
          BY <5>1, <5>2
      <4>2. CASE i # start-1+n
        <5>1. i \in start-1 .. start-1+(n-1) /\ g[i] = f[i]
          BY <4>2
        <5>2. f[i] = Turn(f, i)
          BY <3>2, <5>1
        <5>3. CASE i < start
          BY <5>1, <5>2, <5>3
        <5>4. CASE ~(i < start)
          <6>1. g[i-1] = f[i-1]
            BY <5>4, <4>2
          <6> HIDE DEF g
          <6> QED
            BY <5>1, <5>2, <5>4, <6>1
        <5> QED
          BY <5>3, <5>4
      <4> QED
        BY <4>1, <4>2
    <3>4. g = [i \in start-1 .. start-1+n |-> g[i]]
      OBVIOUS
    <3>5. g = [i \in start-1 .. start-1+n |-> Turn(g, i)]
      <4> HIDE DEF g, Turn
      <4> QED
        BY <3>3, <3>4
    <3> HIDE DEF g
    <3> QED
      BY <3>5
  <2> QED
    BY <2>1, <2>2
<1>2. end - start + 1 \in Good
  <2> HIDE DEF Good
  <2> QED
    BY <1>1, AllNaturals
<1>3. PICK f : f = [i \in start-1 .. start-1+(end-start+1) |-> Turn(f, i)]
  BY <1>2
<1>4. start-1+(end-start+1) = end
  OBVIOUS
<1> HIDE DEF Turn
<1>5. f = [i \in start-1 .. end |-> Turn(f, i)]
  BY <1>3, <1>4
<1> QED
  BY <1>5 DEF Turn

\* The turns of the scanner.
LEMMA ScanTurns ==
  ASSUME NEW text, NEW start \in Int, Len(text) \in Int, start - 1 <= Len(text)
  PROVE  /\ Scanned(text, start)[start-1] = Blank
         /\ \A i \in start .. Len(text) :
              Scanned(text, start)[i] = ReadChar(Scanned(text, start)[i-1], text[i])
<1> DEFINE Is(f) == f = [i \in start-1 .. Len(text) |->
                           IF i < start THEN Blank ELSE ReadChar(f[i-1], text[i])]
           scan == Scanned(text, start)
<1>1. \E f : Is(f)
  BY ScanExists
<1>2. scan = CHOOSE f : Is(f)
  BY DEF Scanned, Blank
<1>3. Is(scan)
  <2> HIDE DEF Is, scan
  <2> QED
    BY <1>1, <1>2, Zenon
<1>4. \A i \in start-1 .. Len(text) : scan[i] = IF i < start THEN Blank ELSE ReadChar(scan[i-1], text[i])
  <2> HIDE DEF scan
  <2> QED
    BY <1>3
<1> HIDE DEF scan
<1>5. scan[start-1] = Blank
  BY <1>4
<1>6. \A i \in start .. Len(text) : scan[i] = ReadChar(scan[i-1], text[i])
  BY <1>4
<1> QED
  BY <1>5, <1>6 DEF scan

-----------------------------------------------------------------------------
(* The grammar.                                                            *)

\* What the definitions of StringBodies and Members say of a length, given the
\* texts of the smaller ones.
BodiesOf(n, f) ==
  IF n = 0 THEN {<<>>}
  ELSE {<<ch>> \o rest : ch \in Chars \ {Quote, Backslash}, rest \in f[n-1]}
       \cup (IF n = 1 THEN {}
             ELSE {<<Backslash, ch>> \o rest : ch \in Chars, rest \in f[n-2]})

Parts(k, f) == JsonStrings(k) \cup {<<Open>> \o inner \o <<Close>> : inner \in f[k-2]}
MembersOf(n, f) ==
  IF n = 0 THEN {<<>>}
  ELSE {<<ch>> \o rest : ch \in {Other, Backslash, Fence}, rest \in f[n-1]}
       \cup UNION {{part \o rest : part \in Parts(k, f), rest \in f[n-k]} : k \in 2 .. n}

\* They look at the smaller lengths only.
LEMMA SmallerOnly ==
  ASSUME NEW n \in Nat, NEW f, NEW g, \A m \in 0 .. n-1 : f[m] = g[m]
  PROVE  BodiesOf(n, f) = BodiesOf(n, g) /\ MembersOf(n, f) = MembersOf(n, g)
<1>1. CASE n = 0
  BY <1>1 DEF BodiesOf, MembersOf
<1>2. CASE n # 0
  <2>1. f[n-1] = g[n-1]
    <3>1. n - 1 \in 0 .. n-1
      BY <1>2
    <3> QED
      BY <3>1
  <2>2. n # 1 => f[n-2] = g[n-2]
    <3>1. n # 1 => n - 2 \in 0 .. n-1
      BY <1>2
    <3> QED
      BY <3>1
  <2>3. \A k \in 2 .. n : f[n-k] = g[n-k] /\ Parts(k, f) = Parts(k, g)
    <3> TAKE k \in 2 .. n
    <3>1. n - k \in 0 .. n-1 /\ k - 2 \in 0 .. n-1
      OBVIOUS
    <3>2. f[n-k] = g[n-k] /\ f[k-2] = g[k-2]
      BY <3>1
    <3> QED
      BY <3>2 DEF Parts
  <2>4. BodiesOf(n, f) = BodiesOf(n, g)
    <3> DEFINE Plain(S) == {<<ch>> \o rest : ch \in Chars \ {Quote, Backslash}, rest \in S}
               Escaped(S) == {<<Backslash, ch>> \o rest : ch \in Chars, rest \in S}
    <3>1. \A h : BodiesOf(n, h) = Plain(h[n-1]) \cup (IF n = 1 THEN {} ELSE Escaped(h[n-2]))
      BY <1>2 DEF BodiesOf
    <3> HIDE DEF Plain, Escaped
    <3>2. CASE n = 1
      <4>1. \A h : BodiesOf(n, h) = Plain(h[n-1])
        BY <3>1, <3>2
      <4> QED
        BY <2>1, <4>1
    <3>3. CASE n # 1
      <4>1. \A h : BodiesOf(n, h) = Plain(h[n-1]) \cup Escaped(h[n-2])
        BY <3>1, <3>3
      <4> QED
        BY <2>1, <2>2, <3>3, <4>1
    <3> QED
      BY <3>2, <3>3
  <2>5. MembersOf(n, f) = MembersOf(n, g)
    <3> DEFINE Plain(S) == {<<ch>> \o rest : ch \in {Other, Backslash, Fence}, rest \in S}
               Joined(S, U) == {part \o rest : part \in S, rest \in U}
               Cut(h, k) == Joined(Parts(k, h), h[n-k])
    <3>1. \A h : MembersOf(n, h) = Plain(h[n-1]) \cup UNION {Cut(h, k) : k \in 2 .. n}
      BY <1>2 DEF MembersOf
    <3> HIDE DEF Plain, Joined
    <3>2. \A k \in 2 .. n : Cut(f, k) = Cut(g, k)
      BY <2>3
    <3> HIDE DEF Cut
    <3>3. {Cut(f, k) : k \in 2 .. n} = {Cut(g, k) : k \in 2 .. n}
      BY <3>2
    <3> QED
      BY <2>1, <3>1, <3>3
  <2> QED
    BY <2>4, <2>5
<1> QED
  BY <1>1, <1>2

\* StringBodies and Members are defined.
LEMMA GrammarExists ==
  ASSUME NEW max \in Nat
  PROVE  /\ \E f : f = [n \in 0 .. max |-> BodiesOf(n, f)]
         /\ \E f : f = [n \in 0 .. max |-> MembersOf(n, f)]
<1> DEFINE Bodied == {m \in Nat : \E f : f = [n \in 0 .. m |-> BodiesOf(n, f)]}
           Membered == {m \in Nat : \E f : f = [n \in 0 .. m |-> MembersOf(n, f)]}
<1>1. ASSUME NEW m \in Nat, \A l \in 0 .. m-1 : l \in Bodied PROVE m \in Bodied
  <2>1. \E f : \A n \in 0 .. m-1 : f[n] = BodiesOf(n, f)
    <3>1. CASE m = 0
      BY <3>1
    <3>2. CASE m # 0
      <4>1. m - 1 \in 0 .. m-1
        BY <3>2
      <4>2. PICK f : f = [n \in 0 .. m-1 |-> BodiesOf(n, f)]
        BY <1>1, <4>1
      <4>3. \A n \in 0 .. m-1 : f[n] = BodiesOf(n, f)
        BY <4>2
      <4> QED
        BY <4>3
    <3> QED
      BY <3>1, <3>2
  <2>2. PICK f : \A n \in 0 .. m-1 : f[n] = BodiesOf(n, f)
    BY <2>1
  <2> DEFINE g == [n \in 0 .. m |-> BodiesOf(n, f)]
  <2>3. \A n \in 0 .. m-1 : f[n] = g[n]
    BY <2>2
  <2>4. \A n \in 0 .. m : BodiesOf(n, f) = BodiesOf(n, g)
    <3> HIDE DEF g
    <3> QED
      BY <2>3, SmallerOnly
  <2>5. g = [n \in 0 .. m |-> BodiesOf(n, g)]
    <3>1. g = [n \in 0 .. m |-> BodiesOf(n, f)]
      OBVIOUS
    <3> HIDE DEF g
    <3> QED
      BY <2>4, <3>1
  <2> HIDE DEF g
  <2> QED
    BY <2>5
<1>2. ASSUME NEW m \in Nat, \A l \in 0 .. m-1 : l \in Membered PROVE m \in Membered
  <2>1. \E f : \A n \in 0 .. m-1 : f[n] = MembersOf(n, f)
    <3>1. CASE m = 0
      BY <3>1
    <3>2. CASE m # 0
      <4>1. m - 1 \in 0 .. m-1
        BY <3>2
      <4>2. PICK f : f = [n \in 0 .. m-1 |-> MembersOf(n, f)]
        BY <1>2, <4>1
      <4>3. \A n \in 0 .. m-1 : f[n] = MembersOf(n, f)
        BY <4>2
      <4> QED
        BY <4>3
    <3> QED
      BY <3>1, <3>2
  <2>2. PICK f : \A n \in 0 .. m-1 : f[n] = MembersOf(n, f)
    BY <2>1
  <2> DEFINE g == [n \in 0 .. m |-> MembersOf(n, f)]
  <2>3. \A n \in 0 .. m-1 : f[n] = g[n]
    BY <2>2
  <2>4. \A n \in 0 .. m : MembersOf(n, f) = MembersOf(n, g)
    <3> HIDE DEF g
    <3> QED
      BY <2>3, SmallerOnly
  <2>5. g = [n \in 0 .. m |-> MembersOf(n, g)]
    <3>1. g = [n \in 0 .. m |-> MembersOf(n, f)]
      OBVIOUS
    <3> HIDE DEF g
    <3> QED
      BY <2>4, <3>1
  <2> HIDE DEF g
  <2> QED
    BY <2>5
<1>3. max \in Bodied /\ max \in Membered
  <2> HIDE DEF Bodied, Membered
  <2> QED
    BY <1>1, <1>2, AllNaturals
<1> QED
  BY <1>3

\* So for each length they say what they should.
LEMMA GrammarTurns ==
  \A n \in 0 .. MaxText :
    StringBodies[n] = BodiesOf(n, StringBodies) /\ Members[n] = MembersOf(n, Members)
<1> USE StructuringAssumption
<1> DEFINE IsBodies(f) == f = [n \in 0 .. MaxText |-> BodiesOf(n, f)]
           IsMembers(f) == f = [n \in 0 .. MaxText |-> MembersOf(n, f)]
<1>1. (\E f : IsBodies(f)) /\ (\E f : IsMembers(f))
  BY GrammarExists
<1>2. StringBodies = CHOOSE f : IsBodies(f)
  BY DEF StringBodies, BodiesOf
<1>3. Members = CHOOSE f : IsMembers(f)
  BY DEF Members, MembersOf, Parts
<1>4. IsBodies(StringBodies) /\ IsMembers(Members)
  <2> HIDE DEF IsBodies, IsMembers
  <2> QED
    BY <1>1, <1>2, <1>3, Zenon
<1> QED
  BY <1>4

-----------------------------------------------------------------------------
(* Texts.                                                                  *)

\* The operators on texts, named so that only what is proved of them here is
\* used of them.
Texts == Seq(Chars)
Part(T, i, j) == SubSeq(T, i, j)
Joined(u, v) == u \o v
One(a) == <<a>>
Two(a, b) == <<a, b>>
Size(u) == Len(u)
At(T, k) == T[k]

\* Texts of one character and of two.
LEMMA FewChars ==
  \A a, b \in Chars :
    /\ <<a>> \in Seq(Chars) /\ Len(<<a>>) = 1 /\ <<a>>[1] = a
    /\ <<a, b>> \in Seq(Chars) /\ Len(<<a, b>>) = 2 /\ <<a, b>>[1] = a /\ <<a, b>>[2] = b
<1> HIDE DEF Chars
<1> QED
  OBVIOUS

\* The characters differ.
LEMMA CharsAreChars ==
  /\ {Open, Close, Quote, Backslash, Fence, Other} = Chars
  /\ Open # Close /\ Open # Quote /\ Open # Backslash /\ Open # Fence /\ Open # Other
  /\ Close # Quote /\ Close # Backslash /\ Close # Fence /\ Close # Other
  /\ Quote # Backslash /\ Quote # Fence /\ Quote # Other
  /\ Backslash # Fence /\ Backslash # Other /\ Fence # Other
BY DEF Chars, Open, Close, Quote, Backslash, Fence, Other

\* Where a part of a text falls into two, and only there.
LEMMA Cut ==
  ASSUME NEW T \in Texts, NEW i \in 1 .. Size(T)+1, NEW j \in i-1 .. Size(T),
         NEW m \in i .. j+1,
         NEW u \in Texts, NEW v \in Texts, Size(u) = m - i
  PROVE  Part(T, i, j) = Joined(u, v) <=>
           Size(v) = j - m + 1 /\ u = Part(T, i, m-1) /\ v = Part(T, m, j)
<1> HIDE DEF Chars
<1> USE DEF Texts, Part, Joined, Size
<1> DEFINE w == SubSeq(T, i, j)
<1>1. Len(T) \in Nat /\ Len(u) \in Nat /\ Len(v) \in Nat /\ i \in Int /\ j \in Int /\ m \in Int
  BY LenProperties
<1>2. \A k \in 1 .. Len(T) : T[k] \in Chars
  BY ElementOfSeq
<1>3. w \in Seq(Chars) /\ Len(w) = j - i + 1 /\ \A k \in 1 .. j-i+1 : w[k] = T[i+k-1]
  <2>1. \A k \in i .. j : T[k] \in Chars
    BY <1>1, <1>2
  <2> QED
    BY <1>1, <2>1, SubSeqProperties
<1>4. u \o v \in Seq(Chars) /\ Len(u \o v) = Len(u) + Len(v)
      /\ \A k \in 1 .. Len(u) + Len(v) : (u \o v)[k] = IF k <= Len(u) THEN u[k] ELSE v[k - Len(u)]
  BY ConcatProperties
<1>5. /\ SubSeq(T, i, m-1) \in Seq(Chars) /\ Len(SubSeq(T, i, m-1)) = Len(u)
      /\ \A k \in 1 .. Len(u) : SubSeq(T, i, m-1)[k] = T[i+k-1]
  <2> DEFINE n == m-1
  <2>1. n \in Int /\ n-i+1 = Len(u) /\ (IF i <= n THEN n-i+1 ELSE 0) = Len(u)
        /\ \A k \in i .. n : T[k] \in Chars
    BY <1>1, <1>2
  <2> HIDE DEF n
  <2>2. /\ SubSeq(T, i, n) \in Seq(Chars)
        /\ Len(SubSeq(T, i, n)) = IF i <= n THEN n-i+1 ELSE 0
        /\ \A k \in 1 .. n-i+1 : SubSeq(T, i, n)[k] = T[i+k-1]
    BY <1>1, <2>1, SubSeqProperties
  <2> QED
    BY <2>1, <2>2 DEF n
<1>6. /\ SubSeq(T, m, j) \in Seq(Chars) /\ Len(SubSeq(T, m, j)) = j - m + 1
      /\ \A k \in 1 .. j-m+1 : SubSeq(T, m, j)[k] = T[m+k-1]
  <2>1. \A k \in m .. j : T[k] \in Chars
    BY <1>1, <1>2
  <2>2. /\ SubSeq(T, m, j) \in Seq(Chars)
        /\ Len(SubSeq(T, m, j)) = IF m <= j THEN j-m+1 ELSE 0
        /\ \A k \in 1 .. j-m+1 : SubSeq(T, m, j)[k] = T[m+k-1]
    BY <1>1, <2>1, SubSeqProperties
  <2> QED
    BY <1>1, <2>2
<1>7. ASSUME w = u \o v
      PROVE  Len(v) = j - m + 1 /\ u = SubSeq(T, i, m-1) /\ v = SubSeq(T, m, j)
  <2>1. Len(u) + Len(v) = j - i + 1 /\ Len(v) = j - m + 1
    BY <1>1, <1>3, <1>4, <1>7
  <2>2. \A k \in 1 .. Len(u) : u[k] = SubSeq(T, i, m-1)[k]
    <3> TAKE k \in 1 .. Len(u)
    <3>1. k \in 1 .. j-i+1 /\ k \in 1 .. Len(u) + Len(v) /\ k <= Len(u)
      BY <1>1, <2>1
    <3>2. w[k] = u[k] /\ w[k] = T[i+k-1]
      BY <1>3, <1>4, <1>7, <3>1
    <3> QED
      BY <1>5, <3>2
  <2>3. \A k \in 1 .. Len(v) : v[k] = SubSeq(T, m, j)[k]
    <3> TAKE k \in 1 .. Len(v)
    <3> DEFINE l == Len(u) + k
    <3>1. l \in 1 .. j-i+1 /\ l \in 1 .. Len(u) + Len(v) /\ ~(l <= Len(u)) /\ l - Len(u) = k
          /\ i+l-1 = m+k-1 /\ k \in 1 .. j-m+1
      BY <1>1, <2>1
    <3> HIDE DEF l
    <3>2. w[l] = v[k] /\ w[l] = T[m+k-1]
      BY <1>3, <1>4, <1>7, <3>1
    <3> QED
      BY <1>6, <3>1, <3>2
  <2> QED
    BY <1>5, <1>6, <2>1, <2>2, <2>3, SeqEqual
<1>8. ASSUME Len(v) = j - m + 1, u = SubSeq(T, i, m-1), v = SubSeq(T, m, j)
      PROVE  w = u \o v
  <2>1. Len(u) + Len(v) = j - i + 1
    BY <1>1, <1>8
  <2>2. \A k \in 1 .. Len(w) : w[k] = (u \o v)[k]
    <3> TAKE k \in 1 .. Len(w)
    <3>1. k \in 1 .. j-i+1 /\ w[k] = T[i+k-1] /\ k \in 1 .. Len(u) + Len(v)
      BY <1>3, <2>1
    <3>2. CASE k <= Len(u)
      <4>1. k \in 1 .. Len(u) /\ (u \o v)[k] = u[k]
        BY <1>1, <1>4, <3>1, <3>2
      <4> QED
        BY <1>5, <1>8, <3>1, <4>1
    <3>3. CASE ~(k <= Len(u))
      <4> DEFINE l == k - Len(u)
      <4>1. l \in 1 .. j-m+1 /\ (u \o v)[k] = v[l] /\ m+l-1 = i+k-1
        BY <1>1, <1>4, <1>8, <3>1, <3>3
      <4> HIDE DEF l
      <4>2. v[l] = T[m+l-1]
        BY <1>6, <1>8, <4>1
      <4> QED
        BY <3>1, <4>1, <4>2
    <3> QED
      BY <3>2, <3>3
  <2> HIDE DEF w
  <2> QED
    BY <1>3, <1>4, <2>1, <2>2, SeqEqual
<1> QED
  BY <1>7, <1>8

\* A part of one character.
LEMMA OneChar ==
  ASSUME NEW T \in Seq(Chars), NEW k \in 1 .. Len(T)
  PROVE  SubSeq(T, k, k) = <<T[k]>>
<1> HIDE DEF Chars
<1>1. T[k] \in Chars /\ k \in Int /\ Len(T) \in Nat
  BY LenProperties, ElementOfSeq
<1>2. /\ SubSeq(T, k, k) \in Seq(Chars) /\ Len(SubSeq(T, k, k)) = 1
      /\ SubSeq(T, k, k)[1] = T[k]
  <2>1. \A l \in k .. k : T[l] \in Chars
    BY <1>1
  <2>2. /\ SubSeq(T, k, k) \in Seq(Chars)
        /\ Len(SubSeq(T, k, k)) = IF k <= k THEN k-k+1 ELSE 0
        /\ \A l \in 1 .. k-k+1 : SubSeq(T, k, k)[l] = T[k+l-1]
    BY <1>1, <2>1, SubSeqProperties
  <2> QED
    BY <1>1, <2>2
<1>3. <<T[k]>> \in Seq(Chars) /\ Len(<<T[k]>>) = 1 /\ <<T[k]>>[1] = T[k]
  BY <1>1, FewChars
<1>4. \A l \in 1 .. Len(SubSeq(T, k, k)) : SubSeq(T, k, k)[l] = <<T[k]>>[l]
  BY <1>2, <1>3
<1> QED
  BY <1>2, <1>3, <1>4, SeqEqual

\* Any part of a text is a text.
LEMMA PartOfText ==
  ASSUME NEW T \in Texts, NEW i \in 1 .. Size(T)+1, NEW j \in i-1 .. Size(T)
  PROVE  Part(T, i, j) \in Texts /\ Size(Part(T, i, j)) = j - i + 1
<1> HIDE DEF Chars
<1> USE DEF Texts, Part, Size
<1>1. Len(T) \in Nat /\ i \in Int /\ j \in Int
  BY LenProperties
<1>2. \A k \in i .. j : T[k] \in Chars
  BY <1>1, ElementOfSeq
<1>3. /\ SubSeq(T, i, j) \in Seq(Chars)
      /\ Len(SubSeq(T, i, j)) = IF i <= j THEN j-i+1 ELSE 0
  BY <1>1, <1>2, SubSeqProperties
<1> QED
  BY <1>1, <1>3

\* What is known of texts, their lengths and characters.
LEMMA TextFacts ==
  /\ \A T \in Texts : Size(T) \in Nat /\ \A k \in 1 .. Size(T) : At(T, k) \in Chars
  /\ \A u, v \in Texts : Joined(u, v) \in Texts /\ Size(Joined(u, v)) = Size(u) + Size(v)
  /\ \A u, v, w \in Texts : Joined(Joined(u, v), w) = Joined(u, Joined(v, w))
  /\ \A a, b \in Chars :
       /\ One(a) \in Texts /\ Size(One(a)) = 1
       /\ Two(a, b) \in Texts /\ Size(Two(a, b)) = 2
       /\ (One(a) = One(b) <=> a = b)
       /\ Two(a, b) = Joined(One(a), One(b))
  /\ <<>> \in Texts /\ Size(<<>>) = 0
  /\ \A T \in Texts : Size(T) = 0 => T = <<>>
  /\ \A T \in Texts : \A k \in 1 .. Size(T) : Part(T, k, k) = One(At(T, k))
<1> HIDE DEF Chars
<1>1. \A T \in Texts : Size(T) \in Nat /\ \A k \in 1 .. Size(T) : At(T, k) \in Chars
  BY LenProperties, ElementOfSeq DEF Texts, Size, At
<1>2. ASSUME NEW u \in Texts, NEW v \in Texts
      PROVE Joined(u, v) \in Texts /\ Size(Joined(u, v)) = Size(u) + Size(v)
  BY ConcatProperties DEF Texts, Joined, Size
<1>3. ASSUME NEW u \in Texts, NEW v \in Texts, NEW w \in Texts
      PROVE Joined(Joined(u, v), w) = Joined(u, Joined(v, w))
  BY ConcatAssociative DEF Texts, Joined, Size
<1>4. ASSUME NEW a \in Chars, NEW b \in Chars
      PROVE  /\ One(a) \in Texts /\ Size(One(a)) = 1
             /\ Two(a, b) \in Texts /\ Size(Two(a, b)) = 2
             /\ (One(a) = One(b) <=> a = b)
  BY FewChars DEF One, Two, Texts, Size
<1>5. ASSUME NEW a \in Chars, NEW b \in Chars
      PROVE  Two(a, b) = Joined(One(a), One(b))
  <2>1. PICK x : x = One(a)
    OBVIOUS
  <2>2. PICK y : y = One(b)
    OBVIOUS
  <2>3. PICK z : z = Two(a, b)
    OBVIOUS
  <2>4. /\ x \in Texts /\ y \in Texts /\ z \in Texts
        /\ Len(x) = 1 /\ Len(y) = 1 /\ Len(z) = 2
        /\ x[1] = a /\ y[1] = b /\ z[1] = a /\ z[2] = b
    BY <2>1, <2>2, <2>3, FewChars DEF One, Two, Texts
  <2>5. /\ x \o y \in Seq(Chars) /\ Len(x \o y) = Len(x) + Len(y)
        /\ \A k \in 1 .. Len(x) + Len(y) : (x \o y)[k] = IF k <= Len(x) THEN x[k] ELSE y[k - Len(x)]
    BY <2>4, ConcatProperties DEF Texts
  <2>6. PICK s : s = x \o y
    OBVIOUS
  <2>7. s \in Texts /\ Len(s) = 2 /\ s[1] = a /\ s[2] = b
    <3>1. 1 \in 1 .. Len(x) + Len(y) /\ 2 \in 1 .. Len(x) + Len(y) /\ 2 - Len(x) = 1 /\ ~(2 <= Len(x))
          /\ 1 <= Len(x)
      BY <2>4
    <3> QED
      BY <2>4, <2>5, <2>6, <3>1 DEF Texts
  <2>8. \A k \in 1 .. Len(z) : z[k] = s[k]
    <3> TAKE k \in 1 .. Len(z)
    <3>1. k = 1 \/ k = 2
      BY <2>4
    <3> QED
      BY <2>4, <2>7, <3>1
  <2>9. z = s
    BY <2>4, <2>7, <2>8, SeqEqual DEF Texts
  <2> QED
    BY <2>1, <2>2, <2>3, <2>6, <2>9 DEF Joined
<1>6. <<>> \in Texts /\ Size(<<>>) = 0
  BY EmptySeq DEF Texts, Size
<1>7. ASSUME NEW T \in Texts, Size(T) = 0 PROVE T = <<>>
  BY <1>7, EmptySeq DEF Texts, Size
<1>8. ASSUME NEW T \in Texts, NEW k \in 1 .. Size(T) PROVE Part(T, k, k) = One(At(T, k))
  BY OneChar DEF Texts, Part, One, Size, At
<1> QED
  BY <1>1, <1>2, <1>3, <1>4, <1>5, <1>6, <1>7, <1>8

\* A character and what follows it.
LEMMA CutFirst ==
  ASSUME NEW T \in Texts, NEW i \in 1 .. Size(T), NEW j \in i .. Size(T),
         NEW a \in Chars, NEW v \in Texts
  PROVE  Part(T, i, j) = Joined(One(a), v) <=>
           Size(v) = j - i /\ At(T, i) = a /\ v = Part(T, i+1, j)
<1> HIDE DEF Chars
<1>1. Size(T) \in Nat /\ Size(v) \in Nat /\ i \in Int /\ j \in Int /\ At(T, i) \in Chars
      /\ One(a) \in Texts /\ Size(One(a)) = 1
  BY TextFacts
<1>2. One(a) = Part(T, i, i) <=> At(T, i) = a
  <2>1. Part(T, i, i) = One(At(T, i))
    BY TextFacts
  <2>2. One(At(T, i)) = One(a) <=> At(T, i) = a
    BY <1>1, TextFacts
  <2> QED
    BY <2>1, <2>2
<1>3. PICK m : m = i + 1
  OBVIOUS
<1>4. m \in i .. j+1 /\ 1 = m - i /\ m - 1 = i /\ j - m + 1 = j - i
      /\ i \in 1 .. Size(T)+1 /\ j \in i-1 .. Size(T)
  BY <1>1, <1>3
<1>5. Part(T, i, j) = Joined(One(a), v) <=>
        Size(v) = j - m + 1 /\ One(a) = Part(T, i, m-1) /\ v = Part(T, m, j)
  BY <1>1, <1>4, Cut
<1> QED
  BY <1>2, <1>3, <1>4, <1>5

\* Two characters and what follows them.
LEMMA CutPair ==
  ASSUME NEW T \in Texts, NEW i \in 1 .. Size(T), NEW j \in i .. Size(T),
         NEW a \in Chars, NEW b \in Chars, NEW v \in Texts
  PROVE  Part(T, i, j) = Joined(Two(a, b), v) <=>
           /\ j > i /\ Size(v) = j - i - 1
           /\ At(T, i) = a /\ At(T, i+1) = b /\ v = Part(T, i+2, j)
<1> HIDE DEF Chars
<1>1. Size(T) \in Nat /\ Size(v) \in Nat /\ i \in Int /\ j \in Int
  BY TextFacts
<1>2. PICK u : u = Joined(One(b), v)
  OBVIOUS
<1>3. u \in Texts /\ Size(u) = 1 + Size(v) /\ Joined(Two(a, b), v) = Joined(One(a), u)
  BY <1>2, TextFacts
<1>4. Part(T, i, j) = Joined(One(a), u) <=> Size(u) = j - i /\ At(T, i) = a /\ u = Part(T, i+1, j)
  BY <1>3, CutFirst
<1>5. ASSUME Size(u) = j - i
      PROVE  u = Part(T, i+1, j) <=> At(T, i+1) = b /\ v = Part(T, i+2, j)
  <2>1. PICK m : m = i + 1
    OBVIOUS
  <2>2. m \in 1 .. Size(T) /\ j \in m .. Size(T) /\ m + 1 = i + 2 /\ Size(v) = j - m
    BY <1>1, <1>3, <1>5, <2>1
  <2>3. Part(T, m, j) = Joined(One(b), v) <=> Size(v) = j - m /\ At(T, m) = b /\ v = Part(T, m+1, j)
    BY <2>2, CutFirst
  <2> QED
    BY <1>2, <2>1, <2>2, <2>3
<1>6. Size(u) = j - i <=> j > i /\ Size(v) = j - i - 1
  BY <1>1, <1>3
<1> QED
  BY <1>3, <1>4, <1>5, <1>6

\* A text between two characters.
LEMMA CutEnds ==
  ASSUME NEW T \in Texts, NEW i \in 1 .. Size(T), NEW j \in i .. Size(T),
         NEW a \in Chars, NEW b \in Chars, NEW v \in Texts
  PROVE  Part(T, i, j) = Joined(Joined(One(a), v), One(b)) <=>
           /\ j > i /\ Size(v) = j - i - 1
           /\ At(T, i) = a /\ At(T, j) = b /\ v = Part(T, i+1, j-1)
<1> HIDE DEF Chars
<1>1. Size(T) \in Nat /\ Size(v) \in Nat /\ i \in Int /\ j \in Int /\ j \in 1 .. Size(T)
  BY TextFacts
<1>2. PICK u : u = Joined(v, One(b))
  OBVIOUS
<1>3. /\ u \in Texts /\ Size(u) = Size(v) + 1
      /\ Joined(Joined(One(a), v), One(b)) = Joined(One(a), u)
      /\ One(b) \in Texts /\ Size(One(b)) = 1
  BY <1>2, TextFacts
<1>4. One(b) = Part(T, j, j) <=> At(T, j) = b
  <2>1. Part(T, j, j) = One(At(T, j)) /\ At(T, j) \in Chars
    BY <1>1, TextFacts
  <2>2. One(At(T, j)) = One(b) <=> At(T, j) = b
    BY <2>1, TextFacts
  <2> QED
    BY <2>1, <2>2
<1>5. Part(T, i, j) = Joined(One(a), u) <=> Size(u) = j - i /\ At(T, i) = a /\ u = Part(T, i+1, j)
  BY <1>3, CutFirst
<1>6. ASSUME Size(u) = j - i
      PROVE  u = Part(T, i+1, j) <=> At(T, j) = b /\ v = Part(T, i+1, j-1)
  <2>1. PICK m : m = i + 1
    OBVIOUS
  <2>2. m \in 1 .. Size(T)+1 /\ j \in m-1 .. Size(T) /\ j \in m .. j+1 /\ Size(v) = j - m
        /\ 1 = j - j + 1
    BY <1>1, <1>3, <1>6, <2>1
  <2>3. Part(T, m, j) = Joined(v, One(b)) <=>
          Size(One(b)) = j - j + 1 /\ v = Part(T, m, j-1) /\ One(b) = Part(T, j, j)
    BY <1>3, <2>2, Cut
  <2> QED
    BY <1>2, <1>3, <1>4, <2>1, <2>2, <2>3
<1>7. Size(u) = j - i <=> j > i /\ Size(v) = j - i - 1
  BY <1>1, <1>3
<1> QED
  BY <1>3, <1>5, <1>6, <1>7

\* A text is a part of itself.
LEMMA WholeText ==
  ASSUME NEW T \in Texts
  PROVE  T = Part(T, 1, Size(T))
<1> HIDE DEF Chars
<1> USE DEF Texts, Part, Size
<1>1. Len(T) \in Nat /\ \A k \in 1 .. Len(T) : T[k] \in Chars
  BY LenProperties, ElementOfSeq
<1>2. /\ SubSeq(T, 1, Len(T)) \in Seq(Chars)
      /\ Len(SubSeq(T, 1, Len(T))) = IF 1 <= Len(T) THEN Len(T)-1+1 ELSE 0
      /\ \A k \in 1 .. Len(T)-1+1 : SubSeq(T, 1, Len(T))[k] = T[1+k-1]
  BY <1>1, SubSeqProperties
<1>3. Len(SubSeq(T, 1, Len(T))) = Len(T)
  BY <1>1, <1>2
<1>4. \A k \in 1 .. Len(T) : T[k] = SubSeq(T, 1, Len(T))[k]
  BY <1>1, <1>2
<1> QED
  BY <1>2, <1>3, <1>4, SeqEqual

\* A text of length n is one that StringBodies, Members or their parts give.
IsBody(w, n) == w \in StringBodies[n]
IsMember(w, n) == w \in Members[n]
IsPart(w, k) == w \in Parts(k, Members)

\* What the grammar says of the texts of a length.
LEMMA GrammarSays ==
  \A n \in 0 .. MaxText : \A w :
    /\ IsBody(w, n) <=>
         \/ n = 0 /\ w = <<>>
         \/ n >= 1 /\ \E ch \in Chars \ {Quote, Backslash} : \E rest :
                        IsBody(rest, n-1) /\ w = Joined(One(ch), rest)
         \/ n >= 2 /\ \E ch \in Chars : \E rest :
                        IsBody(rest, n-2) /\ w = Joined(Two(Backslash, ch), rest)
    /\ IsMember(w, n) <=>
         \/ n = 0 /\ w = <<>>
         \/ n >= 1 /\ \E ch \in {Other, Backslash, Fence} : \E rest :
                        IsMember(rest, n-1) /\ w = Joined(One(ch), rest)
         \/ \E k \in 2 .. n : \E part, rest :
              IsPart(part, k) /\ IsMember(rest, n-k) /\ w = Joined(part, rest)
    /\ IsPart(w, n) <=>
         \/ \E body : IsBody(body, n-2) /\ w = Joined(Joined(One(Quote), body), One(Quote))
         \/ \E inner : IsMember(inner, n-2) /\ w = Joined(Joined(One(Open), inner), One(Close))
<1> HIDE DEF Chars
<1> USE StructuringAssumption
<1> TAKE n \in 0 .. MaxText
<1> TAKE w
<1>1. StringBodies[n] = BodiesOf(n, StringBodies) /\ Members[n] = MembersOf(n, Members)
  BY GrammarTurns
<1>2. IsBody(w, n) <=>
         \/ n = 0 /\ w = <<>>
         \/ n >= 1 /\ \E ch \in Chars \ {Quote, Backslash} : \E rest :
                        IsBody(rest, n-1) /\ w = Joined(One(ch), rest)
         \/ n >= 2 /\ \E ch \in Chars : \E rest :
                        IsBody(rest, n-2) /\ w = Joined(Two(Backslash, ch), rest)
  <2> DEFINE Plain == {<<ch>> \o rest : ch \in Chars \ {Quote, Backslash}, rest \in StringBodies[n-1]}
             Escaped == {<<Backslash, ch>> \o rest : ch \in Chars, rest \in StringBodies[n-2]}
  <2>1. w \in Plain <=> \E ch \in Chars \ {Quote, Backslash} : \E rest :
                           IsBody(rest, n-1) /\ w = Joined(One(ch), rest)
    BY DEF IsBody, Joined, One
  <2>2. w \in Escaped <=> \E ch \in Chars : \E rest :
                             IsBody(rest, n-2) /\ w = Joined(Two(Backslash, ch), rest)
    BY DEF IsBody, Joined, Two
  <2>3. BodiesOf(n, StringBodies) = IF n = 0 THEN {<<>>} ELSE Plain \cup (IF n = 1 THEN {} ELSE Escaped)
    BY DEF BodiesOf
  <2> HIDE DEF Plain, Escaped
  <2>4. CASE n = 0
    <3>1. ~(n >= 1) /\ ~(n >= 2)
      BY <2>4
    <3>2. w \in StringBodies[n] <=> w = <<>>
      BY <1>1, <2>3, <2>4
    <3> QED
      BY <2>4, <3>1, <3>2 DEF IsBody
  <2>5. CASE n = 1
    <3>1. n >= 1 /\ ~(n >= 2) /\ n # 0
      BY <2>5
    <3>2. w \in StringBodies[n] <=> w \in Plain
      BY <1>1, <2>3, <2>5
    <3> QED
      BY <2>1, <3>1, <3>2 DEF IsBody
  <2>6. CASE n # 0 /\ n # 1
    <3>1. n >= 1 /\ n >= 2
      BY <2>6
    <3>2. w \in StringBodies[n] <=> w \in Plain \/ w \in Escaped
      BY <1>1, <2>3, <2>6
    <3> QED
      BY <2>1, <2>2, <2>6, <3>1, <3>2 DEF IsBody
  <2> QED
    BY <2>4, <2>5, <2>6
<1>3. IsMember(w, n) <=>
         \/ n = 0 /\ w = <<>>
         \/ n >= 1 /\ \E ch \in {Other, Backslash, Fence} : \E rest :
                        IsMember(rest, n-1) /\ w = Joined(One(ch), rest)
         \/ \E k \in 2 .. n : \E part, rest :
              IsPart(part, k) /\ IsMember(rest, n-k) /\ w = Joined(part, rest)
  <2> DEFINE Plain == {<<ch>> \o rest : ch \in {Other, Backslash, Fence}, rest \in Members[n-1]}
             CutAt(k) == {part \o rest : part \in Parts(k, Members), rest \in Members[n-k]}
             Cuts == UNION {CutAt(k) : k \in 2 .. n}
  <2>1. w \in Plain <=> \E ch \in {Other, Backslash, Fence} : \E rest :
                           IsMember(rest, n-1) /\ w = Joined(One(ch), rest)
    BY DEF IsMember, Joined, One
  <2>2. \A k : w \in CutAt(k) <=>
          \E part, rest : IsPart(part, k) /\ IsMember(rest, n-k) /\ w = Joined(part, rest)
    <3> TAKE k
    <3>1. w \in CutAt(k) <=> \E part \in Parts(k, Members), rest \in Members[n-k] : w = part \o rest
      OBVIOUS
    <3> HIDE DEF CutAt
    <3> QED
      BY <3>1, Zenon DEF IsMember, IsPart, Joined
  <2>3. MembersOf(n, Members) = IF n = 0 THEN {<<>>} ELSE Plain \cup Cuts
    BY DEF MembersOf
  <2> HIDE DEF Plain, CutAt
  <2>4. w \in Cuts <=> \E k \in 2 .. n : w \in CutAt(k)
    BY Zenon
  <2> HIDE DEF Cuts
  <2>5. w \in Cuts <=>
          \E k \in 2 .. n : \E part, rest : IsPart(part, k) /\ IsMember(rest, n-k) /\ w = Joined(part, rest)
    BY <2>2, <2>4, Zenon
  <2>6. CASE n = 0
    <3>1. ~(n >= 1) /\ ~\E k \in 2 .. n : TRUE
      BY <2>6
    <3>2. w \in Members[n] <=> w = <<>>
      BY <1>1, <2>3, <2>6
    <3> QED
      BY <2>6, <3>1, <3>2 DEF IsMember
  <2>7. CASE n # 0
    <3>1. n >= 1
      BY <2>7
    <3>2. w \in Members[n] <=> w \in Plain \/ w \in Cuts
      BY <1>1, <2>3, <2>7
    <3> QED
      BY <2>1, <2>5, <2>7, <3>1, <3>2 DEF IsMember
  <2> QED
    BY <2>6, <2>7
<1>4. IsPart(w, n) <=>
         \/ \E body : IsBody(body, n-2) /\ w = Joined(Joined(One(Quote), body), One(Quote))
         \/ \E inner : IsMember(inner, n-2) /\ w = Joined(Joined(One(Open), inner), One(Close))
  BY Zenon DEF IsPart, Parts, JsonStrings, IsBody, IsMember, Joined, One
<1> QED
  BY <1>2, <1>3, <1>4

\* The texts the grammar gives for a length have it.
LEMMA GrammarIsOfTexts ==
  \A n \in 0 .. MaxText : \A w :
    /\ IsBody(w, n) \/ IsMember(w, n) => w \in Texts /\ Size(w) = n
    /\ n >= 2 /\ IsPart(w, n) => w \in Texts /\ Size(w) = n
<1> HIDE DEF Chars
<1> USE StructuringAssumption
<1>1. {Open, Close, Quote, Backslash, Fence, Other} = Chars
  BY CharsAreChars
<1> DEFINE Fits == {n \in Nat : n <= MaxText =>
                      \A w : IsBody(w, n) \/ IsMember(w, n) => w \in Texts /\ Size(w) = n}
<1>2. ASSUME NEW k \in 2 .. MaxText, NEW part, IsPart(part, k), k-2 \in Fits
      PROVE  part \in Texts /\ Size(part) = k
  <2>1. \E a, b \in Chars, w \in Texts : Size(w) = k-2 /\ part = Joined(Joined(One(a), w), One(b))
    <3>1. \/ \E body : IsBody(body, k-2) /\ part = Joined(Joined(One(Quote), body), One(Quote))
          \/ \E inner : IsMember(inner, k-2) /\ part = Joined(Joined(One(Open), inner), One(Close))
      BY <1>2, GrammarSays
    <3>2. \A w : IsBody(w, k-2) \/ IsMember(w, k-2) => w \in Texts /\ Size(w) = k-2
      BY <1>2
    <3> QED
      BY <1>1, <3>1, <3>2
  <2>2. PICK a \in Chars, b \in Chars, w \in Texts :
          Size(w) = k-2 /\ part = Joined(Joined(One(a), w), One(b))
    BY <2>1
  <2>3. Joined(One(a), w) \in Texts /\ Size(Joined(One(a), w)) = 1 + (k-2)
    BY <2>2, TextFacts
  <2> QED
    BY <2>2, <2>3, TextFacts
<1>3. ASSUME NEW n \in Nat, \A m \in 0 .. n-1 : m \in Fits PROVE n \in Fits
  <2> SUFFICES ASSUME n <= MaxText, NEW w, IsBody(w, n) \/ IsMember(w, n)
               PROVE  w \in Texts /\ Size(w) = n
    OBVIOUS
  <2>1. \A m \in 0 .. n-1 : \A x : IsBody(x, m) \/ IsMember(x, m) => x \in Texts /\ Size(x) = m
    BY <1>3
  <2>2. CASE n = 0 /\ w = <<>>
    BY <2>2, TextFacts
  <2>3. ASSUME n >= 1, NEW ch \in Chars, NEW rest, IsBody(rest, n-1) \/ IsMember(rest, n-1),
               w = Joined(One(ch), rest)
        PROVE  w \in Texts /\ Size(w) = n
    <3>1. n-1 \in 0 .. n-1
      BY <2>3
    <3>2. rest \in Texts /\ Size(rest) = n-1
      BY <2>1, <2>3, <3>1
    <3>3. One(ch) \in Texts /\ Size(One(ch)) = 1
      BY TextFacts
    <3>4. w \in Texts /\ Size(w) = 1 + (n-1)
      BY <2>3, <3>2, <3>3, TextFacts
    <3> QED
      BY <3>4
  <2>4. ASSUME n >= 2, NEW ch \in Chars, NEW rest, IsBody(rest, n-2),
               w = Joined(Two(Backslash, ch), rest)
        PROVE  w \in Texts /\ Size(w) = n
    <3>1. n-2 \in 0 .. n-1
      BY <2>4
    <3>2. rest \in Texts /\ Size(rest) = n-2
      BY <2>1, <2>4, <3>1
    <3>3. Two(Backslash, ch) \in Texts /\ Size(Two(Backslash, ch)) = 2
      BY <1>1, TextFacts
    <3>4. w \in Texts /\ Size(w) = 2 + (n-2)
      BY <2>4, <3>2, <3>3, TextFacts
    <3> QED
      BY <3>4
  <2>5. ASSUME NEW k \in 2 .. n, NEW part, NEW rest, IsPart(part, k), IsMember(rest, n-k),
               w = Joined(part, rest)
        PROVE  w \in Texts /\ Size(w) = n
    <3>1. n-k \in 0 .. n-1 /\ k \in 2 .. MaxText /\ k-2 \in 0 .. n-1
      OBVIOUS
    <3>2. rest \in Texts /\ Size(rest) = n-k
      BY <2>1, <2>5, <3>1
    <3>3. k-2 \in Fits
      BY <1>3, <3>1
    <3> HIDE DEF Fits
    <3>4. part \in Texts /\ Size(part) = k
      BY <1>2, <2>5, <3>1, <3>3
    <3>5. w \in Texts /\ Size(w) = k + (n-k)
      BY <2>5, <3>2, <3>4, TextFacts
    <3> QED
      BY <3>5
  <2> HIDE DEF Fits
  <2>6. n \in 0 .. MaxText
    OBVIOUS
  <2>7. CASE IsBody(w, n)
    <3>1. \/ n = 0 /\ w = <<>>
          \/ n >= 1 /\ \E ch \in Chars \ {Quote, Backslash} : \E rest :
                         IsBody(rest, n-1) /\ w = Joined(One(ch), rest)
          \/ n >= 2 /\ \E ch \in Chars : \E rest :
                         IsBody(rest, n-2) /\ w = Joined(Two(Backslash, ch), rest)
      BY <2>6, <2>7, GrammarSays
    <3> QED
      BY <2>2, <2>3, <2>4, <3>1
  <2>8. CASE IsMember(w, n)
    <3>1. \/ n = 0 /\ w = <<>>
          \/ n >= 1 /\ \E ch \in {Other, Backslash, Fence} : \E rest :
                         IsMember(rest, n-1) /\ w = Joined(One(ch), rest)
          \/ \E k \in 2 .. n : \E part, rest :
               IsPart(part, k) /\ IsMember(rest, n-k) /\ w = Joined(part, rest)
      BY <2>6, <2>8, GrammarSays
    <3> QED
      BY <1>1, <2>2, <2>3, <2>5, <3>1
  <2> QED
    BY <2>7, <2>8
<1>4. Nat \subseteq Fits
  <2> HIDE DEF Fits
  <2> QED
    BY <1>3, AllNaturals
<1>5. \A n \in 0 .. MaxText : \A w : IsBody(w, n) \/ IsMember(w, n) => w \in Texts /\ Size(w) = n
  BY <1>4
<1>6. ASSUME NEW n \in 0 .. MaxText, NEW w, n >= 2, IsPart(w, n)
      PROVE  w \in Texts /\ Size(w) = n
  <2>1. n \in 2 .. MaxText /\ n-2 \in Nat
    BY <1>6
  <2>2. n-2 \in Fits
    BY <1>4, <2>1
  <2> HIDE DEF Fits
  <2> QED
    BY <1>2, <1>6, <2>1, <2>2
<1> QED
  BY <1>5, <1>6

\* The same of what stands between two positions of a text.
BodyAt(T, i, j) == IsBody(Part(T, i, j), j-i+1)
MemberAt(T, i, j) == IsMember(Part(T, i, j), j-i+1)
PieceAt(T, i, k) == IsPart(Part(T, i, k), k-i+1)

\* The body of a string is empty, or begins with a plain or an escaped character.
LEMMA BodyTurns ==
  ASSUME NEW T \in Texts, Size(T) <= MaxText, NEW i \in 1 .. Size(T)+1, NEW j \in i-1 .. Size(T)
  PROVE  BodyAt(T, i, j) <=>
           \/ j = i-1
           \/ j >= i /\ At(T, i) \notin {Quote, Backslash} /\ BodyAt(T, i+1, j)
           \/ j >= i+1 /\ At(T, i) = Backslash /\ BodyAt(T, i+2, j)
<1> HIDE DEF Chars
<1> USE StructuringAssumption
<1>1. Backslash \in Chars
  BY CharsAreChars
<1>2. Size(T) \in Nat /\ i \in Int /\ j \in Int /\ \A k \in 1 .. Size(T) : At(T, k) \in Chars
  BY TextFacts
<1>3. PICK n : n = j-i+1
  OBVIOUS
<1>4. PICK w : w = Part(T, i, j)
  OBVIOUS
<1>5. n \in 0 .. MaxText /\ w \in Texts /\ Size(w) = n /\ (BodyAt(T, i, j) <=> IsBody(w, n))
  BY <1>2, <1>3, <1>4, PartOfText DEF BodyAt
<1>6. CASE j = i-1
  <2>1. n = 0 /\ w = <<>>
    BY <1>2, <1>3, <1>5, <1>6, TextFacts
  <2>2. IsBody(w, n)
    BY <1>5, <2>1, GrammarSays
  <2> QED
    BY <1>5, <1>6, <2>2
<1>7. CASE j # i-1
  <2>1. i \in 1 .. Size(T) /\ j \in i .. Size(T) /\ n # 0 /\ j >= i /\ n >= 1
        /\ n-1 \in 0 .. MaxText /\ (n >= 2 <=> j >= i+1) /\ (n >= 2 => n-2 \in 0 .. MaxText)
    BY <1>2, <1>3, <1>5, <1>7
  <2>2. IsBody(w, n) <=>
          \/ \E ch \in Chars \ {Quote, Backslash} : \E rest :
                         IsBody(rest, n-1) /\ w = Joined(One(ch), rest)
          \/ n >= 2 /\ \E ch \in Chars : \E rest :
                         IsBody(rest, n-2) /\ w = Joined(Two(Backslash, ch), rest)
    BY <1>5, <2>1, GrammarSays
  <2>3. (\E ch \in Chars \ {Quote, Backslash} : \E rest : IsBody(rest, n-1) /\ w = Joined(One(ch), rest))
        <=> At(T, i) \notin {Quote, Backslash} /\ BodyAt(T, i+1, j)
    <3>1. ASSUME NEW ch \in Chars \ {Quote, Backslash}, NEW rest, IsBody(rest, n-1),
                 w = Joined(One(ch), rest)
          PROVE  At(T, i) \notin {Quote, Backslash} /\ BodyAt(T, i+1, j)
      <4>1. rest \in Texts /\ ch \in Chars
        BY <2>1, <3>1, GrammarIsOfTexts
      <4>2. Part(T, i, j) = Joined(One(ch), rest)
        BY <1>4, <3>1
      <4>3. At(T, i) = ch /\ rest = Part(T, i+1, j)
        BY <2>1, <4>1, <4>2, CutFirst
      <4>4. n-1 = j-(i+1)+1
        BY <1>2, <1>3
      <4> QED
        BY <3>1, <4>4, <4>3 DEF BodyAt
    <3>2. ASSUME At(T, i) \notin {Quote, Backslash}, BodyAt(T, i+1, j)
          PROVE  \E ch \in Chars \ {Quote, Backslash} : \E rest : IsBody(rest, n-1) /\ w = Joined(One(ch), rest)
      <4>1. PICK rest : rest = Part(T, i+1, j)
        OBVIOUS
      <4>2. PICK m : m = i+1
        OBVIOUS
      <4>3. m \in 1 .. Size(T)+1 /\ j \in m-1 .. Size(T) /\ j-m+1 = n-1 /\ n-1 = j-i
        BY <1>2, <1>3, <2>1, <4>2
      <4>4. rest \in Texts /\ Size(rest) = j-i /\ IsBody(rest, n-1)
        BY <3>2, <4>1, <4>2, <4>3, PartOfText DEF BodyAt
      <4>5. At(T, i) \in Chars
        BY <1>2, <2>1
      <4>6. w = Joined(One(At(T, i)), rest)
        BY <1>4, <2>1, <4>1, <4>4, <4>5, CutFirst
      <4> QED
        BY <3>2, <4>4, <4>5, <4>6
    <3> QED
      BY <3>1, <3>2
  <2>4. (n >= 2 /\ \E ch \in Chars : \E rest : IsBody(rest, n-2) /\ w = Joined(Two(Backslash, ch), rest))
        <=> j >= i+1 /\ At(T, i) = Backslash /\ BodyAt(T, i+2, j)
    <3>1. ASSUME n >= 2, NEW ch \in Chars, NEW rest, IsBody(rest, n-2),
                 w = Joined(Two(Backslash, ch), rest)
          PROVE  At(T, i) = Backslash /\ BodyAt(T, i+2, j)
      <4>1. rest \in Texts
        BY <2>1, <3>1, GrammarIsOfTexts
      <4>2. Part(T, i, j) = Joined(Two(Backslash, ch), rest)
        BY <1>4, <3>1
      <4>3. At(T, i) = Backslash /\ rest = Part(T, i+2, j)
        BY <1>1, <2>1, <4>1, <4>2, CutPair
      <4>4. n-2 = j-(i+2)+1
        BY <1>2, <1>3
      <4> QED
        BY <3>1, <4>4, <4>3 DEF BodyAt
    <3>2. ASSUME n >= 2, At(T, i) = Backslash, BodyAt(T, i+2, j)
          PROVE  \E ch \in Chars : \E rest : IsBody(rest, n-2) /\ w = Joined(Two(Backslash, ch), rest)
      <4>1. PICK rest : rest = Part(T, i+2, j)
        OBVIOUS
      <4>2. PICK m : m = i+2
        OBVIOUS
      <4>3. m \in 1 .. Size(T)+1 /\ j \in m-1 .. Size(T) /\ j-m+1 = n-2 /\ n-2 = j-i-1 /\ j > i
            /\ i+1 \in 1 .. Size(T)
        BY <1>2, <1>3, <2>1, <3>2, <4>2
      <4>4. rest \in Texts /\ Size(rest) = j-i-1 /\ IsBody(rest, n-2)
        BY <3>2, <4>1, <4>2, <4>3, PartOfText DEF BodyAt
      <4>5. At(T, i+1) \in Chars
        BY <1>2, <4>3
      <4>6. w = Joined(Two(Backslash, At(T, i+1)), rest)
        BY <1>1, <1>4, <2>1, <3>2, <4>1, <4>3, <4>4, <4>5, CutPair
      <4> QED
        BY <4>4, <4>5, <4>6
    <3> QED
      BY <2>1, <3>1, <3>2
  <2> QED
    BY <1>5, <1>7, <2>1, <2>2, <2>3, <2>4
<1> QED
  BY <1>6, <1>7

\* A part is a string, or an object.
LEMMA PieceTurns ==
  ASSUME NEW T \in Texts, Size(T) <= MaxText, NEW i \in 1 .. Size(T), NEW k \in i+1 .. Size(T)
  PROVE  PieceAt(T, i, k) <=>
           \/ At(T, i) = Quote /\ At(T, k) = Quote /\ BodyAt(T, i+1, k-1)
           \/ At(T, i) = Open /\ At(T, k) = Close /\ MemberAt(T, i+1, k-1)
<1> HIDE DEF Chars
<1> USE StructuringAssumption
<1>1. Quote \in Chars /\ Open \in Chars /\ Close \in Chars
  BY CharsAreChars
<1>2. Size(T) \in Nat /\ i \in Int /\ k \in Int
  BY TextFacts
<1>3. PICK n : n = k-i+1
  OBVIOUS
<1>4. PICK w : w = Part(T, i, k)
  OBVIOUS
<1>5. n \in 0 .. MaxText /\ n-2 \in 0 .. MaxText /\ (PieceAt(T, i, k) <=> IsPart(w, n))
      /\ k \in i .. Size(T) /\ k > i /\ n-2 = (k-1)-(i+1)+1 /\ n-2 = k-i-1
  BY <1>2, <1>3, <1>4 DEF PieceAt
<1>6. IsPart(w, n) <=>
        \/ \E body : IsBody(body, n-2) /\ w = Joined(Joined(One(Quote), body), One(Quote))
        \/ \E inner : IsMember(inner, n-2) /\ w = Joined(Joined(One(Open), inner), One(Close))
  BY <1>5, GrammarSays
<1>7. PICK v : v = Part(T, i+1, k-1)
  OBVIOUS
<1>8. v \in Texts /\ Size(v) = n-2
  <2>1. PICK a, b : a = i+1 /\ b = k-1
    OBVIOUS
  <2>2. a \in 1 .. Size(T)+1 /\ b \in a-1 .. Size(T) /\ b-a+1 = n-2
    BY <1>2, <1>5, <2>1
  <2> QED
    BY <1>7, <2>1, <2>2, PartOfText
<1>9. \A a, b \in Chars, u \in Texts :
        w = Joined(Joined(One(a), u), One(b)) <=> Size(u) = n-2 /\ At(T, i) = a /\ At(T, k) = b /\ u = v
  BY <1>4, <1>5, <1>7, CutEnds
<1>10. (\E body : IsBody(body, n-2) /\ w = Joined(Joined(One(Quote), body), One(Quote)))
      <=> At(T, i) = Quote /\ At(T, k) = Quote /\ IsBody(v, n-2)
  <2>1. \A body : IsBody(body, n-2) => body \in Texts /\ Size(body) = n-2
    BY <1>5, GrammarIsOfTexts
  <2> QED
    BY <1>1, <1>8, <1>9, <2>1
<1>11. (\E inner : IsMember(inner, n-2) /\ w = Joined(Joined(One(Open), inner), One(Close)))
      <=> At(T, i) = Open /\ At(T, k) = Close /\ IsMember(v, n-2)
  <2>1. \A inner : IsMember(inner, n-2) => inner \in Texts /\ Size(inner) = n-2
    BY <1>5, GrammarIsOfTexts
  <2> QED
    BY <1>1, <1>8, <1>9, <2>1
<1>12. (BodyAt(T, i+1, k-1) <=> IsBody(v, n-2)) /\ (MemberAt(T, i+1, k-1) <=> IsMember(v, n-2))
  BY <1>5, <1>7 DEF BodyAt, MemberAt
<1> QED
  BY <1>5, <1>6, <1>10, <1>11, <1>12

\* What an object holds is empty, or begins with a character between its
\* members or with a part.
LEMMA MemberTurns ==
  ASSUME NEW T \in Texts, Size(T) <= MaxText, NEW i \in 1 .. Size(T)+1, NEW j \in i-1 .. Size(T)
  PROVE  MemberAt(T, i, j) <=>
           \/ j = i-1
           \/ j >= i /\ At(T, i) \in {Other, Backslash, Fence} /\ MemberAt(T, i+1, j)
           \/ \E k \in i+1 .. j : PieceAt(T, i, k) /\ MemberAt(T, k+1, j)
<1> HIDE DEF Chars
<1> USE StructuringAssumption
<1>1. Other \in Chars /\ Backslash \in Chars /\ Fence \in Chars
  BY CharsAreChars
<1>2. Size(T) \in Nat /\ i \in Int /\ j \in Int /\ \A k \in 1 .. Size(T) : At(T, k) \in Chars
  BY TextFacts
<1>3. PICK n : n = j-i+1
  OBVIOUS
<1>4. PICK w : w = Part(T, i, j)
  OBVIOUS
<1>5. n \in 0 .. MaxText /\ w \in Texts /\ Size(w) = n /\ (MemberAt(T, i, j) <=> IsMember(w, n))
  BY <1>2, <1>3, <1>4, PartOfText DEF MemberAt
<1>6. CASE j = i-1
  <2>1. n = 0 /\ w = <<>>
    BY <1>2, <1>3, <1>5, <1>6, TextFacts
  <2>2. IsMember(w, n)
    BY <1>5, <2>1, GrammarSays
  <2> QED
    BY <1>5, <1>6, <2>2
<1>7. CASE j # i-1
  <2>1. i \in 1 .. Size(T) /\ j \in i .. Size(T) /\ n # 0 /\ j >= i /\ n >= 1 /\ n-1 \in 0 .. MaxText
    BY <1>2, <1>3, <1>5, <1>7
  <2>2. IsMember(w, n) <=>
          \/ \E ch \in {Other, Backslash, Fence} : \E rest :
                         IsMember(rest, n-1) /\ w = Joined(One(ch), rest)
          \/ \E l \in 2 .. n : \E part, rest :
               IsPart(part, l) /\ IsMember(rest, n-l) /\ w = Joined(part, rest)
    BY <1>5, <2>1, GrammarSays
  <2>3. (\E ch \in {Other, Backslash, Fence} : \E rest : IsMember(rest, n-1) /\ w = Joined(One(ch), rest))
        <=> At(T, i) \in {Other, Backslash, Fence} /\ MemberAt(T, i+1, j)
    <3>1. ASSUME NEW ch \in {Other, Backslash, Fence}, NEW rest, IsMember(rest, n-1),
                 w = Joined(One(ch), rest)
          PROVE  At(T, i) \in {Other, Backslash, Fence} /\ MemberAt(T, i+1, j)
      <4>1. rest \in Texts /\ ch \in Chars
        BY <1>1, <2>1, <3>1, GrammarIsOfTexts
      <4>2. Part(T, i, j) = Joined(One(ch), rest)
        BY <1>4, <3>1
      <4>3. At(T, i) = ch /\ rest = Part(T, i+1, j)
        BY <2>1, <4>1, <4>2, CutFirst
      <4>4. n-1 = j-(i+1)+1
        BY <1>2, <1>3
      <4> QED
        BY <3>1, <4>4, <4>3 DEF MemberAt
    <3>2. ASSUME At(T, i) \in {Other, Backslash, Fence}, MemberAt(T, i+1, j)
          PROVE  \E ch \in {Other, Backslash, Fence} : \E rest : IsMember(rest, n-1) /\ w = Joined(One(ch), rest)
      <4>1. PICK rest : rest = Part(T, i+1, j)
        OBVIOUS
      <4>2. PICK m : m = i+1
        OBVIOUS
      <4>3. m \in 1 .. Size(T)+1 /\ j \in m-1 .. Size(T) /\ j-m+1 = n-1 /\ n-1 = j-i
        BY <1>2, <1>3, <2>1, <4>2
      <4>4. rest \in Texts /\ Size(rest) = j-i /\ IsMember(rest, n-1)
        BY <3>2, <4>1, <4>2, <4>3, PartOfText DEF MemberAt
      <4>5. At(T, i) \in Chars
        BY <1>2, <2>1
      <4>6. w = Joined(One(At(T, i)), rest)
        BY <1>4, <2>1, <4>1, <4>4, <4>5, CutFirst
      <4> QED
        BY <3>2, <4>4, <4>6
    <3> QED
      BY <3>1, <3>2
  <2>4. ASSUME NEW l \in 2 .. n, NEW part, NEW rest, IsPart(part, l), IsMember(rest, n-l),
               w = Joined(part, rest)
        PROVE  \E k \in i+1 .. j : PieceAt(T, i, k) /\ MemberAt(T, k+1, j)
    <3>1. n-l \in 0 .. MaxText /\ l \in 0 .. MaxText /\ l >= 2
      BY <1>5
    <3>2. rest \in Texts /\ part \in Texts /\ Size(part) = l
      BY <2>4, <3>1, GrammarIsOfTexts
    <3>3. PICK m : m = i+l
      OBVIOUS
    <3>4. m \in i .. j+1 /\ Size(part) = m-i
      BY <1>2, <1>3, <3>2, <3>3
    <3>5. Part(T, i, j) = Joined(part, rest)
      BY <1>4, <2>4
    <3>6. part = Part(T, i, m-1) /\ rest = Part(T, m, j)
      BY <3>2, <3>4, <3>5, Cut
    <3>7. m-1 \in i+1 .. j /\ (m-1)-i+1 = l /\ (m-1)+1 = m /\ j-m+1 = n-l
      BY <1>2, <1>3, <3>3
    <3>8. PieceAt(T, i, m-1) /\ MemberAt(T, (m-1)+1, j)
      BY <2>4, <3>6, <3>7 DEF PieceAt, MemberAt
    <3> QED
      BY <3>7, <3>8
  <2>5. ASSUME NEW k \in i+1 .. j, PieceAt(T, i, k), MemberAt(T, k+1, j)
        PROVE  \E l \in 2 .. n : \E part, rest :
                 IsPart(part, l) /\ IsMember(rest, n-l) /\ w = Joined(part, rest)
    <3>1. PICK m : m = k+1
      OBVIOUS
    <3>2. PICK l : l = k-i+1
      OBVIOUS
    <3>3. m \in i .. j+1 /\ m-1 = k /\ l = m-i /\ l \in 2 .. n /\ j-m+1 = n-l
          /\ k \in i-1 .. Size(T) /\ m \in 1 .. Size(T)+1 /\ j \in m-1 .. Size(T)
      BY <1>2, <1>3, <2>1, <3>1, <3>2
    <3>4. PICK part : part = Part(T, i, k)
      OBVIOUS
    <3>5. PICK rest : rest = Part(T, m, j)
      OBVIOUS
    <3>6. part \in Texts /\ Size(part) = m-i /\ IsPart(part, l)
      BY <2>5, <3>2, <3>3, <3>4, PartOfText DEF PieceAt
    <3>7. rest \in Texts /\ Size(rest) = j-m+1 /\ IsMember(rest, n-l)
      BY <2>5, <3>1, <3>3, <3>5, PartOfText DEF MemberAt
    <3>8. w = Joined(part, rest)
      BY <1>4, <3>3, <3>4, <3>5, <3>6, <3>7, Cut
    <3> QED
      BY <3>3, <3>6, <3>7, <3>8
  <2> QED
    BY <1>5, <1>7, <2>1, <2>2, <2>3, <2>4, <2>5
<1> QED
  BY <1>6, <1>7

-----------------------------------------------------------------------------
(* The scanner follows the grammar.                                        *)

\* What the scanner has read so far is outside strings, in one, or in one and
\* just after a backslash.
Mode(T, s, i) ==
  IF ~Scanned(T, s)[i].inString THEN "out"
  ELSE IF Scanned(T, s)[i].escape THEN "escaped" ELSE "in"
Depth(T, s, i) == Scanned(T, s)[i].depth

\* One character in each of the three.
LEMMA ScannerTurns ==
  ASSUME NEW T \in Texts, NEW s \in 1 .. Size(T)
  PROVE  /\ Mode(T, s, s-1) = "out" /\ Depth(T, s, s-1) = 0
         /\ \A i \in s .. Size(T) :
              /\ Mode(T, s, i-1) = "out" =>
                   /\ Mode(T, s, i) = IF At(T, i) = Quote THEN "in" ELSE "out"
                   /\ Depth(T, s, i) = IF At(T, i) = Open THEN Depth(T, s, i-1) + 1
                                       ELSE IF At(T, i) = Close THEN Depth(T, s, i-1) - 1
                                       ELSE Depth(T, s, i-1)
              /\ Mode(T, s, i-1) = "in" =>
                   /\ Mode(T, s, i) = IF At(T, i) = Quote THEN "out"
                                      ELSE IF At(T, i) = Backslash THEN "escaped" ELSE "in"
                   /\ Depth(T, s, i) = Depth(T, s, i-1)
              /\ Mode(T, s, i-1) = "escaped" =>
                   Mode(T, s, i) = "in" /\ Depth(T, s, i) = Depth(T, s, i-1)
         /\ \A i \in s-1 .. Size(T) :
              Mode(T, s, i) \in {"out", "in", "escaped"} /\ Depth(T, s, i) \in Int
<1> HIDE DEF Chars
<1> DEFINE Kinds == [depth : Int, inString : BOOLEAN, escape : BOOLEAN]
<1>1. PICK f : f = Scanned(T, s)
  OBVIOUS
<1>2. Size(T) \in Nat /\ s \in Int
  BY TextFacts
<1>3. f[s-1] = Blank /\ \A i \in s .. Size(T) : f[i] = ReadChar(f[i-1], At(T, i))
  BY <1>1, <1>2, ScanTurns DEF Size, At
<1> DEFINE Good == {n \in Nat : n <= Size(T) - s + 1 =>
                       f[s-1+n] \in Kinds /\ (f[s-1+n].escape => f[s-1+n].inString)}
<1>4. ASSUME NEW n \in Nat, \A m \in 0 .. n-1 : m \in Good PROVE n \in Good
  <2> SUFFICES ASSUME n <= Size(T) - s + 1
               PROVE  f[s-1+n] \in Kinds /\ (f[s-1+n].escape => f[s-1+n].inString)
    OBVIOUS
  <2>1. CASE n = 0
    <3>1. s-1+n = s-1
      BY <1>2, <2>1
    <3>2. Blank \in Kinds /\ ~Blank.escape
      BY DEF Blank
    <3> QED
      BY <1>3, <3>1, <3>2
  <2>2. CASE n # 0
    <3>1. PICK i : i = s-1+n
      OBVIOUS
    <3>2. i \in s .. Size(T) /\ i-1 = s-1+(n-1) /\ n-1 \in 0 .. n-1 /\ n-1 <= Size(T) - s + 1
      BY <1>2, <2>2, <3>1
    <3>3. f[i-1] \in Kinds /\ (f[i-1].escape => f[i-1].inString)
      BY <1>4, <3>2
    <3> HIDE DEF Good
    <3>4. f[i] = ReadChar(f[i-1], At(T, i))
      BY <1>3, <3>2
    <3>5. PICK x \in Kinds : x = f[i-1]
      BY <3>3
    <3>6. ReadChar(x, At(T, i)) \in Kinds /\ (ReadChar(x, At(T, i)).escape => ReadChar(x, At(T, i)).inString)
      <4>1. (x.escape => x.inString) /\ Backslash # Quote
        BY <3>3, <3>5, CharsAreChars
      <4>2. PICK ch : ch = At(T, i)
        OBVIOUS
      <4>3. CASE x.inString
        <5>1. ReadChar(x, ch) = [x EXCEPT !.inString = x.escape \/ ch # Quote,
                                         !.escape = ~x.escape /\ ch = Backslash]
          BY <4>3 DEF ReadChar
        <5>2. ReadChar(x, ch) \in Kinds
          BY <5>1
        <5>3. /\ ReadChar(x, ch).inString = (x.escape \/ ch # Quote)
              /\ ReadChar(x, ch).escape = (~x.escape /\ ch = Backslash)
          BY <5>1
        <5> QED
          BY <4>1, <4>2, <5>2, <5>3
      <4>4. CASE ~x.inString
        <5>1. PICK d \in Int : d = IF ch = Open THEN x.depth + 1
                                   ELSE IF ch = Close THEN x.depth - 1 ELSE x.depth
          OBVIOUS
        <5>2. ReadChar(x, ch) = [x EXCEPT !.inString = ch = Quote, !.depth = d]
          BY <4>4, <5>1 DEF ReadChar
        <5>3. ReadChar(x, ch) \in Kinds /\ ReadChar(x, ch).escape = x.escape
          BY <5>2
        <5> QED
          BY <4>1, <4>2, <4>4, <5>3
      <4> QED
        BY <4>3, <4>4
    <3> QED
      BY <3>1, <3>4, <3>5, <3>6
  <2> QED
    BY <2>1, <2>2
<1>5. Nat \subseteq Good
  <2> HIDE DEF Good
  <2> QED
    BY <1>4, AllNaturals
<1>6. \A i \in s-1 .. Size(T) : f[i] \in Kinds /\ (f[i].escape => f[i].inString)
  <2> TAKE i \in s-1 .. Size(T)
  <2>1. PICK n : n = i - s + 1
    OBVIOUS
  <2>2. n \in Nat /\ n <= Size(T) - s + 1 /\ s-1+n = i
    BY <1>2, <2>1
  <2> QED
    BY <1>5, <2>2
<1> HIDE DEF Good
<1>7. /\ \A i : Mode(T, s, i) = IF ~f[i].inString THEN "out" ELSE IF f[i].escape THEN "escaped" ELSE "in"
      /\ \A i : Depth(T, s, i) = f[i].depth
  BY <1>1 DEF Mode, Depth
<1>8. Mode(T, s, s-1) = "out" /\ Depth(T, s, s-1) = 0
  BY <1>3, <1>7 DEF Blank
<1>9. \A i \in s-1 .. Size(T) : Mode(T, s, i) \in {"out", "in", "escaped"} /\ Depth(T, s, i) \in Int
  BY <1>6, <1>7
<1>10. ASSUME NEW i \in s .. Size(T)
       PROVE  /\ Mode(T, s, i-1) = "out" =>
                   /\ Mode(T, s, i) = IF At(T, i) = Quote THEN "in" ELSE "out"
                   /\ Depth(T, s, i) = IF At(T, i) = Open THEN Depth(T, s, i-1) + 1
                                       ELSE IF At(T, i) = Close THEN Depth(T, s, i-1) - 1
                                       ELSE Depth(T, s, i-1)
              /\ Mode(T, s, i-1) = "in" =>
                   /\ Mode(T, s, i) = IF At(T, i) = Quote THEN "out"
                                      ELSE IF At(T, i) = Backslash THEN "escaped" ELSE "in"
                   /\ Depth(T, s, i) = Depth(T, s, i-1)
              /\ Mode(T, s, i-1) = "escaped" =>
                   Mode(T, s, i) = "in" /\ Depth(T, s, i) = Depth(T, s, i-1)
  <2>1. PICK x \in Kinds : x = f[i-1] /\ (x.escape => x.inString)
    <3>1. i-1 \in s-1 .. Size(T)
      BY <1>2
    <3> QED
      BY <1>6, <3>1
  <2>2. PICK y : y = f[i]
    OBVIOUS
  <2>3. y = ReadChar(x, At(T, i))
    BY <1>3, <2>1, <2>2
  <2>4. Mode(T, s, i-1) = IF ~x.inString THEN "out" ELSE IF x.escape THEN "escaped" ELSE "in"
    BY <1>7, <2>1
  <2>5. Mode(T, s, i) = IF ~y.inString THEN "out" ELSE IF y.escape THEN "escaped" ELSE "in"
    BY <1>7, <2>2
  <2>6. Depth(T, s, i-1) = x.depth /\ Depth(T, s, i) = y.depth
    BY <1>7, <2>1, <2>2
  <2>7. /\ Backslash # Quote
        /\ x.inString => /\ y.inString = (x.escape \/ At(T, i) # Quote)
                         /\ y.escape = (~x.escape /\ At(T, i) = Backslash)
                         /\ y.depth = x.depth
        /\ ~x.inString => /\ y.inString = (At(T, i) = Quote) /\ y.escape = x.escape
                          /\ y.depth = IF At(T, i) = Open THEN x.depth + 1
                                       ELSE IF At(T, i) = Close THEN x.depth - 1 ELSE x.depth
    BY <2>1, <2>3, CharsAreChars DEF ReadChar
  <2>8. x.inString \in BOOLEAN /\ x.escape \in BOOLEAN
    BY <2>1
  <2>9. CASE ~x.inString
    BY <2>1, <2>4, <2>5, <2>6, <2>7, <2>9
  <2>10. CASE x.inString
    BY <2>1, <2>4, <2>5, <2>6, <2>7, <2>10
  <2> QED
    BY <2>9, <2>10
<1> QED
  BY <1>8, <1>9, <1>10

\* Read from inside a string, what a string may hold is what leaves the scanner
\* in the string, and never takes it out.
LEMMA InsideString ==
  ASSUME NEW T \in Texts, Size(T) <= MaxText, NEW s \in 1 .. Size(T)
  PROVE  \A i \in s .. Size(T)+1 : \A j \in i-1 .. Size(T) :
           Mode(T, s, i-1) = "in" =>
             (BodyAt(T, i, j) <=>
                Mode(T, s, j) = "in" /\ \A m \in i-1 .. j : Mode(T, s, m) # "out")
<1> HIDE DEF Chars
<1>1. Size(T) \in Nat /\ s \in Int
  BY TextFacts
<1> DEFINE Right(i, j) == Mode(T, s, i-1) = "in" =>
                            (BodyAt(T, i, j) <=>
                               Mode(T, s, j) = "in" /\ \A m \in i-1 .. j : Mode(T, s, m) # "out")
           Good == {n \in Nat : \A i \in s .. Size(T)+1 : \A j \in i-1 .. Size(T) :
                                  j-i+1 = n => Right(i, j)}
<1>2. ASSUME NEW n \in Nat, \A m \in 0 .. n-1 : m \in Good PROVE n \in Good
  <2> SUFFICES ASSUME NEW i \in s .. Size(T)+1, NEW j \in i-1 .. Size(T), j-i+1 = n,
                      Mode(T, s, i-1) = "in"
               PROVE  BodyAt(T, i, j) <=>
                        Mode(T, s, j) = "in" /\ \A m \in i-1 .. j : Mode(T, s, m) # "out"
    OBVIOUS
  <2>1. i \in Int /\ j \in Int /\ i \in 1 .. Size(T)+1
    BY <1>1
  <2>2. BodyAt(T, i, j) <=>
           \/ j = i-1
           \/ j >= i /\ At(T, i) \notin {Quote, Backslash} /\ BodyAt(T, i+1, j)
           \/ j >= i+1 /\ At(T, i) = Backslash /\ BodyAt(T, i+2, j)
    BY <2>1, BodyTurns
  <2>3. \A a \in s .. Size(T)+1 : \A b \in a-1 .. Size(T) : b-a+1 \in 0 .. n-1 => Right(a, b)
    BY <1>2
  <2> HIDE DEF Good
  <2>4. CASE j = i-1
    BY <2>1, <2>2, <2>4
  <2>5. CASE j # i-1
    <3>1. i \in s .. Size(T) /\ j >= i /\ i+1 \in s .. Size(T)+1 /\ j \in (i+1)-1 .. Size(T)
          /\ j-(i+1)+1 \in 0 .. n-1 /\ (i+1)-1 = i
      BY <1>1, <2>1, <2>5
    <3>2. /\ Mode(T, s, i) = IF At(T, i) = Quote THEN "out"
                             ELSE IF At(T, i) = Backslash THEN "escaped" ELSE "in"
      BY <3>1, ScannerTurns
    <3>3. CASE At(T, i) = Quote
      <4>1. Quote # Backslash
        BY CharsAreChars
      <4>2. Mode(T, s, i) = "out" /\ i \in i-1 .. j
        BY <2>1, <3>1, <3>2, <3>3
      <4> QED
        BY <2>2, <2>5, <3>3, <4>1, <4>2
    <3>4. CASE At(T, i) = Backslash
      <4>1. Mode(T, s, i) = "escaped"
        <5>1. Quote # Backslash
          BY CharsAreChars
        <5> QED
          BY <3>2, <3>4, <5>1
      <4>2. CASE j = i
        <5>1. ~(j >= i+1)
          BY <2>1, <4>2
        <5> QED
          BY <2>2, <2>5, <3>4, <4>1, <4>2, <5>1
      <4>3. CASE j # i
        <5>1. j >= i+1 /\ i+1 \in s .. Size(T) /\ i+2 \in s .. Size(T)+1 /\ j \in (i+2)-1 .. Size(T)
              /\ j-(i+2)+1 \in 0 .. n-1 /\ (i+2)-1 = i+1
          BY <1>1, <2>1, <3>1, <4>3
        <5>2. Mode(T, s, i+1) = "in"
          BY <3>1, <4>1, <5>1, ScannerTurns
        <5>3. Right(i+2, j)
          BY <2>3, <5>1
        <5>4. BodyAt(T, i+2, j) <=>
                Mode(T, s, j) = "in" /\ \A m \in i+1 .. j : Mode(T, s, m) # "out"
          BY <5>1, <5>2, <5>3
        <5>5. \A m \in i-1 .. j : m = i-1 \/ m = i \/ m \in i+1 .. j
          BY <2>1
        <5>6. \A m \in i+1 .. j : m \in i-1 .. j
          BY <2>1
        <5>7. (\A m \in i-1 .. j : Mode(T, s, m) # "out") <=> (\A m \in i+1 .. j : Mode(T, s, m) # "out")
          BY <4>1, <5>5, <5>6
        <5> QED
          BY <2>2, <2>5, <3>4, <5>1, <5>4, <5>7
      <4> QED
        BY <4>2, <4>3
    <3>5. CASE At(T, i) # Quote /\ At(T, i) # Backslash
      <4>1. Mode(T, s, i) = "in"
        BY <3>2, <3>5
      <4>2. Right(i+1, j)
        BY <2>3, <3>1
      <4>3. BodyAt(T, i+1, j) <=>
              Mode(T, s, j) = "in" /\ \A m \in i .. j : Mode(T, s, m) # "out"
        BY <3>1, <4>1, <4>2
      <4>4. \A m \in i-1 .. j : m = i-1 \/ m \in i .. j
        BY <2>1
      <4>5. \A m \in i .. j : m \in i-1 .. j
        BY <2>1
      <4>6. (\A m \in i-1 .. j : Mode(T, s, m) # "out") <=> (\A m \in i .. j : Mode(T, s, m) # "out")
        BY <4>4, <4>5
      <4> QED
        BY <2>2, <2>5, <3>1, <3>5, <4>3, <4>6
    <3> QED
      BY <3>3, <3>4, <3>5
  <2> QED
    BY <2>4, <2>5
<1>3. Nat \subseteq Good
  <2> HIDE DEF Good
  <2> QED
    BY <1>2, AllNaturals
<1>4. \A i \in s .. Size(T)+1 : \A j \in i-1 .. Size(T) : j-i+1 \in Nat
  BY <1>1
<1>5. \A i \in s .. Size(T)+1 : \A j \in i-1 .. Size(T) : Right(i, j)
  <2> HIDE DEF Right
  <2> QED
    BY <1>3, <1>4
<1> QED
  BY <1>5

\* In a string no brace counts.
LEMMA StringKeepsDepth ==
  ASSUME NEW T \in Texts, NEW s \in 1 .. Size(T),
         NEW i \in s-1 .. Size(T), NEW k \in i+1 .. Size(T),
         \A m \in i .. k-1 : Mode(T, s, m) # "out"
  PROVE  \A m \in i .. k : Depth(T, s, m) = Depth(T, s, i)
<1> HIDE DEF Chars
<1>1. Size(T) \in Nat /\ s \in Int /\ i \in Int /\ k \in Int
  BY TextFacts
<1> DEFINE Good == {n \in Nat : i + n <= k => Depth(T, s, i+n) = Depth(T, s, i)}
<1>2. ASSUME NEW n \in Nat, \A m \in 0 .. n-1 : m \in Good PROVE n \in Good
  <2> SUFFICES ASSUME i + n <= k PROVE Depth(T, s, i+n) = Depth(T, s, i)
    OBVIOUS
  <2>1. CASE n = 0
    <3>1. i + n = i
      BY <1>1, <2>1
    <3> QED
      BY <3>1
  <2>2. CASE n # 0
    <3>1. PICK m : m = i + n
      OBVIOUS
    <3>2. m-1 \in i .. k-1 /\ m \in s .. Size(T) /\ m-1 \in s-1 .. Size(T)
          /\ n-1 \in 0 .. n-1 /\ m-1 = i+(n-1) /\ i+(n-1) <= k
      BY <1>1, <2>2, <3>1
    <3>3. n-1 \in Good
      BY <1>2, <3>2
    <3>4. Depth(T, s, m-1) = Depth(T, s, i)
      BY <3>2, <3>3
    <3>5. Mode(T, s, m-1) # "out"
      BY <3>2
    <3>6. Mode(T, s, m-1) \in {"in", "escaped"}
      BY <3>2, <3>5, ScannerTurns
    <3>7. Depth(T, s, m) = Depth(T, s, m-1)
      BY <3>2, <3>6, ScannerTurns
    <3> QED
      BY <3>1, <3>4, <3>7
  <2> QED
    BY <2>1, <2>2
<1>3. Nat \subseteq Good
  <2> HIDE DEF Good
  <2> QED
    BY <1>2, AllNaturals
<1> TAKE m \in i .. k
<1>4. PICK n : n = m - i
  OBVIOUS
<1>5. n \in Nat /\ i + n = m /\ i + n <= k
  BY <1>1, <1>4
<1> QED
  BY <1>3, <1>5

\* From i to j the scanner comes back to where it was, and never below.
Level(T, s, i, j) ==
  /\ Mode(T, s, j) = "out" /\ Depth(T, s, j) = Depth(T, s, i-1)
  /\ \A m \in i-1 .. j : Depth(T, s, m) >= Depth(T, s, i-1)

\* The scanner is right about what an object holds from i to j.
RightAt(T, s, i, j) == Mode(T, s, i-1) = "out" => (MemberAt(T, i, j) <=> Level(T, s, i, j))

\* A part is read from the outside to the outside and is deeper, or a string,
\* in between.
LEMMA PieceIsScanned ==
  ASSUME NEW T \in Texts, Size(T) <= MaxText, NEW s \in 1 .. Size(T),
         NEW i \in s .. Size(T), NEW k \in i+1 .. Size(T),
         Mode(T, s, i-1) = "out", RightAt(T, s, i+1, k-1)
  PROVE  PieceAt(T, i, k) <=>
           /\ Mode(T, s, k) = "out" /\ Depth(T, s, k) = Depth(T, s, i-1)
           /\ \/ At(T, i) = Quote /\ \A m \in i .. k-1 : Mode(T, s, m) # "out"
              \/ At(T, i) = Open /\ \A m \in i .. k-1 : Depth(T, s, m) > Depth(T, s, i-1)
<1> HIDE DEF Chars
<1>1. /\ Quote # Open /\ Quote # Close /\ Quote # Backslash /\ Open # Close /\ Open # Backslash
  BY CharsAreChars
<1>2. Size(T) \in Nat /\ s \in Int /\ i \in Int /\ k \in Int
  BY TextFacts
<1>3. /\ i \in 1 .. Size(T) /\ i-1 \in s-1 .. Size(T) /\ i \in s-1 .. Size(T) /\ i+1 \in s .. Size(T)+1
      /\ k \in s .. Size(T) /\ k-1 \in s-1 .. Size(T) /\ k-1 \in (i+1)-1 .. Size(T) /\ (i+1)-1 = i
      /\ k-1 \in i .. k-1 /\ i \in i .. k-1 /\ k \in i .. k
  BY <1>2
<1>4. /\ Mode(T, s, i) = IF At(T, i) = Quote THEN "in" ELSE "out"
      /\ Depth(T, s, i) = IF At(T, i) = Open THEN Depth(T, s, i-1) + 1
                          ELSE IF At(T, i) = Close THEN Depth(T, s, i-1) - 1
                          ELSE Depth(T, s, i-1)
      /\ \A m \in s-1 .. Size(T) : Mode(T, s, m) \in {"out", "in", "escaped"} /\ Depth(T, s, m) \in Int
  BY ScannerTurns
<1>5. /\ Mode(T, s, k-1) = "out" =>
           /\ Mode(T, s, k) = IF At(T, k) = Quote THEN "in" ELSE "out"
           /\ Depth(T, s, k) = IF At(T, k) = Open THEN Depth(T, s, k-1) + 1
                               ELSE IF At(T, k) = Close THEN Depth(T, s, k-1) - 1
                               ELSE Depth(T, s, k-1)
      /\ Mode(T, s, k-1) = "in" =>
           /\ Mode(T, s, k) = IF At(T, k) = Quote THEN "out"
                              ELSE IF At(T, k) = Backslash THEN "escaped" ELSE "in"
           /\ Depth(T, s, k) = Depth(T, s, k-1)
      /\ Mode(T, s, k-1) = "escaped" =>
           Mode(T, s, k) = "in" /\ Depth(T, s, k) = Depth(T, s, k-1)
  BY <1>3, ScannerTurns
<1>6. /\ Mode(T, s, k-1) \in {"out", "in", "escaped"}
      /\ Depth(T, s, k-1) \in Int /\ Depth(T, s, k) \in Int /\ Depth(T, s, i-1) \in Int /\ Depth(T, s, i) \in Int
  BY <1>3, <1>4
<1>7. PieceAt(T, i, k) <=>
        \/ At(T, i) = Quote /\ At(T, k) = Quote /\ BodyAt(T, i+1, k-1)
        \/ At(T, i) = Open /\ At(T, k) = Close /\ MemberAt(T, i+1, k-1)
  BY <1>3, PieceTurns
<1>8. CASE At(T, i) = Quote
  <2>1. Mode(T, s, i) = "in" /\ Depth(T, s, i) = Depth(T, s, i-1)
    BY <1>1, <1>4, <1>8
  <2>2. BodyAt(T, i+1, k-1) <=>
          Mode(T, s, k-1) = "in" /\ \A m \in i .. k-1 : Mode(T, s, m) # "out"
    BY <1>3, <2>1, InsideString
  <2>3. (\A m \in i .. k-1 : Mode(T, s, m) # "out") => Depth(T, s, k) = Depth(T, s, i)
    <3> SUFFICES ASSUME \A m \in i .. k-1 : Mode(T, s, m) # "out" PROVE Depth(T, s, k) = Depth(T, s, i)
      OBVIOUS
    <3>1. \A m \in i .. k : Depth(T, s, m) = Depth(T, s, i)
      BY <1>3, StringKeepsDepth
    <3> QED
      BY <1>3, <3>1
  <2>4. (\A m \in i .. k-1 : Mode(T, s, m) # "out") => Mode(T, s, k-1) # "out"
    BY <1>3
  <2>5. Mode(T, s, k-1) # "out" => (Mode(T, s, k) = "out" <=> Mode(T, s, k-1) = "in" /\ At(T, k) = Quote)
    BY <1>1, <1>5, <1>6
  <2> QED
    BY <1>1, <1>7, <1>8, <2>1, <2>2, <2>3, <2>4, <2>5
<1>9. CASE At(T, i) = Open
  <2>1. Mode(T, s, i) = "out" /\ Depth(T, s, i) = Depth(T, s, i-1) + 1
    BY <1>1, <1>4, <1>9
  <2>2. MemberAt(T, i+1, k-1) <=> Level(T, s, i+1, k-1)
    BY <1>3, <2>1 DEF RightAt
  <2>3. Level(T, s, i+1, k-1) <=>
          /\ Mode(T, s, k-1) = "out" /\ Depth(T, s, k-1) = Depth(T, s, i)
          /\ \A m \in i .. k-1 : Depth(T, s, m) >= Depth(T, s, i)
    BY <1>3 DEF Level
  <2>4. (\A m \in i .. k-1 : Depth(T, s, m) >= Depth(T, s, i))
        <=> (\A m \in i .. k-1 : Depth(T, s, m) > Depth(T, s, i-1))
    <3>1. \A m \in i .. k-1 : Depth(T, s, m) \in Int
      <4>1. \A m \in i .. k-1 : m \in s-1 .. Size(T)
        BY <1>2
      <4> QED
        BY <1>4, <4>1
    <3>2. \A m \in i .. k-1 : Depth(T, s, m) >= Depth(T, s, i) <=> Depth(T, s, m) > Depth(T, s, i-1)
      BY <1>6, <2>1, <3>1
    <3> QED
      BY <3>2
  <2>5. (\A m \in i .. k-1 : Depth(T, s, m) > Depth(T, s, i-1)) => Depth(T, s, k-1) > Depth(T, s, i-1)
    BY <1>3
  <2>6. Depth(T, s, k-1) > Depth(T, s, i-1) =>
          (Mode(T, s, k) = "out" /\ Depth(T, s, k) = Depth(T, s, i-1)
           <=> At(T, k) = Close /\ Mode(T, s, k-1) = "out" /\ Depth(T, s, k-1) = Depth(T, s, i))
    <3> SUFFICES ASSUME Depth(T, s, k-1) > Depth(T, s, i-1)
                 PROVE  Mode(T, s, k) = "out" /\ Depth(T, s, k) = Depth(T, s, i-1)
                        <=> At(T, k) = Close /\ Mode(T, s, k-1) = "out" /\ Depth(T, s, k-1) = Depth(T, s, i)
      OBVIOUS
    <3>1. CASE Mode(T, s, k-1) = "out"
      BY <1>1, <1>5, <1>6, <2>1, <3>1
    <3>2. CASE Mode(T, s, k-1) # "out"
      <4>1. Depth(T, s, k) = Depth(T, s, k-1)
        BY <1>5, <1>6, <3>2
      <4> QED
        BY <1>6, <3>2, <4>1
    <3> QED
      BY <3>1, <3>2
  <2> QED
    BY <1>1, <1>7, <1>9, <2>2, <2>3, <2>4, <2>5, <2>6
<1>10. CASE At(T, i) # Quote /\ At(T, i) # Open
  BY <1>7, <1>10
<1> QED
  BY <1>8, <1>9, <1>10

\* Of the positions from a to b with a property the first.
LEMMA FirstBetween ==
  ASSUME NEW a \in Int, NEW b \in Int, NEW S, NEW x \in a .. b, x \in S
  PROVE  \E k \in a .. b : k \in S /\ \A m \in a .. k-1 : m \notin S
<1> DEFINE Found == {n \in Nat : n + a <= b /\ n + a \in S}
<1>1. PICK y : y = x - a
  OBVIOUS
<1>2. y \in Nat /\ y + a <= b /\ y + a = x
  BY <1>1
<1>3. y \in Found
  BY <1>2
<1>4. Found \subseteq Nat /\ Found # {}
  BY <1>3
<1> HIDE DEF Found
<1>5. PICK n \in Found : \A l \in Found : n <= l
  BY <1>4, LeastOfNat
<1>6. n \in Nat /\ n + a <= b /\ n + a \in S
  BY <1>5 DEF Found
<1>7. PICK k : k = n + a
  OBVIOUS
<1>8. \A m \in a .. k-1 : m \notin S
  <2> SUFFICES ASSUME NEW m \in a .. k-1, m \in S PROVE FALSE
    OBVIOUS
  <2>1. PICK l : l = m - a
    OBVIOUS
  <2>2. l \in Nat /\ l + a = m /\ l + a <= b /\ l < n
    BY <1>6, <1>7, <2>1
  <2>3. l \in Found
    BY <2>2 DEF Found
  <2>4. n <= l
    BY <1>5, <2>3
  <2> QED
    BY <1>6, <2>2, <2>4
<1> QED
  BY <1>6, <1>7, <1>8

\* Read from outside strings, what an object may hold is what brings the
\* scanner back to the depth it was at, and never below.
LEMMA OutsideString ==
  ASSUME NEW T \in Texts, Size(T) <= MaxText, NEW s \in 1 .. Size(T)
  PROVE  \A i \in s .. Size(T)+1 : \A j \in i-1 .. Size(T) : RightAt(T, s, i, j)
<1> HIDE DEF Chars
<1>1. Size(T) \in Nat /\ s \in Int
  BY TextFacts
<1> DEFINE Good == {n \in Nat : \A i \in s .. Size(T)+1 : \A j \in i-1 .. Size(T) :
                                  j-i+1 = n => RightAt(T, s, i, j)}
<1>2. ASSUME NEW n \in Nat, \A m \in 0 .. n-1 : m \in Good PROVE n \in Good
  <2> SUFFICES ASSUME NEW i \in s .. Size(T)+1, NEW j \in i-1 .. Size(T), j-i+1 = n,
                      Mode(T, s, i-1) = "out"
               PROVE  MemberAt(T, i, j) <=> Level(T, s, i, j)
    BY DEF RightAt
  <2>1. i \in Int /\ j \in Int /\ i \in 1 .. Size(T)+1 /\ i-1 \in s-1 .. Size(T) /\ j \in s-1 .. Size(T)
    BY <1>1
  <2>2. MemberAt(T, i, j) <=>
           \/ j = i-1
           \/ j >= i /\ At(T, i) \in {Other, Backslash, Fence} /\ MemberAt(T, i+1, j)
           \/ \E k \in i+1 .. j : PieceAt(T, i, k) /\ MemberAt(T, k+1, j)
    BY <2>1, MemberTurns
  <2>3. \A a \in s .. Size(T)+1 : \A b \in a-1 .. Size(T) : b-a+1 \in 0 .. n-1 => RightAt(T, s, a, b)
    BY <1>2
  <2> HIDE DEF Good
  <2>4. \A m \in s-1 .. Size(T) : Mode(T, s, m) \in {"out", "in", "escaped"} /\ Depth(T, s, m) \in Int
    BY ScannerTurns
  <2>5. CASE j = i-1
    <3>1. \A m \in i-1 .. j : m = j
      BY <2>1, <2>5
    <3>2. Level(T, s, i, j)
      BY <2>1, <2>4, <2>5, <3>1 DEF Level
    <3> QED
      BY <2>2, <2>5, <3>2
  <2>6. CASE j # i-1
    <3>1. i \in s .. Size(T) /\ j >= i /\ i+1 \in s .. Size(T)+1 /\ j \in (i+1)-1 .. Size(T)
          /\ j-(i+1)+1 \in 0 .. n-1 /\ (i+1)-1 = i /\ i \in s-1 .. Size(T) /\ i \in i-1 .. j /\ j \in i-1 .. j
      BY <1>1, <2>1, <2>6
    <3>2. /\ Mode(T, s, i) = IF At(T, i) = Quote THEN "in" ELSE "out"
          /\ Depth(T, s, i) = IF At(T, i) = Open THEN Depth(T, s, i-1) + 1
                              ELSE IF At(T, i) = Close THEN Depth(T, s, i-1) - 1
                              ELSE Depth(T, s, i-1)
      BY <3>1, ScannerTurns
    <3>3. \A m \in i-1 .. j : m \in s-1 .. Size(T) /\ Depth(T, s, m) \in Int
      <4>1. \A m \in i-1 .. j : m \in s-1 .. Size(T)
        BY <1>1, <2>1
      <4> QED
        BY <2>4, <4>1
    <3>4. Depth(T, s, i-1) \in Int /\ Depth(T, s, i) \in Int
      BY <2>1, <2>4, <3>1
    <3>5. CASE At(T, i) \in {Other, Backslash, Fence}
      <4>1. At(T, i) # Quote /\ At(T, i) # Open /\ At(T, i) # Close
        BY <3>5, CharsAreChars
      <4>2. Mode(T, s, i) = "out" /\ Depth(T, s, i) = Depth(T, s, i-1)
        BY <3>2, <4>1
      <4>3. MemberAt(T, i+1, j) <=> Level(T, s, i+1, j)
        BY <2>3, <3>1, <4>2 DEF RightAt
      <4>4. Level(T, s, i+1, j) <=> Level(T, s, i, j)
        <5>1. \A m \in i-1 .. j : m = i-1 \/ m \in i .. j
          BY <2>1
        <5>2. \A m \in i .. j : m \in i-1 .. j
          BY <2>1
        <5>3. (\A m \in i-1 .. j : Depth(T, s, m) >= Depth(T, s, i-1))
              <=> (\A m \in i .. j : Depth(T, s, m) >= Depth(T, s, i-1))
          BY <3>4, <5>1, <5>2
        <5> QED
          BY <3>1, <4>2, <5>3 DEF Level
      <4>5. \A k \in i+1 .. j : ~PieceAt(T, i, k)
        <5> TAKE k \in i+1 .. j
        <5>1. k \in i+1 .. Size(T) /\ i \in 1 .. Size(T)
          BY <1>1, <2>1, <3>1
        <5> QED
          BY <4>1, <5>1, PieceTurns
      <4> QED
        BY <2>2, <2>6, <3>1, <3>5, <4>3, <4>4, <4>5
    <3>6. ASSUME At(T, i) \notin {Other, Backslash, Fence}
          PROVE  MemberAt(T, i, j) <=> \E k \in i+1 .. j : PieceAt(T, i, k) /\ MemberAt(T, k+1, j)
      BY <2>2, <2>6, <3>6
    <3>7. ASSUME NEW k \in i+1 .. j
          PROVE  /\ k \in i+1 .. Size(T) /\ i \in s .. Size(T) /\ RightAt(T, s, i+1, k-1)
                 /\ RightAt(T, s, k+1, j) /\ (k+1)-1 = k /\ k \in i-1 .. j
                 /\ PieceAt(T, i, k) <=>
                      /\ Mode(T, s, k) = "out" /\ Depth(T, s, k) = Depth(T, s, i-1)
                      /\ \/ At(T, i) = Quote /\ \A m \in i .. k-1 : Mode(T, s, m) # "out"
                         \/ At(T, i) = Open /\ \A m \in i .. k-1 : Depth(T, s, m) > Depth(T, s, i-1)
      <4>1. /\ k-1 \in (i+1)-1 .. Size(T) /\ (k-1)-(i+1)+1 \in 0 .. n-1
            /\ k+1 \in s .. Size(T)+1 /\ j \in (k+1)-1 .. Size(T) /\ j-(k+1)+1 \in 0 .. n-1
            /\ k \in i+1 .. Size(T) /\ i \in s .. Size(T) /\ (k+1)-1 = k /\ k \in i-1 .. j
        BY <1>1, <2>1, <3>1
      <4>2. RightAt(T, s, i+1, k-1) /\ RightAt(T, s, k+1, j)
        BY <2>3, <3>1, <4>1
      <4>3. PieceAt(T, i, k) <=>
              /\ Mode(T, s, k) = "out" /\ Depth(T, s, k) = Depth(T, s, i-1)
              /\ \/ At(T, i) = Quote /\ \A m \in i .. k-1 : Mode(T, s, m) # "out"
                 \/ At(T, i) = Open /\ \A m \in i .. k-1 : Depth(T, s, m) > Depth(T, s, i-1)
        BY <4>1, <4>2, PieceIsScanned
      <4> QED
        BY <4>1, <4>2, <4>3
    <3>8. ASSUME NEW k \in i+1 .. j, PieceAt(T, i, k), MemberAt(T, k+1, j)
          PROVE  Level(T, s, i, j)
      <4>1. /\ Mode(T, s, k) = "out" /\ Depth(T, s, k) = Depth(T, s, i-1)
            /\ \/ At(T, i) = Quote /\ \A m \in i .. k-1 : Mode(T, s, m) # "out"
               \/ At(T, i) = Open /\ \A m \in i .. k-1 : Depth(T, s, m) > Depth(T, s, i-1)
        BY <3>7, <3>8
      <4>2. Level(T, s, k+1, j)
        BY <3>7, <3>8, <4>1 DEF RightAt
      <4>3. \A m \in i .. k-1 : Depth(T, s, m) >= Depth(T, s, i-1)
        <5>1. CASE At(T, i) = Quote /\ \A m \in i .. k-1 : Mode(T, s, m) # "out"
          <6>1. Depth(T, s, i) = Depth(T, s, i-1)
            <7>1. Quote # Open /\ Quote # Close
              BY CharsAreChars
            <7> QED
              BY <3>2, <5>1, <7>1
          <6>2. \A m \in i .. k : Depth(T, s, m) = Depth(T, s, i)
            BY <3>1, <3>7, <5>1, StringKeepsDepth
          <6>3. \A m \in i .. k-1 : m \in i .. k
            BY <2>1
          <6> QED
            BY <3>4, <6>1, <6>2, <6>3
        <5>2. CASE At(T, i) = Open /\ \A m \in i .. k-1 : Depth(T, s, m) > Depth(T, s, i-1)
          <6>1. \A m \in i .. k-1 : m \in i-1 .. j
            BY <2>1
          <6> QED
            BY <3>3, <3>4, <5>2, <6>1
        <5> QED
          BY <4>1, <5>1, <5>2
      <4>4. \A m \in k .. j : Depth(T, s, m) >= Depth(T, s, i-1)
        BY <3>7, <4>1, <4>2 DEF Level
      <4>5. \A m \in i-1 .. j : m = i-1 \/ m \in i .. k-1 \/ m \in k .. j
        BY <2>1
      <4>6. \A m \in i-1 .. j : Depth(T, s, m) >= Depth(T, s, i-1)
        BY <3>4, <4>3, <4>4, <4>5
      <4>7. Mode(T, s, j) = "out" /\ Depth(T, s, j) = Depth(T, s, i-1)
        BY <3>7, <4>1, <4>2 DEF Level
      <4> QED
        BY <4>6, <4>7 DEF Level
    <3>9. ASSUME Level(T, s, i, j), At(T, i) \notin {Other, Backslash, Fence}
          PROVE  \E k \in i+1 .. j : PieceAt(T, i, k) /\ MemberAt(T, k+1, j)
      <4>1. At(T, i) \in {Quote, Open, Close}
        <5>1. At(T, i) \in Chars
          BY <1>1, <3>1, TextFacts
        <5> QED
          BY <3>9, <5>1, CharsAreChars
      <4>2. At(T, i) # Close
        <5>1. Depth(T, s, i) >= Depth(T, s, i-1)
          BY <3>1, <3>9 DEF Level
        <5>2. Open # Close
          BY CharsAreChars
        <5> QED
          BY <3>2, <3>4, <5>1, <5>2
      <4>3. \E k \in i+1 .. j : PieceAt(T, i, k)
        <5>1. CASE At(T, i) = Quote
          <6> DEFINE S == {m \in i+1 .. j : Mode(T, s, m) = "out"}
          <6>1. Mode(T, s, i) = "in" /\ Depth(T, s, i) = Depth(T, s, i-1)
            <7>1. Quote # Open /\ Quote # Close
              BY CharsAreChars
            <7> QED
              BY <3>2, <5>1, <7>1
          <6>2. j \in i+1 .. j /\ j \in S
            <7>1. Mode(T, s, j) = "out"
              BY <3>9 DEF Level
            <7>2. j # i
              BY <6>1, <7>1
            <7>3. j \in i+1 .. j
              BY <2>1, <3>1, <7>2
            <7> QED
              BY <7>1, <7>3
          <6>3. PICK k \in i+1 .. j : k \in S /\ \A m \in i+1 .. k-1 : m \notin S
            <7> HIDE DEF S
            <7>1. i+1 \in Int
              BY <2>1
            <7> QED
              BY <2>1, <6>2, <7>1, FirstBetween
          <6>4. Mode(T, s, k) = "out"
            BY <6>3
          <6>5. \A m \in i .. k-1 : Mode(T, s, m) # "out"
            <7> TAKE m \in i .. k-1
            <7>1. CASE m = i
              BY <6>1, <7>1
            <7>2. CASE m # i
              <8>1. m \in i+1 .. k-1 /\ m \in i+1 .. j
                BY <2>1, <7>2
              <8> QED
                BY <6>3, <8>1
            <7> QED
              BY <7>1, <7>2
          <6>6. Depth(T, s, k) = Depth(T, s, i-1)
            <7>1. \A m \in i .. k : Depth(T, s, m) = Depth(T, s, i)
              BY <3>1, <3>7, <6>5, StringKeepsDepth
            <7>2. k \in i .. k
              BY <2>1
            <7> QED
              BY <6>1, <7>1, <7>2
          <6> QED
            BY <3>7, <5>1, <6>4, <6>5, <6>6
        <5>2. CASE At(T, i) = Open
          <6> DEFINE S == {m \in i+1 .. j : Depth(T, s, m) <= Depth(T, s, i-1)}
          <6>1. Open # Quote /\ Open # Close
            BY CharsAreChars
          <6>2. Mode(T, s, i) = "out" /\ Depth(T, s, i) = Depth(T, s, i-1) + 1
            BY <3>2, <5>2, <6>1
          <6>3. j \in i+1 .. j /\ j \in S
            <7>1. Depth(T, s, j) = Depth(T, s, i-1)
              BY <3>9 DEF Level
            <7>2. j # i
              BY <3>4, <6>2, <7>1
            <7>3. j \in i+1 .. j
              BY <2>1, <3>1, <7>2
            <7> QED
              BY <3>4, <7>1, <7>3
          <6>4. PICK k \in i+1 .. j : k \in S /\ \A m \in i+1 .. k-1 : m \notin S
            <7> HIDE DEF S
            <7>1. i+1 \in Int
              BY <2>1
            <7> QED
              BY <2>1, <6>3, <7>1, FirstBetween
          <6>5. \A m \in i .. k-1 : Depth(T, s, m) > Depth(T, s, i-1)
            <7> TAKE m \in i .. k-1
            <7>1. CASE m = i
              BY <3>4, <6>2, <7>1
            <7>2. CASE m # i
              <8>1. m \in i+1 .. k-1 /\ m \in i+1 .. j /\ m \in i-1 .. j
                BY <2>1, <7>2
              <8>2. ~(Depth(T, s, m) <= Depth(T, s, i-1))
                BY <6>4, <8>1
              <8>3. Depth(T, s, m) \in Int
                BY <3>3, <8>1
              <8> QED
                BY <3>4, <8>2, <8>3
            <7> QED
              BY <7>1, <7>2
          <6>6. k \in i-1 .. j /\ k \in s .. Size(T) /\ k-1 \in i .. k-1 /\ k-1 \in i-1 .. j
            BY <1>1, <2>1
          <6>7. Depth(T, s, k) >= Depth(T, s, i-1) /\ Depth(T, s, k) <= Depth(T, s, i-1)
            BY <3>9, <6>4, <6>6 DEF Level
          <6>8. Depth(T, s, k) = Depth(T, s, i-1)
            <7>1. Depth(T, s, k) \in Int
              BY <3>3, <6>6
            <7> QED
              BY <3>4, <6>7, <7>1
          <6>9. Mode(T, s, k) = "out"
            <7>1. Depth(T, s, k-1) > Depth(T, s, i-1) /\ Depth(T, s, k-1) \in Int
              BY <3>3, <6>5, <6>6
            <7>2. Depth(T, s, k-1) # Depth(T, s, k)
              BY <3>4, <6>8, <7>1
            <7>3. Mode(T, s, k-1) \in {"out", "in", "escaped"}
              BY <2>4, <3>3, <6>6
            <7>4. Mode(T, s, k-1) = "out"
              BY <6>6, <7>2, <7>3, ScannerTurns
            <7>5. /\ Mode(T, s, k) = IF At(T, k) = Quote THEN "in" ELSE "out"
                  /\ Depth(T, s, k) = IF At(T, k) = Open THEN Depth(T, s, k-1) + 1
                                      ELSE IF At(T, k) = Close THEN Depth(T, s, k-1) - 1
                                      ELSE Depth(T, s, k-1)
              BY <6>6, <7>4, ScannerTurns
            <7>6. Quote # Open /\ Quote # Close
              BY CharsAreChars
            <7> QED
              BY <7>2, <7>5, <7>6
          <6> QED
            BY <3>7, <5>2, <6>5, <6>8, <6>9
        <5> QED
          BY <4>1, <4>2, <5>1, <5>2
      <4>4. PICK k \in i+1 .. j : PieceAt(T, i, k)
        BY <4>3
      <4>5. Mode(T, s, k) = "out" /\ Depth(T, s, k) = Depth(T, s, i-1)
        BY <3>7, <4>4
      <4>6. Level(T, s, k+1, j)
        <5>1. \A m \in k .. j : m \in i-1 .. j
          BY <2>1
        <5>2. (k+1)-1 = k
          BY <3>7
        <5>3. Mode(T, s, j) = "out" /\ Depth(T, s, j) = Depth(T, s, i-1)
              /\ \A m \in i-1 .. j : Depth(T, s, m) >= Depth(T, s, i-1)
          BY <3>9 DEF Level
        <5> QED
          BY <4>5, <5>1, <5>2, <5>3 DEF Level
      <4>7. MemberAt(T, k+1, j)
        BY <3>7, <4>5, <4>6 DEF RightAt
      <4> QED
        BY <4>4, <4>7
    <3> QED
      BY <3>5, <3>6, <3>8, <3>9
  <2> QED
    BY <2>5, <2>6
<1>3. Nat \subseteq Good
  <2> HIDE DEF Good
  <2> QED
    BY <1>2, AllNaturals
<1>4. \A i \in s .. Size(T)+1 : \A j \in i-1 .. Size(T) : j-i+1 \in Nat
  BY <1>1
<1> QED
  BY <1>3, <1>4

-----------------------------------------------------------------------------
(* What is taken for the object.                                           *)

\* A part of a text is an object if it stands in braces and what is between
\* them may stand there.
LEMMA ObjectTurns ==
  ASSUME NEW T \in Texts, Size(T) <= MaxText, NEW s \in 1 .. Size(T), NEW j \in s .. Size(T)
  PROVE  Part(T, s, j) \in Objects <=>
           j > s /\ At(T, s) = Open /\ At(T, j) = Close /\ MemberAt(T, s+1, j-1)
<1> HIDE DEF Chars
<1> USE StructuringAssumption
<1>1. Open \in Chars /\ Close \in Chars
  BY CharsAreChars
<1>2. Size(T) \in Nat /\ s \in Int /\ j \in Int
  BY TextFacts
<1>3. PICK w : w = Part(T, s, j)
  OBVIOUS
<1>4. w \in Objects <=> \E n \in 0 .. MaxText-2 : \E inner :
        IsMember(inner, n) /\ w = Joined(Joined(One(Open), inner), One(Close))
  <2>1. w \in Objects <=> \E inner \in UNION {Members[n] : n \in 0 .. MaxText-2} :
                            w = <<Open>> \o inner \o <<Close>>
    BY DEF Objects
  <2>2. \A inner : inner \in UNION {Members[n] : n \in 0 .. MaxText-2} <=>
                     \E n \in 0 .. MaxText-2 : IsMember(inner, n)
    BY Zenon DEF IsMember
  <2>3. \A inner : <<Open>> \o inner \o <<Close>> = Joined(Joined(One(Open), inner), One(Close))
    BY Zenon DEF Joined, One
  <2> QED
    BY <2>1, <2>2, <2>3, Zenon
<1>5. \A inner \in Texts :
        w = Joined(Joined(One(Open), inner), One(Close)) <=>
          /\ j > s /\ Size(inner) = j - s - 1
          /\ At(T, s) = Open /\ At(T, j) = Close /\ inner = Part(T, s+1, j-1)
  BY <1>1, <1>3, CutEnds
<1>6. (j-1)-(s+1)+1 = j-s-1
  BY <1>2
<1>7. ASSUME NEW n \in 0 .. MaxText-2, NEW inner, IsMember(inner, n),
             w = Joined(Joined(One(Open), inner), One(Close))
      PROVE  j > s /\ At(T, s) = Open /\ At(T, j) = Close /\ MemberAt(T, s+1, j-1)
  <2>1. n \in 0 .. MaxText
    OBVIOUS
  <2>2. inner \in Texts /\ Size(inner) = n
    BY <1>7, <2>1, GrammarIsOfTexts
  <2>3. /\ j > s /\ Size(inner) = j - s - 1
        /\ At(T, s) = Open /\ At(T, j) = Close /\ inner = Part(T, s+1, j-1)
    BY <1>5, <1>7, <2>2
  <2> QED
    BY <1>6, <1>7, <2>2, <2>3 DEF MemberAt
<1>8. ASSUME j > s, At(T, s) = Open, At(T, j) = Close, MemberAt(T, s+1, j-1)
      PROVE  \E n \in 0 .. MaxText-2 : \E inner :
               IsMember(inner, n) /\ w = Joined(Joined(One(Open), inner), One(Close))
  <2>1. PICK n : n = j-s-1
    OBVIOUS
  <2>2. n \in 0 .. MaxText-2 /\ n \in 0 .. MaxText
    BY <1>2, <1>8, <2>1
  <2>3. PICK inner : inner = Part(T, s+1, j-1)
    OBVIOUS
  <2>4. IsMember(inner, n)
    BY <1>6, <1>8, <2>1, <2>3 DEF MemberAt
  <2>5. inner \in Texts /\ Size(inner) = n
    BY <2>2, <2>4, GrammarIsOfTexts
  <2>6. w = Joined(Joined(One(Open), inner), One(Close))
    BY <1>5, <1>8, <2>1, <2>3, <2>5
  <2> QED
    BY <2>2, <2>4, <2>6
<1> QED
  BY <1>3, <1>4, <1>7, <1>8

\* Where the scanner, once it has begun, could stop.
Ends(T, s) ==
  {i \in s .. Size(T) : At(T, i) = Close /\ Mode(T, s, i-1) = "out" /\ Depth(T, s, i) = 0}

\* From the brace it begins with, what ends at the first of them is an object of
\* the grammar, and nothing else is: where extract_json_object stops is where the
\* object ends.
THEOREM FirstEndIsObject ==
  ASSUME NEW T \in Texts, Size(T) <= MaxText, NEW s \in 1 .. Size(T), NEW j \in s .. Size(T),
         At(T, s) = Open
  PROVE  Part(T, s, j) \in Objects <=> j \in Ends(T, s) /\ \A i \in Ends(T, s) : j <= i
<1> HIDE DEF Chars
<1>1. Open # Close /\ Open # Quote /\ Quote # Close
  BY CharsAreChars
<1>2. Size(T) \in Nat /\ s \in Int /\ j \in Int
  BY TextFacts
<1>3. \A m \in s-1 .. Size(T) : Mode(T, s, m) \in {"out", "in", "escaped"} /\ Depth(T, s, m) \in Int
  BY ScannerTurns
<1>4. Mode(T, s, s) = "out" /\ Depth(T, s, s) = 1
  <2>1. s \in s .. Size(T)
    BY <1>2
  <2>2. Mode(T, s, s-1) = "out" /\ Depth(T, s, s-1) = 0
    BY ScannerTurns
  <2>3. /\ Mode(T, s, s) = IF At(T, s) = Quote THEN "in" ELSE "out"
        /\ Depth(T, s, s) = IF At(T, s) = Open THEN Depth(T, s, s-1) + 1
                            ELSE IF At(T, s) = Close THEN Depth(T, s, s-1) - 1
                            ELSE Depth(T, s, s-1)
    BY <2>1, <2>2, ScannerTurns
  <2> QED
    BY <1>1, <2>2, <2>3
<1>5. CASE j = s
  <2>1. At(T, j) # Close /\ ~(j > s)
    BY <1>1, <1>2, <1>5
  <2>2. Part(T, s, j) \notin Objects
    BY <2>1, ObjectTurns
  <2>3. j \notin Ends(T, s)
    BY <2>1 DEF Ends
  <2> QED
    BY <2>2, <2>3
<1>6. CASE j # s
  <2>1. /\ j > s /\ s+1 \in s .. Size(T)+1 /\ j-1 \in (s+1)-1 .. Size(T) /\ (s+1)-1 = s
        /\ j-1 \in s-1 .. Size(T) /\ j \in s-1 .. Size(T) /\ j-1 \in s .. j-1
    BY <1>2, <1>6
  <2>2. MemberAt(T, s+1, j-1) <=> Level(T, s, s+1, j-1)
    <3>1. RightAt(T, s, s+1, j-1)
      BY <2>1, OutsideString
    <3> QED
      BY <1>4, <2>1, <3>1 DEF RightAt
  <2>3. Level(T, s, s+1, j-1) <=>
          Mode(T, s, j-1) = "out" /\ Depth(T, s, j-1) = 1 /\ \A m \in s .. j-1 : Depth(T, s, m) >= 1
    BY <1>4, <2>1 DEF Level
  <2>4. Part(T, s, j) \in Objects <=> At(T, j) = Close /\ Level(T, s, s+1, j-1)
    BY <2>1, <2>2, ObjectTurns
  <2>5. Mode(T, s, j-1) = "out" /\ At(T, j) = Close => Depth(T, s, j) = Depth(T, s, j-1) - 1
    BY <1>1, ScannerTurns
  <2>6. Depth(T, s, j-1) \in Int /\ Depth(T, s, j) \in Int
    BY <1>3, <2>1
  <2>7. ASSUME Part(T, s, j) \in Objects
        PROVE  j \in Ends(T, s) /\ \A i \in Ends(T, s) : j <= i
    <3>1. /\ At(T, j) = Close /\ Mode(T, s, j-1) = "out" /\ Depth(T, s, j-1) = 1
          /\ \A m \in s .. j-1 : Depth(T, s, m) >= 1
      BY <2>3, <2>4, <2>7
    <3>2. Depth(T, s, j) = 0
      BY <2>5, <3>1
    <3>3. j \in Ends(T, s)
      BY <3>1, <3>2 DEF Ends
    <3>4. ASSUME NEW i \in Ends(T, s), ~(j <= i) PROVE FALSE
      <4>1. i \in s .. Size(T) /\ Depth(T, s, i) = 0
        BY DEF Ends
      <4>2. i \in s .. j-1
        BY <1>2, <3>4, <4>1
      <4>3. Depth(T, s, i) >= 1
        BY <3>1, <4>2
      <4> QED
        BY <4>1, <4>3
    <3> QED
      BY <3>3, <3>4
  <2>8. ASSUME j \in Ends(T, s), \A i \in Ends(T, s) : j <= i
        PROVE  Part(T, s, j) \in Objects
    <3>1. At(T, j) = Close /\ Mode(T, s, j-1) = "out" /\ Depth(T, s, j) = 0
      BY <2>8 DEF Ends
    <3>2. Depth(T, s, j-1) = 1
      BY <2>5, <2>6, <3>1
    <3>3. ASSUME NEW m \in s .. j-1, ~(Depth(T, s, m) >= 1) PROVE FALSE
      <4> DEFINE S == {i \in s .. j-1 : ~(Depth(T, s, i) >= 1)}
      <4>1. m \in S
        BY <3>3
      <4> HIDE DEF S
      <4>2. j-1 \in Int
        BY <1>2
      <4>3. PICK k \in s .. j-1 : k \in S /\ \A i \in s .. k-1 : i \notin S
        BY <1>2, <4>1, <4>2, FirstBetween
      <4>4. ~(Depth(T, s, k) >= 1)
        BY <4>3 DEF S
      <4>5. k # s
        BY <1>4, <4>4
      <4>6. k \in s .. Size(T) /\ k-1 \in s-1 .. Size(T) /\ k \in s-1 .. Size(T)
            /\ k-1 \in s .. k-1 /\ k-1 \in s .. j-1 /\ ~(j <= k)
        BY <1>2, <4>5
      <4>7. Depth(T, s, k-1) >= 1
        BY <4>3, <4>6 DEF S
      <4>8. Depth(T, s, k-1) \in Int /\ Depth(T, s, k) \in Int
            /\ Mode(T, s, k-1) \in {"out", "in", "escaped"}
        BY <1>3, <4>6
      <4>9. Depth(T, s, k) # Depth(T, s, k-1)
        BY <4>4, <4>7, <4>8
      <4>10. Mode(T, s, k-1) = "out"
        BY <4>6, <4>8, <4>9, ScannerTurns
      <4>11. Depth(T, s, k) = IF At(T, k) = Open THEN Depth(T, s, k-1) + 1
                              ELSE IF At(T, k) = Close THEN Depth(T, s, k-1) - 1
                              ELSE Depth(T, s, k-1)
        BY <4>6, <4>10, ScannerTurns
      <4>12. At(T, k) = Close /\ Depth(T, s, k) = 0
        BY <4>4, <4>7, <4>8, <4>9, <4>11
      <4>13. k \in Ends(T, s)
        BY <4>6, <4>10, <4>12 DEF Ends
      <4> QED
        BY <2>8, <4>6, <4>13
    <3>4. Level(T, s, s+1, j-1)
      BY <2>3, <3>1, <3>2, <3>3
    <3> QED
      BY <2>4, <3>1, <3>4
  <2> QED
    BY <2>7, <2>8
<1> QED
  BY <1>5, <1>6

\* First gives the least.
LEMMA FirstIsLeast ==
  ASSUME NEW S, S \subseteq Nat, S # {}
  PROVE  First(S) \in S /\ \A j \in S : First(S) <= j
<1>1. \E i \in S : \A j \in S : i <= j
  BY LeastOfNat
<1> QED
  BY <1>1 DEF First

\* Balanced gives the object that begins at the brace, and a text that is not
\* empty, if there is one.
LEMMA BalancedIsRight ==
  ASSUME NEW T \in Texts, Size(T) <= MaxText, NEW s \in 1 .. Size(T), At(T, s) = Open
  PROVE  /\ Balanced(T, s) # NoText =>
              \E j \in s .. Size(T) : Balanced(T, s) = Part(T, s, j) /\ Part(T, s, j) \in Objects
         /\ \A j \in s .. Size(T) : Part(T, s, j) \in Objects =>
              Balanced(T, s) = Part(T, s, j) /\ Balanced(T, s) # NoText
<1> HIDE DEF Chars
<1>1. Size(T) \in Nat /\ s \in Int
  BY TextFacts
<1>2. Balanced(T, s) = IF Ends(T, s) = {} THEN NoText ELSE Part(T, s, First(Ends(T, s)))
  <2>1. Ends(T, s) = {i \in s .. Len(T) :
                        T[i] = Close /\ ~Scanned(T, s)[i-1].inString /\ Scanned(T, s)[i].depth = 0}
    <3>1. \A i : Mode(T, s, i-1) = "out" <=> ~Scanned(T, s)[i-1].inString
      BY DEF Mode
    <3> QED
      BY <3>1, Zenon DEF Ends, Size, At, Depth
  <2>2. PICK E : E = Ends(T, s)
    OBVIOUS
  <2>3. Balanced(T, s) = IF E = {} THEN NoText ELSE SubSeq(T, s, First(E))
    BY <2>1, <2>2, Zenon DEF Balanced
  <2> QED
    BY <2>2, <2>3 DEF Part
<1>3. Ends(T, s) \subseteq Nat /\ Ends(T, s) \subseteq s .. Size(T)
  BY <1>1 DEF Ends
<1>4. ASSUME Balanced(T, s) # NoText
      PROVE  \E j \in s .. Size(T) : Balanced(T, s) = Part(T, s, j) /\ Part(T, s, j) \in Objects
  <2>1. Ends(T, s) # {}
    BY <1>2, <1>4
  <2>2. PICK j : j = First(Ends(T, s))
    OBVIOUS
  <2>3. j \in Ends(T, s) /\ \A i \in Ends(T, s) : j <= i
    BY <1>3, <2>1, <2>2, FirstIsLeast
  <2>4. j \in s .. Size(T)
    BY <1>3, <2>3
  <2>5. Part(T, s, j) \in Objects
    BY <2>3, <2>4, FirstEndIsObject
  <2> QED
    BY <1>2, <2>1, <2>2, <2>4, <2>5
<1>5. ASSUME NEW j \in s .. Size(T), Part(T, s, j) \in Objects
      PROVE  Balanced(T, s) = Part(T, s, j) /\ Balanced(T, s) # NoText
  <2>1. j \in Ends(T, s) /\ \A i \in Ends(T, s) : j <= i
    BY <1>5, FirstEndIsObject
  <2>2. First(Ends(T, s)) \in Ends(T, s) /\ First(Ends(T, s)) <= j
    BY <1>3, <2>1, FirstIsLeast
  <2>3. First(Ends(T, s)) = j
    <3>1. PICK e : e = First(Ends(T, s))
      OBVIOUS
    <3>2. e \in s .. Size(T) /\ e <= j /\ j <= e
      BY <1>3, <2>1, <2>2, <3>1
    <3> QED
      BY <1>1, <3>1, <3>2
  <2>4. Balanced(T, s) = Part(T, s, j)
    BY <1>2, <2>1, <2>3
  <2>5. Part(T, s, j) # NoText
    <3>1. s \in 1 .. Size(T)+1 /\ j \in s-1 .. Size(T) /\ j-s+1 # 0
      BY <1>1
    <3>2. Size(Part(T, s, j)) = j-s+1
      BY <3>1, PartOfText
    <3>3. Size(NoText) = 0
      BY TextFacts DEF NoText
    <3> QED
      BY <3>1, <3>2, <3>3
  <2> QED
    BY <2>4, <2>5
<1> QED
  BY <1>4, <1>5

\* The positions of a character are positions.
LEMMA PositionsOfText ==
  ASSUME NEW T \in Texts, NEW ch
  PROVE  /\ Positions(T, ch) = {i \in 1 .. Size(T) : At(T, i) = ch}
         /\ Positions(T, ch) \subseteq Nat
         /\ IsFiniteSet(Positions(T, ch))
<1> HIDE DEF Chars
<1>1. DOMAIN T = 1 .. Len(T) /\ Len(T) \in Nat
  BY LenProperties DEF Texts
<1>2. Positions(T, ch) = {i \in 1 .. Size(T) : At(T, i) = ch}
  BY <1>1 DEF Positions, Size, At
<1>3. IsFiniteSet(1 .. Len(T))
  BY <1>1, FS_Interval
<1>4. Positions(T, ch) \in SUBSET (1 .. Len(T))
  BY <1>1 DEF Positions
<1>5. IsFiniteSet(Positions(T, ch))
  BY <1>3, <1>4, FS_Subset
<1>6. Positions(T, ch) \subseteq Nat
  BY <1>1, <1>4
<1> QED
  BY <1>2, <1>5, <1>6

\* Two elements, or a set with at least two.
LEMMA TwoElements ==
  ASSUME NEW S, IsFiniteSet(S)
  PROVE  Cardinality(S) >= 2 <=> \E x, y \in S : x # y
<1>1. Cardinality(S) \in Nat
  BY FS_CardinalityType
<1>2. ASSUME Cardinality(S) >= 2 PROVE \E x, y \in S : x # y
  <2>1. Cardinality(S) # 0 /\ Cardinality(S) # 1
    BY <1>1, <1>2
  <2>2. S # {}
    BY <2>1, FS_EmptySet
  <2>3. PICK x \in S : TRUE
    BY <2>2
  <2>4. S # {x}
    BY <2>1, FS_Singleton
  <2> QED
    BY <2>3, <2>4
<1>3. ASSUME NEW x \in S, NEW y \in S, x # y PROVE Cardinality(S) >= 2
  <2>1. S # {} /\ ~\E z : S = {z}
    BY <1>3
  <2>2. Cardinality(S) # 0
    BY <2>1, FS_EmptySet
  <2>3. Cardinality(S) # 1
    BY <2>1, FS_Singleton
  <2> QED
    BY <1>1, <2>2, <2>3
<1> QED
  BY <1>2, <1>3

\* What stands between the first two fences is a part of the text.
LEMMA FencedIsText ==
  ASSUME NEW T \in Texts, Cardinality(Positions(T, Fence)) >= 2
  PROVE  Fenced(T) \in Texts /\ Size(Fenced(T)) <= Size(T)
<1> HIDE DEF Chars
<1>1. Size(T) \in Nat
  BY TextFacts
<1>2. PICK P : P = Positions(T, Fence)
  OBVIOUS
<1>3. P = {i \in 1 .. Size(T) : At(T, i) = Fence} /\ P \subseteq Nat /\ IsFiniteSet(P)
  BY <1>2, PositionsOfText
<1>4. PICK x \in P, y \in P : x # y
  BY <1>2, <1>3, TwoElements
<1>5. PICK a : a = First(P)
  OBVIOUS
<1>6. a \in P /\ \A i \in P : a <= i
  BY <1>3, <1>4, <1>5, FirstIsLeast
<1>7. PICK b : b = First(P \ {a})
  OBVIOUS
<1>8. b \in P \ {a}
  <2>1. P \ {a} # {} /\ P \ {a} \subseteq Nat
    BY <1>3, <1>4
  <2> QED
    BY <1>7, <2>1, FirstIsLeast
<1>9. Fenced(T) = Part(T, a+1, b-1)
  BY <1>2, <1>5, <1>7 DEF Fenced, Part
<1>10. a \in 1 .. Size(T) /\ b \in 1 .. Size(T) /\ a < b
  <2>1. a \in 1 .. Size(T) /\ b \in 1 .. Size(T) /\ a # b /\ a <= b
    BY <1>3, <1>6, <1>8
  <2> QED
    BY <1>1, <2>1
<1>11. PICK i, j : i = a+1 /\ j = b-1
  OBVIOUS
<1>12. i \in 1 .. Size(T)+1 /\ j \in i-1 .. Size(T) /\ j-i+1 <= Size(T)
  BY <1>1, <1>10, <1>11
<1>13. Part(T, i, j) \in Texts /\ Size(Part(T, i, j)) = j-i+1
  BY <1>12, PartOfText
<1> QED
  BY <1>9, <1>11, <1>12, <1>13

\* Of every text, Extract takes the one object that begins at its first brace.
LEMMA ExtractIsRight ==
  ASSUME NEW T \in Texts, Size(T) <= MaxText, NEW strict \in BOOLEAN
  PROVE  LET got == Extract(T, strict)
             fences == Cardinality(Positions(T, Fence))
             text == IF fences >= 2 THEN Fenced(T) ELSE T
             opens == Positions(text, Open)
             prefixes == IF opens = {} THEN {}
                         ELSE {SubSeq(text, First(opens), j) : j \in First(opens) .. Len(text)}
         IN  /\ got # NoText => prefixes \cap Objects = {got}
             /\ ~strict /\ prefixes \cap Objects # {} => got # NoText
             /\ fences < 2 /\ T \in Objects => got = T
<1> HIDE DEF Chars
<1> USE StructuringAssumption
<1> DEFINE fences == Cardinality(Positions(T, Fence))
           text == IF fences >= 2 THEN Fenced(T) ELSE T
           opens == Positions(text, Open)
           got == Extract(T, strict)
           prefixes == IF opens = {} THEN {}
                       ELSE {SubSeq(text, First(opens), j) : j \in First(opens) .. Len(text)}
<1>1. text = IF fences >= 2 THEN Fenced(T) ELSE T
  OBVIOUS
<1>2. opens = Positions(text, Open)
  OBVIOUS
<1>3. got = Extract(T, strict)
  OBVIOUS
<1>4. prefixes = IF opens = {} THEN {}
                  ELSE {SubSeq(text, First(opens), j) : j \in First(opens) .. Len(text)}
  OBVIOUS
<1>5. fences = Cardinality(Positions(T, Fence))
  OBVIOUS
<1> HIDE DEF fences, text, opens, got, prefixes
<1>6. fences \in Nat
  BY <1>5, PositionsOfText, FS_CardinalityType
<1>7. (\E i, j \in DOMAIN T : i # j /\ T[i] = Fence /\ T[j] = Fence) <=> fences >= 2
  <2>1. fences >= 2 <=> \E x, y \in Positions(T, Fence) : x # y
    BY <1>5, PositionsOfText, TwoElements
  <2> QED
    BY <2>1, Zenon DEF Positions
<1>8. text \in Texts /\ Size(text) <= MaxText
  <2>1. CASE fences >= 2
    <3>1. Fenced(T) \in Texts /\ Size(Fenced(T)) <= Size(T)
      BY <1>5, <2>1, FencedIsText
    <3>2. Size(T) \in Nat /\ Size(Fenced(T)) \in Nat
      BY <3>1, TextFacts
    <3> QED
      BY <1>1, <2>1, <3>1, <3>2
  <2>2. CASE ~(fences >= 2)
    BY <1>1, <2>2
  <2> QED
    BY <2>1, <2>2
<1>9. opens = {i \in 1 .. Size(text) : At(text, i) = Open} /\ opens \subseteq Nat
  BY <1>8, <1>2, PositionsOfText
<1>10. got = IF (strict /\ (fences >= 2 \/ 1 \notin opens)) \/ opens = {}
             THEN NoText ELSE Balanced(text, First(opens))
  BY <1>7, <1>1, <1>2, <1>3, Zenon DEF Extract
<1>11. /\ got # NoText => prefixes \cap Objects = {got}
       /\ ~strict /\ prefixes \cap Objects # {} => got # NoText
       /\ fences < 2 /\ T \in Objects => got = T
  <2>1. CASE opens = {}
    <3>1. got = NoText /\ prefixes = {}
      BY <1>10, <1>4, <2>1
    <3>2. fences < 2 => T \notin Objects
      <4> SUFFICES ASSUME fences < 2, T \in Objects PROVE FALSE
        OBVIOUS
      <4>1. text = T
        BY <1>6, <1>1
      <4>2. \E inner \in UNION {Members[n] : n \in 0 .. MaxText-2} : T = <<Open>> \o inner \o <<Close>>
        BY DEF Objects
      <4>3. PICK inner : inner \in UNION {Members[n] : n \in 0 .. MaxText-2} /\ T = <<Open>> \o inner \o <<Close>>
        BY <4>2
      <4>4. PICK n \in 0 .. MaxText-2 : IsMember(inner, n)
        BY <4>3 DEF IsMember
      <4>5. n \in 0 .. MaxText
        OBVIOUS
      <4>6. inner \in Texts /\ Size(inner) = n
        BY <4>4, <4>5, GrammarIsOfTexts
      <4>7. T = Joined(Joined(One(Open), inner), One(Close))
        BY <4>3, Zenon DEF Joined, One
      <4>8. Open \in Chars /\ Close \in Chars
        BY CharsAreChars
      <4>9. Size(T) \in Nat /\ Size(T) >= 2
        <5>1. One(Open) \in Texts /\ Size(One(Open)) = 1 /\ One(Close) \in Texts /\ Size(One(Close)) = 1
          BY <4>8, TextFacts
        <5>2. Joined(One(Open), inner) \in Texts /\ Size(Joined(One(Open), inner)) = 1 + n
          BY <4>6, <5>1, TextFacts
        <5>3. Size(T) = 1 + n + 1
          BY <4>7, <5>1, <5>2, TextFacts
        <5> QED
          BY <5>3
      <4>10. T = Part(T, 1, Size(T))
        BY WholeText
      <4>11. PICK j : j = Size(T)
        OBVIOUS
      <4>12. 1 \in 1 .. Size(T) /\ j \in 1 .. Size(T)
        BY <4>9, <4>11
      <4>13. Part(T, 1, j) \in Objects
        BY <4>10, <4>11
      <4>14. At(T, 1) = Open
        BY <4>12, <4>13, ObjectTurns
      <4>15. 1 \in opens
        BY <1>9, <4>1, <4>12, <4>14
      <4> QED
        BY <2>1, <4>15
    <3> QED
      BY <3>1, <3>2
  <2>2. CASE opens # {}
    <3>1. PICK s : s = First(opens)
      OBVIOUS
    <3>2. s \in opens /\ \A i \in opens : s <= i
      BY <1>9, <2>2, <3>1, FirstIsLeast
    <3>3. s \in 1 .. Size(text) /\ At(text, s) = Open
      BY <1>9, <3>2
    <3>4. prefixes = {Part(text, s, j) : j \in s .. Size(text)}
      BY <1>4, <2>2, <3>1, Zenon DEF Part, Size
    <3>5. /\ Balanced(text, s) # NoText =>
               \E j \in s .. Size(text) : Balanced(text, s) = Part(text, s, j) /\ Part(text, s, j) \in Objects
          /\ \A j \in s .. Size(text) : Part(text, s, j) \in Objects =>
               Balanced(text, s) = Part(text, s, j) /\ Balanced(text, s) # NoText
      BY <1>8, <3>3, BalancedIsRight
    <3>6. ASSUME got # NoText PROVE prefixes \cap Objects = {got}
      <4>1. got = Balanced(text, s) /\ Balanced(text, s) # NoText
        BY <1>10, <2>2, <3>1, <3>6
      <4>2. got \in prefixes /\ got \in Objects
        BY <3>4, <3>5, <4>1
      <4>3. \A w \in prefixes : w \in Objects => w = got
        BY <3>4, <3>5, <4>1
      <4> QED
        BY <4>2, <4>3
    <3>7. ASSUME ~strict, prefixes \cap Objects # {} PROVE got # NoText
      <4>1. got = Balanced(text, s)
        BY <1>10, <2>2, <3>1, <3>7
      <4>2. \E j \in s .. Size(text) : Part(text, s, j) \in Objects
        BY <3>4, <3>7
      <4> QED
        BY <3>5, <4>1, <4>2
    <3>8. ASSUME fences < 2, T \in Objects PROVE got = T
      <4>1. text = T /\ ~(fences >= 2)
        BY <1>6, <1>1, <3>8
      <4>2. T = Part(T, 1, Size(T))
        BY WholeText
      <4>3. PICK j : j = Size(T)
        OBVIOUS
      <4>4. Size(T) \in Nat
        BY TextFacts
      <4>5. 1 \in 1 .. Size(T) /\ j \in 1 .. Size(T)
        BY <3>3, <4>1, <4>3, <4>4
      <4>6. Part(T, 1, j) \in Objects
        BY <3>8, <4>2, <4>3
      <4>7. At(T, 1) = Open
        BY <4>5, <4>6, ObjectTurns
      <4>8. 1 \in opens
        BY <1>9, <4>1, <4>5, <4>7
      <4>9. s = 1
        BY <3>2, <3>3, <4>4, <4>8
      <4>10. got = Balanced(text, 1)
        BY <1>10, <2>2, <3>1, <4>1, <4>8, <4>9
      <4> QED
        BY <3>5, <4>1, <4>2, <4>3, <4>5, <4>6, <4>9, <4>10
    <3> QED
      BY <3>6, <3>7, <3>8
  <2> QED
    BY <2>1, <2>2
<1> QED
  BY <1>11 DEF fences, text, opens, got, prefixes

-----------------------------------------------------------------------------
(* What holds in every reachable state.                                    *)

\* The process begins with a job in the queue.
LEMMA RoutingInit ==
  ASSUME Init
  PROVE  RoutingInv
<1>1. JobTypes
  BY EmptySeq DEF Init, JobTypes, NoPlan
<1>2. WorkerTypes
  BY BlankTypes, RoutingAssumption DEF Init, WorkerTypes
<1>3. CacheTypes
  BY BlankTypes, RefreshersBegin DEF Init, CacheTypes
<1>4. TodoistTypes /\ BoundTypes
  <2>1. made = {} /\ gone = FALSE /\ edits = 0 /\ faults = 0 /\ crashes = 0
    BY Zenon DEF Init
  <2>2. MaxEdits \in Nat /\ MaxFaults \in Nat /\ MaxCrashes \in Nat
    BY RoutingAssumption
  <2>3. TodoistTypes
    BY <2>1 DEF TodoistTypes
  <2>4. BoundTypes
    BY <2>1, <2>2 DEF BoundTypes
  <2> QED
    BY <2>3, <2>4
<1>5. AsksOnce /\ AtTask /\ WithParent
  BY DEF Init, AsksOnce, AtTask, WithParent
<1>6. made = {} /\ Len(record) = 0
  BY DEF Init
<1>7. MadeByRoute /\ RecordByRoute
  BY <1>6 DEF MadeByRoute, RecordByRoute
<1> QED
  BY <1>1, <1>2, <1>3, <1>4, <1>5, <1>7, TypeParts DEF RoutingInv

\* The conjuncts of the invariant keep one another.
LEMMA RoutingInvariant == Spec => []RoutingInv
<1>1. Init => RoutingInv
  BY RoutingInit
<1>2. RoutingInv /\ [Next]_vars => RoutingInv'
  <2> SUFFICES ASSUME RoutingInv, [Next]_vars PROVE RoutingInv'
    OBVIOUS
  <2>1. TypeOK'
    BY TypePreserves DEF RoutingInv
  <2>2. AsksOnce' /\ AtTask' /\ WithParent' /\ MadeByRoute' /\ RecordByRoute'
    BY <2>1, RoutePreserves
  <2> QED
    BY <2>1, <2>2 DEF RoutingInv
<1> QED
  BY <1>1, <1>2, PTL DEF Spec

\* The variables keep their types, whatever the user does to the account.
THEOREM RoutingTypes == Spec => []TypeOK
<1>1. RoutingInv => TypeOK
  BY DEF RoutingInv
<1> QED
  BY <1>1, RoutingInvariant, PTL

\* The project the Hub records for a task is the one it has in Todoist, its
\* subtasks are with it, and a task nobody is sure of is in the Inbox and says
\* so, across failures, restarts, edits and refreshes (process_job).
THEOREM RecordsAreTrue == Spec => []RecordIsTrue
<1>1. RoutingInv => RecordIsTrue
  <2> SUFFICES ASSUME RoutingInv PROVE RecordIsTrue
    OBVIOUS
  <2>0. TypeOK /\ MadeByRoute /\ RecordByRoute /\ plan.review \in BOOLEAN
        /\ DOMAIN record = 1..Len(record) /\ Len(record) \in Nat
    BY PlanIsOne DEF RoutingInv
  <2>1. ASSUME NEW i \in DOMAIN record
        PROVE  /\ ~record[i].hit => \E t \in made : t.item = <<i, 0>> /\ t.project = record[i].project
               /\ \A t \in made : t.item[1] = i /\ t.seen = record[i].seen => t.project = record[i].project
    BY <2>0 DEF MadeByRoute, RecordByRoute
  <2>2. ASSUME NEW t \in made, t.item[2] = 0
        PROVE  /\ Always \in t.labels
               /\ t.project = None => Review \in t.labels
               /\ plan.review => t.project = None
    <3>1. t.seen \in SUBSET Projects
      BY <2>0 DEF TypeOK
    <3>2. plan.review => RouteTask(plan.tasks[t.item[1]], plan.review, t.seen) = None
      BY <2>0, <3>1, RouteIsKnown
    <3> QED
      BY <2>0, <2>2, <3>2 DEF MadeByRoute
  <2> QED
    BY <2>1, <2>2 DEF RecordIsTrue
<1> QED
  BY <1>1, RoutingInvariant, PTL

\* Of every answer of the LLM, in either mode: what the Hub takes for the object
\* begins at the first brace, is an object and the only one that begins there; it
\* takes one if there is one, and an answer that is an object whole
\* (extract_json_object).
THEOREM ExtractionsAreRight == Spec => []ExtractionIsRight
<1>1. TypeOK => ExtractionIsRight
  <2> SUFFICES ASSUME TypeOK, NEW strict \in BOOLEAN
               PROVE  LET got == Extract(raw, strict)
                          fences == Cardinality(Positions(raw, Fence))
                          text == IF fences >= 2 THEN Fenced(raw) ELSE raw
                          opens == Positions(text, Open)
                          prefixes == IF opens = {} THEN {}
                                      ELSE {SubSeq(text, First(opens), j) : j \in First(opens) .. Len(text)}
                      IN  /\ got # NoText => prefixes \cap Objects = {got}
                          /\ ~strict /\ prefixes \cap Objects # {} => got # NoText
                          /\ fences < 2 /\ raw \in Objects => got = raw
    BY Zenon DEF ExtractionIsRight
  <2>1. raw \in Texts /\ Size(raw) <= MaxText
    <3>1. CASE raw \in Raws
      BY <3>1, RoutingAssumption DEF Texts, Size
    <3>2. CASE raw = NoText
      BY <3>2, TextFacts, StructuringAssumption DEF NoText
    <3> QED
      BY <3>1, <3>2 DEF TypeOK
  <2> QED
    BY <2>1, ExtractIsRight, Zenon
<1> QED
  BY <1>1, RoutingTypes, PTL
=============================================================================
