----------------------------- MODULE HubRouting ------------------------------
(***************************************************************************)
(* Where the Hub puts a task (app/services/confidence.py, llm/cloud.py,    *)
(* worker/pipeline.py) while the user changes projects and labels in       *)
(* Todoist and two coroutines refresh the cache of them                    *)
(* (todoist_cache.py, main.py, api/admin.py).                              *)
(*                                                                         *)
(* One job with a transcript; HubPipeline has many, and answers of Todoist *)
(* that are lost.  Key gives the normal form of a name, Ratio that of      *)
(* difflib; a job's result names a project by its id.                      *)
(* Todoist refuses a project or a parent it does not have, and a deleted   *)
(* project takes its tasks along.                                          *)
(***************************************************************************)
EXTENDS Structuring, FiniteSets

CONSTANTS
  Accounts,     \* what the user's Todoist may hold: [projects, labels]
  Plans,        \* what the LLM may say: [review, tasks]
  Raws,         \* and how
  Strict,       \* llm.json_strict
  Retries,      \* llm.max_retries
  Key,          \* the normal form of each name
  Ratio,        \* the likeness of two normal forms, in percent
  Threshold,    \* confidence_threshold, in percent
  None, Always, Review,     \* no project; the two labels of the configuration
  MaxEdits, MaxFaults, MaxCrashes

ASSUME RoutingAssumption ==
  /\ {Retries, Threshold, MaxEdits, MaxFaults, MaxCrashes} \subseteq Nat
  /\ Strict \in BOOLEAN
  /\ \A r \in Raws : r \in Seq(Chars) /\ Len(r) <= MaxText
  /\ \A p \in Plans :
       /\ p.review \in BOOLEAN
       /\ p.tasks \in Seq({p.tasks[i] : i \in DOMAIN p.tasks})
       /\ \A i \in DOMAIN p.tasks : p.tasks[i].subtasks \in Nat

VARIABLES
  account,      \* the projects and labels in Todoist
  cache,        \* todoist_cache
  refresh,      \* the refreshers: where each is and what it has fetched
  status, plan, record,     \* of the job: its row
  keys,         \* todoist_task_keys
  pc,           \* where the worker is
  attempt, raw, \* the correction loop of the LLM
  lists,        \* the projects and labels this turn of the job works with
  item,         \* the task or subtask it is at
  route,        \* where the task goes, and what subtasks are told of it
  made,         \* the tasks in Todoist
  gone,         \* a task's project has been deleted
  edits, faults, crashes

job == <<status, plan, record, keys>>
worker == <<pc, attempt, raw, lists, item, route>>
todoist == <<made, gone>>
bounds == <<edits, faults, crashes>>
vars == <<account, cache, refresh, job, worker, todoist, bounds>>

Refreshers == {"loop", "admin"}
NoPlan == [review |-> FALSE, tasks |-> <<>>]
NoLists == [projects |-> {}, labels |-> {}]
NoRoute == [project |-> None, hit |-> FALSE, parent |-> None]
NoItem == <<0, 0>>
AtRest == [at |-> "rest", projects |-> {}, labels |-> {}]

Init ==
  /\ account \in Accounts
  /\ cache = NoLists
  /\ refresh = [w \in Refreshers |-> IF w = "loop" THEN [AtRest EXCEPT !.at = "projects"] ELSE AtRest]
  /\ status = "queued" /\ plan = NoPlan /\ record = <<>> /\ keys = {}
  /\ pc = "boot" /\ attempt = 0 /\ raw = NoText /\ lists = NoLists
  /\ item = NoItem /\ route = NoRoute
  /\ made = {} /\ gone = FALSE
  /\ edits = 0 /\ faults = 0 /\ crashes = 0

Fault == faults < MaxFaults /\ faults' = faults + 1 /\ UNCHANGED <<edits, crashes>>

-----------------------------------------------------------------------------
(* The user and the cache.                                                 *)

Edit ==
  /\ edits < MaxEdits /\ edits' = edits + 1
  /\ account' \in Accounts \ {account}
  /\ gone' = (gone \/ \E t \in made : t.project # None
                                      /\ \A p \in account'.projects : p.id # t.project)
  /\ UNCHANGED <<cache, refresh, job, worker, made, faults, crashes>>

Moves(w, at) == refresh' = [refresh EXCEPT ![w].at = at]

\* The loop's hour has passed, or the endpoint is called.
StartRefresh(w) ==
  /\ pc # "boot" /\ refresh[w].at = "rest"
  /\ Moves(w, "projects")
  /\ UNCHANGED <<account, cache, job, worker, todoist, bounds>>

FetchProjects(w) ==
  /\ refresh[w].at = "projects"
  /\ refresh' = [refresh EXCEPT ![w].at = "labels", ![w].projects = account.projects]
  /\ UNCHANGED <<account, cache, job, worker, todoist, bounds>>

FetchLabels(w) ==
  /\ refresh[w].at = "labels"
  /\ refresh' = [refresh EXCEPT ![w].at = "storeProjects", ![w].labels = account.labels]
  /\ UNCHANGED <<account, cache, job, worker, todoist, bounds>>

\* A mistake: an exception ends the loop.
FetchFailsForGood(w) ==
  /\ refresh[w].at \in {"projects", "labels"} /\ Fault
  /\ Moves(w, IF w = "loop" /\ pc # "boot" THEN "dead" ELSE "rest")
  /\ UNCHANGED <<account, cache, job, worker, todoist>>

\* Logged, by the lifespan, the loop and the endpoint alike.
FetchFails(w) ==
  /\ refresh[w].at \in {"projects", "labels"} /\ Fault
  /\ refresh' = [refresh EXCEPT ![w] = AtRest]
  /\ UNCHANGED <<account, cache, job, worker, todoist>>

\* replace_todoist_cache, one transaction for each kind.
StoreProjects(w) ==
  /\ refresh[w].at = "storeProjects"
  /\ cache' = [cache EXCEPT !.projects = refresh[w].projects]
  /\ refresh' = [refresh EXCEPT ![w].at = "storeLabels", ![w].projects = {}]
  /\ UNCHANGED <<account, job, worker, todoist, bounds>>

StoreLabels(w) ==
  /\ refresh[w].at = "storeLabels"
  /\ cache' = [cache EXCEPT !.labels = refresh[w].labels]
  /\ refresh' = [refresh EXCEPT ![w] = AtRest]
  /\ UNCHANGED <<account, job, worker, todoist, bounds>>

-----------------------------------------------------------------------------
(* The decision.                                                           *)

\* resolve_project.  The first of equals in the order of the names is some
\* fixed one of them.
Exact(needle, projects) == {p \in projects : Key[p.name] = needle}
Likeness(needle, p) == Ratio[needle][Key[p.name]]
Likest(needle, projects) ==
  {p \in projects : /\ Likeness(needle, p) >= 80
                    /\ \A q \in projects : Likeness(needle, q) <= Likeness(needle, p)}

OneOf(S) == CHOOSE p \in S : TRUE

Nowhere == [project |-> None, quality |-> 0]

\* The quality of the match is in hundredths of a percent.
Resolve(suggestion, projects) ==
  IF suggestion = None THEN Nowhere
  ELSE LET needle == Key[suggestion]
           exact == Exact(needle, projects)
           likest == Likest(needle, projects)
       IN  IF exact # {} THEN [project |-> OneOf(exact).id, quality |-> 10000]
           ELSE IF likest # {}
           THEN [project |-> OneOf(likest).id, quality |-> 85 * Likeness(needle, OneOf(likest))]
           ELSE Nowhere

\* route_task: the project, or None for the Inbox.
RouteTask(task, review, projects) ==
  LET match == Resolve(task.suggestion, projects) IN
  IF match.quality > 0 /\ task.confidence * match.quality >= Threshold * 10000 /\ ~review
  THEN match.project ELSE None

\* merge_labels
MergeLabels(task, project, review, labels) ==
  {l \in labels : \E own \in task.labels : Key[own] = Key[l]} \cup {Always}
  \cup (IF project = None \/ review THEN {Review} ELSE {})

-----------------------------------------------------------------------------
(* The worker.                                                             *)

Goes(to) == pc' = to
Outside == <<account, cache, refresh>>

\* The lifespan has tried its refresh; reset_stuck_jobs and the loop begin.
StartWorker ==
  /\ pc = "boot" /\ refresh["loop"].at = "rest" /\ Goes("claim")
  /\ status' = IF status \in {"structuring", "creating"} THEN "queued" ELSE status
  /\ UNCHANGED <<Outside, plan, record, keys, attempt, raw, lists, item, route, todoist, bounds>>

\* process_job up to the LLM: a plan that is stored is used again.
Claim ==
  /\ pc = "claim" /\ status = "queued"
  /\ IF plan # NoPlan THEN status' = "creating" /\ Goes("lists") /\ UNCHANGED attempt
     ELSE status' = "structuring" /\ Goes("ask") /\ attempt' = 1
  /\ UNCHANGED <<Outside, plan, record, keys, raw, lists, item, route, todoist, bounds>>

\* The except clause of process_job, for a failure in this step.
Fails ==
  /\ Goes("claim")
  /\ status' = IF record # <<>> \/ status = "creating" THEN "queued" ELSE "error"
  /\ attempt' = 0 /\ raw' = NoText /\ lists' = NoLists /\ item' = NoItem /\ route' = NoRoute
  /\ UNCHANGED <<plan, record, keys>>

\* _chat_completion
Ask ==
  /\ pc = "ask"
  /\ \/ /\ raw' \in Raws /\ Goes("parse")
        /\ UNCHANGED <<job, attempt, lists, item, route, bounds>>
     \/ Fault /\ Fails
  /\ UNCHANGED <<Outside, todoist>>

\* parse_structured_json, and the correction loop of structure: what was
\* extracted may or may not follow the schema.
Parse ==
  /\ pc = "parse"
  /\ \/ /\ attempt <= Retries /\ attempt' = attempt + 1 /\ raw' = NoText /\ Goes("ask")
        /\ UNCHANGED <<job, lists, item, route>>
     \/ attempt > Retries /\ Fails
     \/ /\ Extract(raw, Strict) # NoText
        /\ plan' \in Plans /\ raw' = NoText /\ attempt' = 0
        /\ status' = "creating" /\ Goes("lists")
        /\ UNCHANGED <<record, keys, lists, item, route>>
  /\ UNCHANGED <<Outside, todoist, bounds>>

\* The first item that has no record yet, or the end.
NextTask(n) ==
  IF n < Len(plan.tasks) THEN item' = <<n + 1, 0>> /\ Goes("route")
  ELSE item' = NoItem /\ Goes("finish")

ReadProjects ==
  /\ pc = "lists" /\ Goes("labels")
  /\ lists' = [lists EXCEPT !.projects = cache.projects]
  /\ UNCHANGED <<Outside, job, attempt, raw, item, route, todoist, bounds>>

ReadLabels ==
  /\ pc = "labels"
  /\ lists' = [lists EXCEPT !.labels = cache.labels]
  /\ NextTask(Len(record))
  /\ UNCHANGED <<Outside, job, attempt, raw, route, todoist, bounds>>

Task == plan.tasks[item[1]]

\* route_task, and the look-up of the task's key.
Route ==
  /\ pc = "route"
  /\ LET p == RouteTask(Task, plan.review, lists.projects) IN
     route' = [project |-> p, hit |-> item \in keys, parent |-> IF item \in keys THEN p ELSE None]
  /\ Goes(IF item \in keys THEN "next" ELSE "send")
  /\ UNCHANGED <<Outside, job, attempt, raw, lists, item, todoist, bounds>>

Exists(id) == id = None \/ \E p \in account.projects : p.id = id

\* create_task, a task or a subtask; Todoist says where it has put it.
Send ==
  /\ pc = "send"
  /\ LET sub == item[2] > 0
         project == IF sub THEN route.parent ELSE route.project
     IN  \/ /\ Exists(project) /\ ~(sub /\ gone)
            /\ made' = made \cup
                 {[item |-> item, project |-> project, seen |-> lists.projects,
                   labels |-> IF sub THEN {}
                              ELSE MergeLabels(Task, project, plan.review, lists.labels)]}
            /\ route' = IF sub THEN route ELSE [route EXCEPT !.parent = project]
            /\ Goes("putKey")
            /\ UNCHANGED <<job, attempt, raw, lists, item, bounds>>
         \/ ~(Exists(project) /\ ~(sub /\ gone)) /\ Fails /\ UNCHANGED <<made, bounds>>
         \/ Fault /\ Fails /\ UNCHANGED made
  /\ UNCHANGED <<Outside, gone>>

PutKey ==
  /\ pc = "putKey" /\ Goes("next")
  /\ keys' = keys \cup {item}
  /\ UNCHANGED <<Outside, status, plan, record, attempt, raw, lists, item, route, todoist, bounds>>

\* A mistake: what is recorded is taken from the cache as it is by then.
ProceedRerouted ==
  /\ pc = "next"
  /\ IF item[2] < Task.subtasks
     THEN /\ item' = <<item[1], item[2] + 1>>
          /\ Goes(IF item' \in keys THEN "next" ELSE "send")
          /\ UNCHANGED <<record, route>>
     ELSE /\ record' = Append(record,
               [project |-> RouteTask(Task, plan.review, cache.projects),
                hit |-> route.hit, seen |-> lists.projects])
          /\ NextTask(Len(record')) /\ route' = NoRoute
  /\ UNCHANGED <<Outside, status, plan, keys, attempt, raw, lists, todoist, bounds>>

\* The next subtask, or append_created_task and the next task.
Proceed ==
  /\ pc = "next"
  /\ IF item[2] < Task.subtasks
     THEN /\ item' = <<item[1], item[2] + 1>>
          /\ Goes(IF item' \in keys THEN "next" ELSE "send")
          /\ UNCHANGED <<record, route>>
     ELSE /\ record' = Append(record, [project |-> route.project, hit |-> route.hit,
                                       seen |-> lists.projects])
          /\ NextTask(Len(record')) /\ route' = NoRoute
  /\ UNCHANGED <<Outside, status, plan, keys, attempt, raw, lists, todoist, bounds>>

\* set_done
Finish ==
  /\ pc = "finish" /\ Goes("claim")
  /\ status' = "done" /\ lists' = NoLists
  /\ UNCHANGED <<Outside, plan, record, keys, attempt, raw, item, route, todoist, bounds>>

\* The process stops and starts again; what it has committed stays.
Crash ==
  /\ pc # "boot" /\ crashes < MaxCrashes /\ crashes' = crashes + 1
  /\ Goes("boot")
  /\ refresh' = [w \in Refreshers |-> IF w = "loop" THEN [AtRest EXCEPT !.at = "projects"] ELSE AtRest]
  /\ attempt' = 0 /\ raw' = NoText /\ lists' = NoLists /\ item' = NoItem /\ route' = NoRoute
  /\ UNCHANGED <<account, cache, job, todoist, edits, faults>>

-----------------------------------------------------------------------------

Work ==
  \/ StartWorker \/ Claim \/ Ask \/ Parse \/ ReadProjects \/ ReadLabels
  \/ Route \/ Send \/ PutKey \/ Proceed \/ Finish

Refresh(w) ==
  \/ StartRefresh(w) \/ FetchProjects(w) \/ FetchLabels(w) \/ FetchFails(w)
  \/ StoreProjects(w) \/ StoreLabels(w)

Next == Edit \/ Work \/ (\E w \in Refreshers : Refresh(w)) \/ Crash

Spec == Init /\ [][Next]_vars

\* The worker's coroutine and the hourly loop are always scheduled again;
\* nobody need ever call the endpoint.
FairSpec == Spec /\ WF_vars(Work) /\ WF_vars(Refresh("loop"))

-----------------------------------------------------------------------------

Projects == UNION {a.projects : a \in Accounts}
Labels == UNION {a.labels : a \in Accounts}
Ids == {p.id : p \in Projects} \cup {None}
Lists == [projects : SUBSET Projects, labels : SUBSET Labels]
Items == Nat \X Nat

\* Types of the variables.
TypeOK ==
  /\ account \in Accounts /\ cache \in Lists
  /\ refresh \in [Refreshers ->
       [at : {"rest", "projects", "labels", "storeProjects", "storeLabels"},
        projects : SUBSET Projects, labels : SUBSET Labels]]
  /\ status \in {"queued", "structuring", "creating", "done", "error"}
  /\ plan \in Plans \cup {NoPlan} /\ Len(record) <= Len(plan.tasks)
  /\ record \in Seq([project : Ids, hit : BOOLEAN, seen : SUBSET Projects])
  /\ keys \subseteq Items
  /\ pc \in {"boot", "claim", "ask", "parse", "lists", "labels", "route", "send", "putKey",
             "next", "finish"}
  /\ attempt \in 0 .. Retries + 1 /\ raw \in Raws \cup {NoText}
  /\ lists \in Lists /\ item \in Items
  /\ route \in [project : Ids, hit : BOOLEAN, parent : Ids]
  /\ made \subseteq [item : Items, project : Ids, seen : SUBSET Projects,
                    labels : SUBSET (Labels \cup {Always, Review})]
  /\ gone \in BOOLEAN
  /\ edits \in 0 .. MaxEdits /\ faults \in 0 .. MaxFaults /\ crashes \in 0 .. MaxCrashes

\* What the scanner takes for the object is one, and the first: it starts at
\* the first brace, the grammar accepts it and no shorter beginning, and a
\* text that is nothing but an object is taken whole (unless it has two
\* fences, in strings).
ExtractionIsRight ==
  pc = "parse" =>
    \A strict \in BOOLEAN :
      LET got == Extract(raw, strict)
          fences == Cardinality(Positions(raw, Fence))
          text == IF fences >= 2 THEN Fenced(raw) ELSE raw
          opens == Positions(text, Open)
          prefixes == IF opens = {} THEN {}
                      ELSE {SubSeq(text, First(opens), j) : j \in First(opens) .. Len(text)}
      IN  /\ got # NoText => prefixes \cap Objects = {got}
          /\ ~strict /\ prefixes \cap Objects # {} => got # NoText
          /\ fences < 2 /\ raw \in Objects => got = raw

\* Across failures, restarts and refreshes of the cache: the project the Hub
\* records for a task is the one the task has in Todoist, its subtasks are
\* with it, and a task nobody is sure of is in the Inbox and says so.  Only
\* when a job is taken up again with other lists may the record differ.
RecordIsTrue ==
  /\ \A i \in DOMAIN record :
       /\ ~record[i].hit => \E t \in made : t.item = <<i, 0>> /\ t.project = record[i].project
       /\ \A t \in made : t.item[1] = i /\ t.seen = record[i].seen => t.project = record[i].project
  /\ \A t \in made : t.item[2] = 0 =>
       /\ Always \in t.labels
       /\ t.project = None => Review \in t.labels
       /\ plan.review => t.project = None

\* A job ends, though its project may have been deleted since the cache was
\* read: a later refresh lets it be routed again.  A parent that was deleted
\* before its subtasks were made is not made again.
JobEnds == status = "queued" ~> (status \in {"done", "error"} \/ gone)
=============================================================================
