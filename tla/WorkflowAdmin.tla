---------------------------- MODULE WorkflowAdmin ----------------------------
(***************************************************************************)
(* The life of a merchant's workflows: the dashboard's list and its builder *)
(* (apps/dashboard/app/(dashboard)/workflows/page.tsx and workflows/        *)
(* builder/Builder.tsx), the admin API and its store (apps/api/src/         *)
(* admin.ts, adminStore.ts), and the worker that selects a workflow for an  *)
(* event and records its run (apps/worker/src/workflowRuntime.ts).          *)
(*                                                                          *)
(* The browser keeps what it fetched: a list that is shown, a canvas that   *)
(* is edited.  Each API call is one transaction of one statement.  An       *)
(* action is its type and its text (the instructions of an ai_reply), which *)
(* is none (empty or absent), blank (white space only) or words; a trigger  *)
(* is its type.  Names and keywords are left out.  The worker's             *)
(* transactions may throw and its processes die.                            *)
(***************************************************************************)
EXTENDS Integers, Sequences, FiniteSets, SequencesExt

CONSTANTS
  Initial,       \* definitions of the workflows there are at first
  MaxRows,       \* bound: workflows ever created
  MaxActions,    \* actions a definition may have (5 in types.ts)
  Events,        \* events the worker matches against the workflows
  EventType,     \* [Events -> Triggers]
  Workers,       \* concurrent job slots
  MaxAttempts,   \* BullMQ attempts of a job (5 in queues.ts)
  MaxStalled,    \* BullMQ maxStalledCount (library default 1)
  MaxFaults,     \* bound: runs that throw or die
  MaxEdits,      \* bound: edits of the canvas
  None, Null     \* no row, no run, no event; the SQL null

Triggers == {"message_received", "order_created", "order_fulfilled"}
Actions == [type : {"send_message", "ai_reply", "handoff"}, text : {"none", "blank", "words"}]

(* workflowDefinitionSchema: a message has a text, be it blank. *)
Valid(def) ==
  /\ Len(def.actions) \in 1..MaxActions
  /\ \A k \in DOMAIN def.actions :
       def.actions[k].type = "send_message" => def.actions[k].text # "none"

ASSUME WorkflowAssumption ==
  /\ Initial \in Seq([enabled : BOOLEAN, trigger : Triggers, actions : Seq(Actions)])
  /\ \A k \in DOMAIN Initial : Valid(Initial[k])
  /\ MaxRows \in Nat /\ Len(Initial) <= MaxRows
  /\ MaxActions \in Nat \ {0} /\ MaxAttempts \in Nat \ {0} /\ MaxEdits \in Nat
  /\ MaxStalled \in Nat /\ MaxFaults \in Nat
  /\ EventType \in [Events -> Triggers] /\ IsFiniteSet(Events)
  /\ None \notin 1..MaxRows /\ Null \notin 1..MaxRows
  /\ None \notin Triggers /\ None \notin Actions

Ids == 1..MaxRows   \* in the order of created_at

VARIABLES
  def,           \* the workflows table: id -> definition, or None
  created,       \* rows ever inserted
  runCount,      \* workflows.run_count
  run,           \* workflow_runs: event -> id, Null once the workflow is deleted, None
  shown,         \* the rows the list page shows
  canvas,        \* the builder: [id, enabled, trigger, blocks, edges]
  edits,         \* counter for the bound
  job, attempts, \* the job of each event: waiting, active, done, failed
  pc, ev,        \* each slot: its step and its event
  picked,        \* the workflow an event's attempt has selected
  stalls,        \* BullMQ's count of an event's stalled runs
  throws,        \* history: attempts of an event that threw, deletions aside
  faults         \* counter for the bound

tableVars  == <<def, created, runCount, run>>
canvasVars == <<canvas, edits>>
faultVars == <<stalls, throws, faults>>
workerVars == <<job, attempts, pc, ev, picked, faultVars>>
vars == <<tableVars, shown, canvasVars, workerVars>>

Rows == {i \in Ids : def[i] # None}
Deleted == {i \in 1..created : def[i] = None}

-----------------------------------------------------------------------------
(* The canvas: blocks are numbered from 1, the trigger is 0, edges are pairs in
   the order they were drawn. *)

(* Variants no action uses, here and below, are the bugs the mutants put in. *)
WorkflowToGraphOffByOne(id) ==
  [id |-> id, enabled |-> def[id].enabled, trigger |-> def[id].trigger,
   blocks |-> def[id].actions,
   edges |-> [k \in 1..(Len(def[id].actions) - 1) |-> <<k - 1, k>>]]

(* workflowToGraph: a chain. *)
WorkflowToGraph(id) ==
  [id |-> id, enabled |-> def[id].enabled, trigger |-> def[id].trigger,
   blocks |-> def[id].actions,
   edges |-> [k \in DOMAIN def[id].actions |-> <<k - 1, k>>]]

NewCanvas ==
  [id |-> 0, enabled |-> TRUE, trigger |-> "message_received", blocks |-> <<>>, edges |-> <<>>]

(* The elements of s that are in S, in their order. *)
Keep(s, S) ==
  LET kept[n \in 0..Len(s)] ==
        IF n = 0 THEN <<>>
        ELSE IF s[n] \in S THEN Append(kept[n - 1], s[n]) ELSE kept[n - 1]
  IN  kept[Len(s)]

(* One step of graphToPayload's walk: along the first edge of the last block,
   unless there is none or it leads back. *)
Extend(edges, path) ==
  LET out == {k \in DOMAIN edges : edges[k][1] = Last(path)}
      next == edges[CHOOSE k \in out : \A m \in out : k <= m][2]
  IN  IF out = {} \/ next \in ToSet(path) THEN path ELSE Append(path, next)

(* The blocks of the walk from the trigger: no block twice, so it has ended after
   as many steps as there are blocks. *)
Walk(c) ==
  LET walked[n \in 0..Len(c.blocks)] == IF n = 0 THEN <<0>> ELSE Extend(c.edges, walked[n - 1])
  IN  Tail(walked[Len(c.blocks)])

(* A blank text counts as none, and a send_message block without one is
   dropped. *)
Trimmed(a) == IF a.text = "words" THEN a ELSE [a EXCEPT !.text = "none"]

PayloadActions(c) ==
  LET path == Walk(c)
      actions == [k \in DOMAIN path |-> Trimmed(c.blocks[path[k]])]
  IN  Keep(actions, {a \in Actions : a.type = "send_message" => a.text # "none"})

(* graphToPayload; None without a trigger or an action. *)
GraphToPayload(c) ==
  IF c.trigger = None \/ PayloadActions(c) = <<>> THEN None
  ELSE [enabled |-> c.enabled, trigger |-> c.trigger, actions |-> PayloadActions(c)]

Init ==
  /\ def = [i \in Ids |-> IF i <= Len(Initial) THEN Initial[i] ELSE None]
  /\ created = Len(Initial)
  /\ runCount = [i \in Ids |-> 0]
  /\ run = [e \in Events |-> None]
  /\ shown = [i \in Ids |-> None]
  /\ canvas = NewCanvas /\ edits = 0
  /\ job = [e \in Events |-> "waiting"]
  /\ attempts = [e \in Events |-> 0]
  /\ pc = [w \in Workers |-> "idle"]
  /\ ev = [w \in Workers |-> None]
  /\ picked = [e \in Events |-> None]
  /\ stalls = [e \in Events |-> 0] /\ throws = [e \in Events |-> 0] /\ faults = 0

-----------------------------------------------------------------------------
(* The store.  UPDATE and DELETE wait for a worker's transaction that has
   bumped the row's run_count. *)

RowLocked(i) == \E w \in Workers : pc[w] = "commit" /\ picked[ev[w]] = i

CreateWorkflow(d) ==
  /\ created < MaxRows
  /\ created' = created + 1
  /\ def' = [def EXCEPT ![created + 1] = d]
  /\ UNCHANGED <<runCount, run>>

UpdateWorkflowOrCreate(i, d) ==
  /\ ~RowLocked(i)
  /\ def' = [def EXCEPT ![i] = d]
  /\ UNCHANGED <<created, runCount, run>>

UpdateWorkflowFromScratch(i, d) ==
  /\ ~RowLocked(i)
  /\ def' = [def EXCEPT ![i] = IF @ = None THEN None ELSE d]
  /\ runCount' = [runCount EXCEPT ![i] = 0]
  /\ UNCHANGED <<created, run>>

(* PUT: an UPDATE of the definition; a row that is gone stays gone (404). *)
UpdateWorkflow(i, d) ==
  /\ ~RowLocked(i)
  /\ def' = [def EXCEPT ![i] = IF @ = None THEN None ELSE d]
  /\ UNCHANGED <<created, runCount, run>>

(* DELETE; its runs stay in the log, their reference set to null. *)
DeleteWorkflow(i) ==
  /\ ~RowLocked(i)
  /\ def' = [def EXCEPT ![i] = None]
  /\ runCount' = [runCount EXCEPT ![i] = 0]
  /\ run' = [e \in Events |-> IF run[e] = i THEN Null ELSE run[e]]
  /\ UNCHANGED created

-----------------------------------------------------------------------------
(* The list page. *)

(* load(): when the page opens and after each toggle or deletion.  It is a
   request of its own, that may be late or fail and leave what is shown. *)
Load ==
  /\ shown' = def
  /\ UNCHANGED <<tableVars, canvasVars, workerVars>>

(* handleToggle: PUT of the whole workflow as it is shown. *)
HandleToggle(i) ==
  /\ shown[i] # None
  /\ UpdateWorkflow(i, [shown[i] EXCEPT !.enabled = ~@])
  /\ UNCHANGED <<shown, canvasVars, workerVars>>

HandleDelete(i) ==
  /\ shown[i] # None
  /\ DeleteWorkflow(i)
  /\ UNCHANGED <<shown, canvasVars, workerVars>>

-----------------------------------------------------------------------------
(* The builder. *)

OpenBuilder(i) ==
  /\ shown[i] # None
  /\ canvas' = IF def[i] # None THEN WorkflowToGraph(i)
               ELSE [NewCanvas EXCEPT !.id = i, !.trigger = None]
  /\ UNCHANGED <<tableVars, shown, edits, workerVars>>

OpenNew ==
  /\ canvas' = NewCanvas
  /\ UNCHANGED <<tableVars, shown, edits, workerVars>>

Edit(c) ==
  /\ edits < MaxEdits
  /\ edits' = edits + 1
  /\ canvas' = c
  /\ UNCHANGED <<tableVars, shown, workerVars>>

(* None marks a block that was deleted: the ids of the others do not change. *)
Blocks == {b \in DOMAIN canvas.blocks : canvas.blocks[b] # None}
Sources == Blocks \cup (IF canvas.trigger = None THEN {} ELSE {0})

AddBlock(type) == Edit([canvas EXCEPT !.blocks = Append(@, [type |-> type, text |-> "none"])])
SetText(b, text) ==
  canvas.blocks[b].text # text /\ Edit([canvas EXCEPT !.blocks[b].text = text])
SetTrigger(type) ==
  canvas.trigger # None /\ Edit([canvas EXCEPT !.trigger = type])
ToggleEnabled == Edit([canvas EXCEPT !.enabled = ~@])

EdgesKept(n) == canvas.edges
EdgesWithout(n) ==
  Keep(canvas.edges, {e \in ToSet(canvas.edges) : e[1] # n /\ e[2] # n})

(* deleteNode, or the Delete key, which also deletes the trigger. *)
DeleteBlock(b) == Edit([canvas EXCEPT !.blocks[b] = None, !.edges = EdgesWithout(b)])
DeleteTrigger ==
  canvas.trigger # None /\ Edit([canvas EXCEPT !.trigger = None, !.edges = EdgesWithout(0)])

(* addEdge ignores an edge that is there. *)
OnConnect(a, b) ==
  <<a, b>> \notin ToSet(canvas.edges) /\ Edit([canvas EXCEPT !.edges = Append(@, <<a, b>>)])
DeleteEdge(k) == Edit([canvas EXCEPT !.edges = RemoveAt(@, k)])

Accept(d) == Valid(d)

(* save: POST or PUT of the payload; the API refuses one that is not valid,
   and the builder stays open when a call fails. *)
Save ==
  LET d == GraphToPayload(canvas)
  IN  /\ d # None /\ Accept(d)
      /\ IF canvas.id = 0 THEN CreateWorkflow(d) ELSE UpdateWorkflow(canvas.id, d)
      /\ IF canvas.id # 0 /\ def[canvas.id] = None
           THEN UNCHANGED canvas
           ELSE canvas' = NewCanvas
      /\ UNCHANGED <<shown, edits, workerVars>>

-----------------------------------------------------------------------------
(* The worker. *)

Take(w, e) ==
  /\ pc[w] = "idle" /\ job[e] = "waiting"
  /\ job' = [job EXCEPT ![e] = "active"]
  /\ pc' = [pc EXCEPT ![w] = "load"]
  /\ ev' = [ev EXCEPT ![w] = e]
  /\ UNCHANGED <<tableVars, shown, canvasVars, attempts, picked, faultVars>>

(* loadEnabledWorkflows and selectWorkflow: the first enabled match. *)
Matching(e) ==
  {i \in Rows : def[i].enabled /\ def[i].trigger = EventType[e] /\ Valid(def[i])}

SelectWorkflow(e) ==
  IF Matching(e) = {} THEN {None} ELSE {i \in Matching(e) : \A j \in Matching(e) : i <= j}

LoadWorkflows(w) ==
  /\ pc[w] = "load"
  /\ \E i \in SelectWorkflow(ev[w]) : picked' = [picked EXCEPT ![ev[w]] = i]
  /\ pc' = [pc EXCEPT ![w] = "record"]
  /\ UNCHANGED <<tableVars, shown, canvasVars, job, attempts, ev, faultVars>>

FreeSlot(w) ==
  /\ pc' = [pc EXCEPT ![w] = "idle"]
  /\ ev' = [ev EXCEPT ![w] = None]
  /\ picked' = [picked EXCEPT ![ev[w]] = None]

(* recordWorkflowRun bumps and locks the row.  When the row has been deleted
   meanwhile the INSERT violates its foreign key and the attempt fails. *)
RecordWorkflowRun(w) ==
  LET i == picked[ev[w]]
  IN  /\ pc[w] = "record"
      /\ i # None => def[i] # None /\ ~RowLocked(i)
      /\ pc' = [pc EXCEPT ![w] = "commit"]
      /\ UNCHANGED <<tableVars, shown, canvasVars, job, attempts, ev, picked, faultVars>>

(* The attempt's transaction is rolled back, and the job waits for the next
   attempt or has used them up. *)
FailAttempt(w) ==
  LET e == ev[w]
  IN  /\ attempts' = [attempts EXCEPT ![e] = @ + 1]
      /\ job' = [job EXCEPT ![e] = IF attempts[e] + 1 < MaxAttempts THEN "waiting" ELSE "failed"]
      /\ FreeSlot(w)

RecordDeletedAgain(w) ==
  LET e == ev[w]
  IN  /\ pc[w] = "record" /\ picked[e] \in Deleted
      /\ attempts' = [attempts EXCEPT ![e] = @ + 1]
      /\ IF attempts[e] + 1 < MaxAttempts THEN UNCHANGED <<job, pc, ev, picked>>
         ELSE job' = [job EXCEPT ![e] = "failed"] /\ FreeSlot(w)
      /\ UNCHANGED <<tableVars, shown, canvasVars, faultVars>>

RecordDeleted(w) ==
  /\ pc[w] = "record" /\ picked[ev[w]] \in Deleted
  /\ FailAttempt(w)
  /\ UNCHANGED <<tableVars, shown, canvasVars, faultVars>>

(* A failing query, an error of the agent's run or of the INSERT of its usage,
   or a commit that fails. *)
Throw(w) ==
  /\ pc[w] # "idle" /\ faults < MaxFaults
  /\ FailAttempt(w)
  /\ throws' = [throws EXCEPT ![ev[w]] = @ + 1]
  /\ faults' = faults + 1
  /\ UNCHANGED <<tableVars, shown, canvasVars, stalls>>

(* External: the process dies, which rolls its transaction back, and the queue
   finds the job stalled.  (That a stalled job may run again beside its first
   run is the subject of InboundPipeline and ShopifyEvents: the claim lets one
   of the two through.) *)
Die(w) ==
  LET e == ev[w]
  IN  /\ pc[w] # "idle" /\ faults < MaxFaults
      /\ stalls' = [stalls EXCEPT ![e] = @ + 1]
      /\ job' = [job EXCEPT ![e] = IF stalls[e] < MaxStalled THEN "waiting" ELSE "failed"]
      /\ FreeSlot(w)
      /\ faults' = faults + 1
      /\ UNCHANGED <<tableVars, shown, canvasVars, attempts, throws>>

CommitRun(w) ==
  LET e == ev[w]
  IN  /\ pc[w] = "commit"
      /\ run' = [run EXCEPT ![e] = picked[e]]
      /\ runCount' = [i \in Ids |-> runCount[i] + (IF i = picked[e] THEN 1 ELSE 0)]
      /\ job' = [job EXCEPT ![e] = "done"]
      /\ FreeSlot(w)
      /\ UNCHANGED <<def, created, shown, canvasVars, attempts, faultVars>>

-----------------------------------------------------------------------------
Dashboard ==
  \/ Load \/ OpenNew \/ Save
  \/ \E i \in Ids : HandleToggle(i) \/ HandleDelete(i) \/ OpenBuilder(i)
  \/ \E type \in {"send_message", "ai_reply", "handoff"} : AddBlock(type)
  \/ \E type \in Triggers : SetTrigger(type)
  \/ ToggleEnabled \/ DeleteTrigger
  \/ \E b \in Blocks : DeleteBlock(b) \/ \E text \in {"none", "blank", "words"} : SetText(b, text)
  \/ \E a \in Sources, b \in Blocks : OnConnect(a, b)
  \/ \E k \in DOMAIN canvas.edges : DeleteEdge(k)

Worker ==
  \E w \in Workers :
    \/ \E e \in Events : Take(w, e)
    \/ LoadWorkflows(w) \/ RecordWorkflowRun(w) \/ RecordDeleted(w) \/ CommitRun(w)
    \/ Throw(w) \/ Die(w)

Next == Dashboard \/ Worker

Spec == Init /\ [][Next]_vars

-----------------------------------------------------------------------------
TypeOK ==
  LET definitions == [enabled : BOOLEAN, trigger : Triggers, actions : Seq(Actions)]
  IN  /\ created \in 0..MaxRows
      /\ \A i \in Ids : /\ def[i] # None => i <= created /\ def[i] \in definitions
                        /\ shown[i] # None => i <= created /\ shown[i] \in definitions
      /\ runCount \in [Ids -> Nat] /\ run \in [Events -> Ids \cup {None, Null}]
      /\ edits \in 0..MaxEdits
      /\ canvas.id \in 0..MaxRows /\ canvas.trigger \in Triggers \cup {None}
      /\ \A b \in Blocks : canvas.blocks[b] \in Actions
      /\ \A k \in DOMAIN canvas.edges :
           canvas.edges[k][1] \in Sources /\ canvas.edges[k][2] \in Blocks
      /\ job \in [Events -> {"waiting", "active", "done", "failed"}]
      /\ attempts \in [Events -> 0..MaxAttempts]
      /\ pc \in [Workers -> {"idle", "load", "record", "commit"}]
      /\ ev \in [Workers -> Events \cup {None}]
      /\ picked \in [Events -> Ids \cup {None}]
      /\ stalls \in [Events -> Nat] /\ throws \in [Events -> Nat] /\ faults \in 0..MaxFaults

(* Opening a stored workflow in the builder and saving it untouched keeps its
   switch, its trigger and its actions, also when it was saved from a canvas
   with loose blocks, forks or cycles: the canvas of workflowToGraph walks back
   to the same actions (Builder.tsx:115-204).  The one exception is a blank
   text: the schema stores it (types.ts:25) and the builder drops it
   (Builder.tsx:195-197), with the whole action when that is a message. *)
BuilderKeepsWorkflows ==
  \A i \in Rows :
    GraphToPayload(WorkflowToGraph(i)) = def[i]
      <=> \A k \in DOMAIN def[i].actions : def[i].actions[k].text # "blank"

(* The counter of a workflow equals its entries in the run log, although the
   dashboard replaces its definition, and deletes it, while the worker counts
   (adminStore.ts:67-88, workflowRuntime.ts:89-101). *)
RunCountMatchesLog ==
  \A i \in Rows : runCount[i] = Cardinality({e \in Events : run[e] = i})

(* A deleted workflow never comes back, whatever list, toggle or canvas was
   loaded before it was deleted (adminStore.ts:69-79, page.tsx:535-558). *)
DeletedStaysDeleted ==
  [][\A i \in Deleted : def'[i] = None]_vars

(* An event whose workflow is deleted between the SELECT and the run's INSERT
   is retried with a fresh selection (workflowRuntime.ts:5-8, 89-101): each
   attempt that a deletion costs is paid by a deletion of its own.  An event is
   lost only when its attempts have all gone to errors and to different
   deletions, or its runs have died once too often (queues.ts:18-20). *)
LostAttemptsArePaid ==
  \A e \in Events : job[e] = "failed" =>
    \/ throws[e] + Cardinality(Deleted) >= MaxAttempts
    \/ stalls[e] > MaxStalled
=============================================================================
