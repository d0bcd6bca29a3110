---------------------------- MODULE ShopifyEvents ----------------------------
(***************************************************************************)
(* Shopify webhooks other than checkouts: POST /webhooks/shopify (apps/api/ *)
(* src/app.ts) queues one job per event, and processShopifyEvent (apps/     *)
(* worker/src/processors/shopifyEvents.ts) keeps orders_cache, products and *)
(* shopify_stores up to date and runs the merchant's order automations      *)
(* (workflowRuntime.ts), whose messages it queues inside its transaction.   *)
(*                                                                          *)
(* The events of a scenario are about one order, product or shop, and one   *)
(* enabled automation may match.  The row is the event whose status it      *)
(* shows.  Checkouts, carts and attribution are in CartRecovery.            *)
(***************************************************************************)
EXTENDS Integers, FiniteSets

CONSTANTS
  Events,        \* webhook ids
  Rank,          \* [Events -> Nat]: the order in which they happened in the shop
  Scenarios,     \* topics the events may have: functions from Events to Topics
  Slots,         \* concurrent shopify-events job slots
  Sends,         \* send_message actions of the matching automation
  MaxAttempts,   \* BullMQ attempts of a job (5 in queues.ts)
  MaxStalled,    \* BullMQ maxStalledCount (library default 1)
  MaxPosts,      \* bound: [Events -> Nat], deliveries Shopify makes of an event
  MaxFailures,   \* bound: job errors and slot crashes
  NoEvent, NoSlot

(* SHOPIFY_WEBHOOK_TOPICS by what the handler does with them; "other" is an
   unknown topic or a payload that does not parse. *)
Automations == {"orders/create", "orders/fulfilled"}
Upserts == {"orders/create", "products/create", "products/update"}
Updates == {"orders/fulfilled", "fulfillments/update", "orders/updated", "orders/cancelled",
            "products/delete", "app/uninstalled"}
ClaimsOnly == {"customers/data_request", "customers/redact", "shop/redact", "other"}
Topics == Upserts \cup Updates \cup ClaimsOnly

ASSUME ShopifyAssumption ==
  /\ Rank \in [Events -> Nat] /\ \A e, f \in Events : Rank[e] = Rank[f] => e = f
  /\ Scenarios \subseteq [Events -> Topics] /\ IsFiniteSet(Events) /\ IsFiniteSet(Slots)
  /\ Sends \in Nat /\ MaxAttempts \in Nat \ {0} /\ MaxStalled \in Nat
  /\ MaxPosts \in [Events -> Nat] /\ MaxFailures \in Nat
  /\ NoEvent \notin Events /\ NoSlot \notin Slots

VARIABLES
  topic,         \* the scenario
  posts,         \* deliveries of an event answered 200
  job, owner, attempts, stalls,  \* the BullMQ job `shopify:<id>` of each event
  pc, ev,        \* each slot: its step and its event
  found,         \* the statement wrote a row
  matched,       \* an automation matched
  sent,          \* messages the run has queued
  ledger,        \* processed_events
  row,           \* the event whose status the row shows; NoEvent: none yet
  runs,          \* workflow_runs rows of an event
  runCount,      \* workflows.run_count
  queued,        \* messages put on the outbound queue for an event
  exhausted,     \* history: events whose job failed for good
  disordered,    \* history: an event's handling began before that of an older
                 \* one was committed
  failures

apiVars  == <<topic, posts>>
jobVars  == <<job, owner, attempts, stalls>>
slotVars == <<pc, ev, found, matched, sent>>
dbVars   == <<ledger, row, runs, runCount>>
histVars == <<exhausted, disordered>>
vars == <<apiVars, jobVars, slotVars, dbVars, queued, histVars, failures>>

(* Locks of the open transactions.  Variants no action uses, below, are the bugs
   the mutants put in. *)
HoldsClaim(w) == pc[w] \in {"apply", "workflows", "enqueue", "commit"}
HoldsRow(w) == pc[w] \in {"workflows", "enqueue", "commit"} /\ found[w]
HoldsRunCount(w) == pc[w] \in {"enqueue", "commit"} /\ matched[w]

Init ==
  /\ topic \in Scenarios /\ posts = [e \in Events |-> 0]
  /\ job = [e \in Events |-> "none"]
  /\ owner = [e \in Events |-> NoSlot]
  /\ attempts = [e \in Events |-> 0]
  /\ stalls = [e \in Events |-> 0]
  /\ pc = [w \in Slots |-> "idle"]
  /\ ev = [w \in Slots |-> NoEvent]
  /\ found = [w \in Slots |-> FALSE]
  /\ matched = [w \in Slots |-> FALSE]
  /\ sent = [w \in Slots |-> 0]
  /\ ledger = {} /\ row = NoEvent
  /\ runs = [e \in Events |-> 0] /\ runCount = 0
  /\ queued = [e \in Events |-> 0]
  /\ exhausted = {} /\ disordered = FALSE /\ failures = 0

-----------------------------------------------------------------------------
(* POST /webhooks/shopify with a valid HMAC and its headers, for a shop that
   has a row, uninstalled or not: the job is added unless BullMQ still knows its
   id, and Shopify is answered.  It may deliver the event again.  A delivery the
   API refuses or fails on changes nothing. *)
Receive(e) ==
  /\ posts[e] < MaxPosts[e]
  /\ posts' = [posts EXCEPT ![e] = @ + 1]
  /\ job' = [job EXCEPT ![e] = IF @ = "none" THEN "waiting" ELSE @]
  /\ UNCHANGED <<topic, owner, attempts, stalls, slotVars, dbVars, queued, histVars, failures>>

(* removeOnComplete and removeOnFail. *)
Evict(e) ==
  /\ job[e] \in {"completed", "failed"}
  /\ job' = [job EXCEPT ![e] = "none"]
  /\ attempts' = [attempts EXCEPT ![e] = 0]
  /\ stalls' = [stalls EXCEPT ![e] = 0]
  /\ UNCHANGED <<apiVars, owner, slotVars, dbVars, queued, histVars, failures>>

Take(w, e) ==
  /\ pc[w] = "idle" /\ job[e] = "waiting"
  /\ job' = [job EXCEPT ![e] = "active"]
  /\ owner' = [owner EXCEPT ![e] = w]
  /\ pc' = [pc EXCEPT ![w] = "claim"]
  /\ ev' = [ev EXCEPT ![w] = e]
  /\ UNCHANGED <<apiVars, attempts, stalls, found, matched, sent, dbVars, queued, histVars, failures>>

(* INSERT INTO processed_events ... ON CONFLICT DO NOTHING waits for another
   open transaction that inserted the same id. *)
ClaimEvent(w) ==
  /\ pc[w] = "claim"
  /\ \A v \in Slots : HoldsClaim(v) => ev[v] # ev[w]
  /\ pc' = [pc EXCEPT ![w] = IF ev[w] \in ledger THEN "finish" ELSE "apply"]
  /\ disordered' = (disordered \/ \E e \in Events \ ledger : Rank[e] < Rank[ev[w]])
  /\ UNCHANGED <<apiVars, jobVars, ev, found, matched, sent, dbVars, queued, exhausted, failures>>

(* INSERT ... ON CONFLICT DO UPDATE waits for a transaction that holds or
   inserts the row; an UPDATE does not see a row that is not committed and
   then changes nothing. *)
WritesFirstOnly(e) ==
  \/ topic[e] \in Upserts /\ row = NoEvent
  \/ topic[e] \in Updates /\ (row # NoEvent \/ topic[e] = "app/uninstalled")

Writes(e) ==
  \/ topic[e] \in Upserts
  \/ topic[e] \in Updates /\ (row # NoEvent \/ topic[e] = "app/uninstalled")

Apply(w) ==
  LET e == ev[w]
  IN  /\ pc[w] = "apply"
      /\ Writes(e) => \A v \in Slots : ~HoldsRow(v)
      /\ found' = [found EXCEPT ![w] = Writes(e)]
      /\ pc' = [pc EXCEPT ![w] = IF topic[e] \in Automations THEN "workflows" ELSE "commit"]
      /\ UNCHANGED <<apiVars, jobVars, ev, matched, sent, dbVars, queued, histVars, failures>>

(* runOrderWorkflows: with a customer phone, an enabled match and an active
   channel, the run is recorded, which locks the workflow's row. *)
RunOrderWorkflows(w) ==
  /\ pc[w] = "workflows"
  /\ \/ /\ \A v \in Slots : ~HoldsRunCount(v)
        /\ matched' = [matched EXCEPT ![w] = TRUE]
        /\ pc' = [pc EXCEPT ![w] = "enqueue"]
     \/ /\ pc' = [pc EXCEPT ![w] = "commit"]
        /\ UNCHANGED matched
  /\ UNCHANGED <<apiVars, jobVars, ev, found, sent, dbVars, queued, histVars, failures>>

EnqueueSendTwice(w) ==
  /\ pc[w] = "enqueue" /\ sent[w] < Sends
  /\ queued' = [queued EXCEPT ![ev[w]] = @ + 2]
  /\ sent' = [sent EXCEPT ![w] = @ + 1]
  /\ UNCHANGED <<apiVars, jobVars, pc, ev, found, matched, dbVars, histVars, failures>>

EnqueueSend(w) ==
  /\ pc[w] = "enqueue" /\ sent[w] < Sends
  /\ queued' = [queued EXCEPT ![ev[w]] = @ + 1]
  /\ sent' = [sent EXCEPT ![w] = @ + 1]
  /\ UNCHANGED <<apiVars, jobVars, pc, ev, found, matched, dbVars, histVars, failures>>

ReadyWithoutSends(w) == pc[w] \in {"commit", "enqueue"}
Ready(w) == pc[w] = "commit" \/ (pc[w] = "enqueue" /\ sent[w] = Sends)

RunCountAfterLostUpdate(w) == IF matched[w] THEN 1 ELSE runCount
RunCountAfter(w) == IF matched[w] THEN runCount + 1 ELSE runCount

Commit(w) ==
  /\ Ready(w)
  /\ ledger' = ledger \cup {ev[w]}
  /\ row' = IF found[w] THEN ev[w] ELSE row
  /\ runs' = [runs EXCEPT ![ev[w]] = @ + (IF matched[w] THEN 1 ELSE 0)]
  /\ runCount' = RunCountAfter(w)
  /\ pc' = [pc EXCEPT ![w] = "finish"]
  /\ UNCHANGED <<apiVars, jobVars, ev, found, matched, sent, queued, histVars, failures>>

-----------------------------------------------------------------------------
FreeSlot(w) ==
  /\ pc' = [pc EXCEPT ![w] = "idle"]
  /\ ev' = [ev EXCEPT ![w] = NoEvent]
  /\ found' = [found EXCEPT ![w] = FALSE]
  /\ matched' = [matched EXCEPT ![w] = FALSE]
  /\ sent' = [sent EXCEPT ![w] = 0]

Finish(w) ==
  /\ pc[w] = "finish"
  /\ IF owner[ev[w]] = w
       THEN /\ job' = [job EXCEPT ![ev[w]] = "completed"]
            /\ owner' = [owner EXCEPT ![ev[w]] = NoSlot]
       ELSE UNCHANGED <<job, owner>>
  /\ FreeSlot(w)
  /\ UNCHANGED <<apiVars, attempts, stalls, dbVars, queued, histVars, failures>>

RequeueUnknownState(e, forGood) ==
  /\ job' = [job EXCEPT ![e] = IF forGood THEN "exhausted" ELSE "waiting"]
  /\ owner' = [owner EXCEPT ![e] = NoSlot]
  /\ exhausted' = IF forGood THEN exhausted \cup {e} ELSE exhausted

Requeue(e, forGood) ==
  /\ job' = [job EXCEPT ![e] = IF forGood THEN "failed" ELSE "waiting"]
  /\ owner' = [owner EXCEPT ![e] = NoSlot]
  /\ exhausted' = IF forGood THEN exhausted \cup {e} ELSE exhausted

ThrowSwallowed(w) ==
  /\ pc[w] \notin {"idle", "finish"} /\ failures < MaxFailures
  /\ failures' = failures + 1
  /\ IF owner[ev[w]] = w
       THEN /\ job' = [job EXCEPT ![ev[w]] = "completed"]
            /\ owner' = [owner EXCEPT ![ev[w]] = NoSlot]
       ELSE UNCHANGED <<job, owner>>
  /\ FreeSlot(w)
  /\ UNCHANGED <<apiVars, attempts, stalls, dbVars, queued, histVars>>

(* The transaction rolls back, also when its commit fails; what was queued
   stays queued. *)
Throw(w) ==
  /\ pc[w] \notin {"idle", "finish"} /\ failures < MaxFailures
  /\ failures' = failures + 1
  /\ IF owner[ev[w]] = w
       THEN /\ Requeue(ev[w], attempts[ev[w]] + 1 >= MaxAttempts)
            /\ attempts' = [attempts EXCEPT ![ev[w]] = @ + 1]
       ELSE UNCHANGED <<job, owner, attempts, exhausted>>
  /\ FreeSlot(w)
  /\ UNCHANGED <<apiVars, stalls, dbVars, queued, disordered>>

Crash(w) ==
  /\ pc[w] # "idle" /\ failures < MaxFailures
  /\ failures' = failures + 1
  /\ FreeSlot(w)
  /\ UNCHANGED <<apiVars, jobVars, dbVars, queued, histVars>>

Stall(e) ==
  /\ job[e] = "active"
  /\ Requeue(e, stalls[e] >= MaxStalled)
  /\ stalls' = [stalls EXCEPT ![e] = @ + 1]
  /\ UNCHANGED <<apiVars, attempts, slotVars, dbVars, queued, disordered, failures>>

-----------------------------------------------------------------------------
SlotStep(w) ==
  \/ ClaimEvent(w) \/ Apply(w) \/ RunOrderWorkflows(w) \/ EnqueueSend(w) \/ Commit(w) \/ Finish(w)

Next ==
  \/ \E w \in Slots : SlotStep(w) \/ Throw(w) \/ Crash(w) \/ \E e \in Events : Take(w, e)
  \/ \E e \in Events : Receive(e) \/ Evict(e) \/ Stall(e)

Spec == Init /\ [][Next]_vars

Abandoned(e) == \A w \in Slots : owner[e] = w => ev[w] # e

Fairness ==
  /\ \A w \in Slots : WF_vars(SlotStep(w))
  /\ \A e \in Events : WF_vars(\E w \in Slots : Take(w, e))
  /\ \A e \in Events : WF_vars(Abandoned(e) /\ Stall(e))

FairSpec == Spec /\ Fairness

-----------------------------------------------------------------------------
TypeOK ==
  /\ topic \in Scenarios /\ posts \in [Events -> Nat]
  /\ job \in [Events -> {"none", "waiting", "active", "completed", "failed"}]
  /\ owner \in [Events -> Slots \cup {NoSlot}]
  /\ attempts \in [Events -> Nat] /\ stalls \in [Events -> Nat]
  /\ pc \in [Slots -> {"idle", "claim", "apply", "workflows", "enqueue", "commit", "finish"}]
  /\ ev \in [Slots -> Events \cup {NoEvent}]
  /\ found \in [Slots -> BOOLEAN] /\ matched \in [Slots -> BOOLEAN] /\ sent \in [Slots -> Nat]
  /\ ledger \subseteq Events /\ row \in Events \cup {NoEvent}
  /\ runs \in [Events -> Nat] /\ runCount \in Nat /\ queued \in [Events -> Nat]
  /\ exhausted \subseteq Events /\ disordered \in BOOLEAN /\ failures \in Nat

(* An event is in the run log at most once and the counter agrees, and a
   recorded automation run has all its messages on the queue: they are queued
   before the commit that records it (shopifyEvents.ts:96-109), by concurrent
   transactions that retry and run twice (workflowRuntime.ts:75-102). *)
RecordedRunsAreQueued ==
  /\ runCount = Cardinality({e \in Events : runs[e] = 1})
  /\ \A e \in Events : runs[e] <= 1 /\ (runs[e] = 1 => queued[e] >= Sends)

(* What an automation sends for one event is bounded by the starts of its
   jobs: the attempts that threw, the stalls and the last run, once more for
   each delivery after an eviction (queues.ts:19-22, index.ts:42-49). *)
QueuedMessagesAreBounded ==
  \A e \in Events : queued[e] <= Sends * (MaxAttempts + MaxStalled) * posts[e]

(* As long as each event is taken up after the older ones are committed, and the
   oldest one creates the row, the row shows the newest event that was handled:
   redeliveries, retries and double runs never take it back, and no update misses
   it (shopifyEvents.ts:66-72, 119-122, 146-164). *)
OldestCreates ==
  \E e \in Events : /\ topic[e] \in Upserts \cup {"app/uninstalled"}
                    /\ \A f \in Events : Rank[e] <= Rank[f]

RowIsLatestInOrder ==
  ~disordered /\ OldestCreates =>
    \A e \in ledger : topic[e] \notin ClaimsOnly => row # NoEvent /\ Rank[e] <= Rank[row]

(* An event Shopify was told is received is handled or its job runs out of
   attempts: the locks of claims, rows
   and run counters never block each other for ever. *)
EventsEnd == \A e \in Events : posts[e] > 0 ~> e \in ledger \cup exhausted

-----------------------------------------------------------------------------
(* What the repository says and the code does not do. *)

(* README.md:72-73: "idempotency via the processed_events ledger inside the
   same transaction as side effects": an automation sends each of its messages
   once per event. *)
MessagesOncePerEvent == \A e \in Events : queued[e] <= Sends

=============================================================================
