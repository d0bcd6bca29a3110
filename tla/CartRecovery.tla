---------------------------- MODULE CartRecovery ----------------------------
(***************************************************************************)
(* Abandoned-cart recovery: checkout and order webhooks handled by          *)
(* processShopifyEvent (apps/worker/src/processors/shopifyEvents.ts), the   *)
(* delayed job handled by processCartRecovery (processors/cartRecovery.ts)  *)
(* and the pure decisions of packages/commerce/src/cartRecovery.ts.         *)
(*                                                                          *)
(* Shopify events may arrive in any order and are retried until their       *)
(* transaction commits (what the ledger does with duplicates is the subject *)
(* of InboundPipeline).  Transactions read without a lock and lock the      *)
(* cart's row from their first write to their end.                          *)
(***************************************************************************)
EXTENDS Integers, FiniteSets

CONSTANTS
  Carts,        \* checkout tokens
  Events,       \* Shopify webhook ids
  EventOf,      \* what each event says
  Slots,        \* concurrent shopify-events job slots
  Runners,      \* concurrent cart-recovery job slots
  MaxStalled,   \* BullMQ maxStalledCount (library default 1)
  MaxFailures,  \* bound: transactions and runs that throw or crash
  NoEvent, NoCart, NoRunner

CheckoutEvents == [kind : {"checkout"}, cart : Carts, completed : BOOLEAN, contactable : BOOLEAN]
OrderEvents == [kind : {"order"}, cart : Carts]

ASSUME CartAssumption ==
  /\ EventOf \in [Events -> CheckoutEvents \cup OrderEvents]
  /\ IsFiniteSet(Runners) /\ MaxStalled \in Nat /\ MaxFailures \in Nat
  /\ NoEvent \notin Events /\ NoCart \notin Carts /\ NoRunner \notin Runners

VARIABLES
  cartStatus,     \* carts.status; "absent" when there is no row
  recoveryState,  \* carts.recovery_state
  recoveredBy,    \* carts.recovered_order_id, set together with recovered_value
  optIn,          \* carts whose contact_id leads to an opted-in contact
  ledger,         \* processed_events
  ordered,        \* history: carts that an order found and completed
  pc, ev, seen,   \* event slots: step, event, recovery_state read
  job, owner, stalls,  \* the BullMQ job `recover:<tenant>:<token>` of each cart
  orphaned,       \* carts whose job names a row that was rolled back
  notDueBefore,   \* slots whose transactions end before the job's delay is over
  rpc, cart,      \* recovery slots: step and cart
  messages,       \* recovery templates put on the outbound queue
  failures,       \* counter for the bound
  \* history
  sentCommits,    \* commits that set recovery_state to "sent"
  overlapped,     \* carts whose stalled job ran again beside the first run
  overwritten,    \* carts whose "sent" or "recovered" an event overwrote
  afterOrder      \* recovery slots whose run began after an order completed the cart

dbVars   == <<cartStatus, recoveryState, recoveredBy, optIn, ledger, ordered>>
slotVars == <<pc, ev, seen>>
jobVars  == <<job, owner, stalls, orphaned, notDueBefore>>
runVars  == <<rpc, cart>>
runHist  == <<sentCommits, overlapped, afterOrder>>
vars == <<dbVars, slotVars, jobVars, runVars, messages, failures, overwritten, runHist>>

Init ==
  /\ cartStatus = [t \in Carts |-> "absent"]
  /\ recoveryState = [t \in Carts |-> "none"]
  /\ recoveredBy = [t \in Carts |-> NoEvent]
  /\ optIn = {}
  /\ ledger = {} /\ ordered = {}
  /\ pc = [w \in Slots |-> "idle"]
  /\ ev = [w \in Slots |-> NoEvent]
  /\ seen = [w \in Slots |-> "none"]
  /\ job = [t \in Carts |-> "none"]
  /\ owner = [t \in Carts |-> NoRunner]
  /\ stalls = [t \in Carts |-> 0]
  /\ notDueBefore = [t \in Carts |-> {}]
  /\ rpc = [r \in Runners |-> "idle"]
  /\ cart = [r \in Runners |-> NoCart]
  /\ messages = [t \in Carts |-> 0]
  /\ failures = 0
  /\ sentCommits = [t \in Carts |-> 0]
  /\ orphaned = {} /\ overlapped = {} /\ overwritten = {}
  /\ afterOrder = {}

IsOrder(e) == EventOf[e].kind = "order"
CartOf(e) == EventOf[e].cart
Locked(t) == \E w \in Slots : pc[w] \in {"schedule", "scheduled", "commit"} /\ CartOf(ev[w]) = t

-----------------------------------------------------------------------------
(* processShopifyEvent: checkouts/create, checkouts/update, orders/create. *)

BeginEvent(w, e) ==
  /\ pc[w] = "idle" /\ e \notin ledger
  /\ \A v \in Slots : ev[v] # e
  /\ pc' = [pc EXCEPT ![w] = "read"]
  /\ ev' = [ev EXCEPT ![w] = e]
  /\ notDueBefore' = [notDueBefore EXCEPT ![CartOf(e)] =
                        IF @ = {} THEN {} ELSE @ \cup {w}]
  /\ UNCHANGED <<dbVars, seen, job, owner, stalls, orphaned, runVars, messages, failures, overwritten, runHist>>

(* SELECT recovery_state; an order for an unknown cart leaves carts alone. *)
ReadCart(w) ==
  LET t == CartOf(ev[w])
  IN  /\ pc[w] = "read"
      /\ seen' = [seen EXCEPT ![w] = recoveryState[t]]
      /\ pc' = [pc EXCEPT ![w] =
                  IF IsOrder(ev[w]) /\ cartStatus[t] = "absent" THEN "skip" ELSE "write"]
      /\ UNCHANGED <<dbVars, ev, jobVars, runVars, messages, failures, overwritten, runHist>>

ShouldSchedule(e, state) == /\ ~EventOf[e].completed /\ EventOf[e].contactable
                            /\ state = "none"

(* The upsert or UPDATE of the cart waits for its row and keeps it locked. *)
WriteCart(w) ==
  /\ pc[w] = "write" /\ ~Locked(CartOf(ev[w]))
  /\ pc' = [pc EXCEPT ![w] =
              IF ~IsOrder(ev[w]) /\ ShouldSchedule(ev[w], seen[w]) THEN "schedule" ELSE "commit"]
  /\ UNCHANGED <<dbVars, ev, seen, jobVars, runVars, messages, failures, overwritten, runHist>>

(* A mutant, as are the other definitions no action uses. *)
ScheduleRecoveryWithoutJob(w) ==
  /\ pc[w] = "schedule"
  /\ pc' = [pc EXCEPT ![w] = "scheduled"]
  /\ UNCHANGED <<dbVars, ev, seen, jobVars, runVars, messages, failures, overwritten, runHist>>

(* The delayed job is queued inside the transaction; a known jobId makes it a
   no-op, and completed and failed jobs are kept for ever. *)
ScheduleRecovery(w) ==
  LET t == CartOf(ev[w])
  IN  /\ pc[w] = "schedule"
      /\ IF job[t] = "none"
           THEN /\ job' = [job EXCEPT ![t] = "delayed"]
                /\ notDueBefore' = [notDueBefore EXCEPT ![t] =
                     {v \in Slots : pc[v] # "idle" /\ CartOf(ev[v]) = t}]
           ELSE UNCHANGED <<job, notDueBefore>>
      /\ pc' = [pc EXCEPT ![w] = "scheduled"]
      /\ UNCHANGED <<dbVars, ev, seen, owner, stalls, orphaned, runVars, messages, failures, overwritten,
                     runHist>>

(* The slot's transaction is over. *)
EndTransaction(w) ==
  /\ pc' = [pc EXCEPT ![w] = "idle"]
  /\ ev' = [ev EXCEPT ![w] = NoEvent]
  /\ seen' = [seen EXCEPT ![w] = "none"]
  /\ notDueBefore' = [t \in Carts |-> notDueBefore[t] \ {w}]

AttributesScheduled(state) == state \in {"scheduled", "sent", "replied"}
Attributes(state) == state \in {"sent", "replied"}

CommitCheckout(w) ==
  LET t == CartOf(ev[w])
  IN  /\ pc[w] \in {"scheduled", "commit"} /\ ~IsOrder(ev[w])
      /\ cartStatus' = [cartStatus EXCEPT ![t] =
                          IF EventOf[ev[w]].completed THEN "completed" ELSE "open"]
      /\ recoveryState' = [recoveryState EXCEPT ![t] =
                             IF pc[w] = "scheduled" THEN "scheduled" ELSE @]
      /\ ledger' = ledger \cup {ev[w]}
      /\ overwritten' = IF pc[w] = "scheduled" /\ recoveryState[t] \in {"sent", "recovered"}
                          THEN overwritten \cup {t} ELSE overwritten
      /\ EndTransaction(w)
      /\ UNCHANGED <<recoveredBy, optIn, ordered, job, owner, stalls, orphaned, runVars, messages, failures, runHist>>

(* The attribution is written from the state read before the row was locked. *)
CommitOrder(w) ==
  LET t == CartOf(ev[w])
  IN  /\ pc[w] = "commit" /\ IsOrder(ev[w])
      /\ cartStatus' = [cartStatus EXCEPT ![t] = "completed"]
      /\ recoveryState' = [recoveryState EXCEPT ![t] =
                             IF Attributes(seen[w]) THEN "recovered" ELSE seen[w]]
      /\ recoveredBy' = [recoveredBy EXCEPT ![t] =
                           IF Attributes(seen[w]) THEN ev[w] ELSE NoEvent]
      /\ ledger' = ledger \cup {ev[w]}
      /\ ordered' = ordered \cup {t}
      /\ overwritten' = IF /\ recoveryState[t] \in {"sent", "recovered"}
                           /\ seen[w] \in {"none", "scheduled"}
                          THEN overwritten \cup {t} ELSE overwritten
      /\ EndTransaction(w)
      /\ UNCHANGED <<optIn, job, owner, stalls, orphaned, runVars, messages, failures, runHist>>

CommitUnknownCart(w) ==
  /\ pc[w] = "skip"
  /\ ledger' = ledger \cup {ev[w]}
  /\ EndTransaction(w)
  /\ UNCHANGED <<cartStatus, recoveryState, recoveredBy, optIn, ordered, job, owner, stalls, orphaned,
                 runVars, messages, failures, overwritten, runHist>>

(* A throw or a crash rolls the transaction back; a job it queued stays, with
   the id of a row that, when the transaction inserted it, never existed. *)
AbortEvent(w) ==
  /\ pc[w] # "idle" /\ failures < MaxFailures
  /\ failures' = failures + 1
  /\ orphaned' = IF pc[w] = "scheduled" /\ cartStatus[CartOf(ev[w])] = "absent"
                   THEN orphaned \cup {CartOf(ev[w])} ELSE orphaned
  /\ EndTransaction(w)
  /\ UNCHANGED <<dbVars, job, owner, stalls, runVars, messages, overwritten, runHist>>

-----------------------------------------------------------------------------
(* processCartRecovery. *)

(* The delay of 45 minutes outlasts the transactions open when the job was
   queued, and those that began beside them; a stalled job is due at once. *)
TakeJob(r, t) ==
  /\ rpc[r] = "idle"
  /\ \/ job[t] = "delayed" /\ notDueBefore[t] = {}
     \/ job[t] = "waiting"
  /\ job' = [job EXCEPT ![t] = "active"]
  /\ owner' = [owner EXCEPT ![t] = r]
  /\ rpc' = [rpc EXCEPT ![r] = "read"]
  /\ cart' = [cart EXCEPT ![r] = t]
  /\ afterOrder' = IF t \in ordered THEN afterOrder \cup {r} ELSE afterOrder
  /\ overlapped' = IF \E q \in Runners : cart[q] = t THEN overlapped \cup {t} ELSE overlapped
  /\ UNCHANGED <<dbVars, slotVars, stalls, orphaned, notDueBefore, messages, failures, overwritten,
                 sentCommits>>

DecideRecoveryRunWithoutState(t) ==
  IF cartStatus[t] = "open" /\ t \in optIn THEN "send_template" ELSE "skip"

DecideRecoveryRun(t) ==
  IF cartStatus[t] = "open" /\ recoveryState[t] = "scheduled" /\ t \in optIn
    THEN "send_template" ELSE "skip"

ReadJobSendsFirst(r) ==
  /\ rpc[r] = "read"
  /\ rpc' = [rpc EXCEPT ![r] =
               IF DecideRecoveryRun(cart[r]) = "send_template" THEN "enqueue" ELSE "done"]
  /\ UNCHANGED <<dbVars, slotVars, jobVars, cart, messages, failures, overwritten, runHist>>

(* One SELECT of the cart by the id in the job, and of its contact, and the
   decision. *)
ReadJob(r) ==
  LET t == cart[r]
  IN  /\ rpc[r] = "read"
      /\ rpc' = [rpc EXCEPT ![r] =
                   IF t \in orphaned THEN "done"
                   ELSE IF DecideRecoveryRun(t) = "send_template" THEN "mark"
                   ELSE IF cartStatus[t] = "completed" THEN "reset" ELSE "done"]
      /\ UNCHANGED <<dbVars, slotVars, jobVars, cart, messages, failures, overwritten, runHist>>

ResetCompletedWrongState(r) ==
  /\ rpc[r] = "reset" /\ ~Locked(cart[r])
  /\ recoveryState' = [recoveryState EXCEPT ![cart[r]] = "cancelled"]
  /\ rpc' = [rpc EXCEPT ![r] = "done"]
  /\ UNCHANGED <<cartStatus, recoveredBy, optIn, ledger, ordered, slotVars, jobVars, cart, messages,
                 failures, overwritten, runHist>>

ResetCompleted(r) ==
  /\ rpc[r] = "reset" /\ ~Locked(cart[r])
  /\ recoveryState' = [recoveryState EXCEPT ![cart[r]] = "none"]
  /\ rpc' = [rpc EXCEPT ![r] = "done"]
  /\ UNCHANGED <<cartStatus, recoveredBy, optIn, ledger, ordered, slotVars, jobVars, cart, messages,
                 failures, overwritten, runHist>>

NoTemplate(r) ==
  /\ rpc[r] = "mark"
  /\ rpc' = [rpc EXCEPT ![r] = "done"]
  /\ UNCHANGED <<dbVars, slotVars, jobVars, cart, messages, failures, overwritten, runHist>>

(* With an approved template the state becomes "sent" and is committed,
   whether or not the tenant has an active channel to send through. *)
MarkSent(r) ==
  /\ rpc[r] = "mark" /\ ~Locked(cart[r])
  /\ recoveryState' = [recoveryState EXCEPT ![cart[r]] = "sent"]
  /\ sentCommits' = [sentCommits EXCEPT ![cart[r]] = @ + 1]
  /\ \E activeChannel \in BOOLEAN :
       rpc' = [rpc EXCEPT ![r] = IF activeChannel THEN "enqueue" ELSE "done"]
  /\ UNCHANGED <<cartStatus, recoveredBy, optIn, ledger, ordered, slotVars, jobVars, cart, messages,
                 failures, overwritten, overlapped, afterOrder>>

EnqueueMessage(r) ==
  /\ rpc[r] = "enqueue"
  /\ messages' = [messages EXCEPT ![cart[r]] = @ + 1]
  /\ rpc' = [rpc EXCEPT ![r] = "done"]
  /\ UNCHANGED <<dbVars, slotVars, jobVars, cart, failures, overwritten, runHist>>

EndRun(r) ==
  /\ rpc' = [rpc EXCEPT ![r] = "idle"]
  /\ cart' = [cart EXCEPT ![r] = NoCart]
  /\ afterOrder' = afterOrder \ {r}

Settle(r, state) ==
  IF owner[cart[r]] = r
    THEN /\ job' = [job EXCEPT ![cart[r]] = state]
         /\ owner' = [owner EXCEPT ![cart[r]] = NoRunner]
    ELSE UNCHANGED <<job, owner>>

FinishJob(r) ==
  /\ rpc[r] = "done"
  /\ Settle(r, "completed") /\ EndRun(r)
  /\ UNCHANGED <<dbVars, slotVars, stalls, orphaned, notDueBefore, messages, failures, overwritten,
                 sentCommits, overlapped>>

(* The worker's own queue has no job options: one attempt, so a throw is
   final. *)
ThrowJob(r) ==
  /\ rpc[r] \notin {"idle", "done"} /\ failures < MaxFailures
  /\ failures' = failures + 1
  /\ Settle(r, "failed") /\ EndRun(r)
  /\ UNCHANGED <<dbVars, slotVars, stalls, orphaned, notDueBefore, messages, overwritten, sentCommits,
                 overlapped>>

CrashJob(r) ==
  /\ rpc[r] # "idle" /\ failures < MaxFailures
  /\ failures' = failures + 1
  /\ EndRun(r)
  /\ UNCHANGED <<dbVars, slotVars, jobVars, messages, overwritten, sentCommits, overlapped>>

StallJobWithoutFailing(t) ==
  /\ job[t] = "active" /\ stalls[t] < MaxStalled
  /\ job' = [job EXCEPT ![t] = "waiting"]
  /\ owner' = [owner EXCEPT ![t] = NoRunner]
  /\ stalls' = [stalls EXCEPT ![t] = @ + 1]
  /\ UNCHANGED <<dbVars, slotVars, orphaned, notDueBefore, runVars, messages, failures, overwritten, runHist>>

StallJob(t) ==
  /\ job[t] = "active"
  /\ job' = [job EXCEPT ![t] = IF stalls[t] < MaxStalled THEN "waiting" ELSE "failed"]
  /\ owner' = [owner EXCEPT ![t] = NoRunner]
  /\ stalls' = [stalls EXCEPT ![t] = @ + 1]
  /\ UNCHANGED <<dbVars, slotVars, orphaned, notDueBefore, runVars, messages, failures, overwritten, runHist>>

(* External: no code of the repository sets carts.contact_id or
   contacts.opt_in; something else links and opts the contact in or out. *)
ChangeOptIn(t) ==
  /\ optIn' = IF t \in optIn THEN optIn \ {t} ELSE optIn \cup {t}
  /\ UNCHANGED <<cartStatus, recoveryState, recoveredBy, ledger, ordered, slotVars, jobVars, runVars,
                 messages, failures, overwritten, runHist>>

-----------------------------------------------------------------------------
EventStep(w) ==
  \/ ReadCart(w) \/ WriteCart(w) \/ ScheduleRecovery(w) \/ CommitCheckout(w)
  \/ CommitOrder(w) \/ CommitUnknownCart(w)

RunStep(r) ==
  \/ ReadJob(r) \/ ResetCompleted(r) \/ NoTemplate(r) \/ MarkSent(r) \/ EnqueueMessage(r)
  \/ FinishJob(r)

Next ==
  \/ \E w \in Slots : EventStep(w) \/ AbortEvent(w) \/ \E e \in Events : BeginEvent(w, e)
  \/ \E r \in Runners : RunStep(r) \/ ThrowJob(r) \/ CrashJob(r) \/ \E t \in Carts : TakeJob(r, t)
  \/ \E t \in Carts : StallJob(t) \/ ChangeOptIn(t)

Spec == Init /\ [][Next]_vars

(* Slots and runners go on; a due job is taken; a job nobody runs any more is
   found stalled. *)
Abandoned(t) == \A r \in Runners : owner[t] = r => cart[r] # t

Fairness ==
  /\ \A w \in Slots : WF_vars(EventStep(w))
  /\ \A r \in Runners : WF_vars(RunStep(r))
  /\ \A t \in Carts : WF_vars(\E r \in Runners : TakeJob(r, t))
  /\ \A t \in Carts : WF_vars(Abandoned(t) /\ StallJob(t))

FairSpec == Spec /\ Fairness

-----------------------------------------------------------------------------
TypeOK ==
  /\ cartStatus \in [Carts -> {"absent", "open", "completed"}]
  /\ recoveryState \in [Carts -> {"none", "scheduled", "sent", "recovered"}]
  /\ recoveredBy \in [Carts -> Events \cup {NoEvent}]
  /\ optIn \subseteq Carts /\ ledger \subseteq Events
  /\ ordered \subseteq Carts
  /\ pc \in [Slots -> {"idle", "read", "write", "schedule", "scheduled", "commit", "skip"}]
  /\ ev \in [Slots -> Events \cup {NoEvent}]
  /\ seen \in [Slots -> {"none", "scheduled", "sent", "recovered"}]
  /\ job \in [Carts -> {"none", "delayed", "waiting", "active", "completed", "failed"}]
  /\ owner \in [Carts -> Runners \cup {NoRunner}]
  /\ stalls \in [Carts -> Nat] /\ notDueBefore \in [Carts -> SUBSET Slots]
  /\ rpc \in [Runners -> {"idle", "read", "reset", "mark", "enqueue", "done"}]
  /\ cart \in [Runners -> Carts \cup {NoCart}]
  /\ messages \in [Carts -> Nat] /\ failures \in Nat /\ sentCommits \in [Carts -> Nat]
  /\ orphaned \subseteq Carts /\ overlapped \subseteq Carts /\ overwritten \subseteq Carts
  /\ afterOrder \subseteq Runners

(* A cart in state "scheduled" always has its job on the queue, because the
   job is queued before the transaction commits (shopifyEvents.ts:42-59); the
   job may however be finished already, or name a row that was rolled back. *)
ScheduledHasJob ==
  \A t \in Carts : recoveryState[t] = "scheduled" => job[t] # "none"

(* A customer gets one recovery message per cart, whatever events, retries and
   crashes come, but for two races the code leaves open: a stalled job that
   runs again beside its first run, and an event that writes back the state it
   read before the row was marked "sent" (cartRecovery.ts:8-52,
   shopifyEvents.ts:76-92).  It rests on the worker's leaving maxStalledCount
   at one: a job that stalls twice can remind twice. *)
OneMessagePerCart ==
  \A t \in Carts : t \notin overlapped \cup overwritten => messages[t] <= 1

(* No message is queued for a run whose "sent" has not been committed: the
   queue never runs ahead of the table (cartRecovery.ts:52-83). *)
MessagesAreCommitted ==
  \A t \in Carts : messages[t] <= sentCommits[t]

(* Revenue is attributed only to a cart that was marked "sent", and only to an
   order of that cart (shopifyEvents.ts:80-92, cartRecovery.ts:66-73). *)
RecoveredWasSent ==
  \A t \in Carts : recoveredBy[t] # NoEvent =>
    sentCommits[t] > 0 /\ recoveredBy[t] \in ledger /\ CartOf(recoveredBy[t]) = t

(* A queued recovery job comes to an end, completed or failed: no row lock,
   stall or crash keeps it alive for ever. *)
JobsEnd ==
  \A t \in Carts : job[t] # "none" ~> job[t] \in {"completed", "failed"}

-----------------------------------------------------------------------------
(* What the repository says and the code does not do. *)

(* packages/commerce/test/cartRecovery.test.ts: "cancels when the checkout
   completed in the meantime": a run that begins after an order has completed
   the cart queues no message. *)
NoMessageAfterOrder ==
  \A r \in Runners : rpc[r] = "enqueue" => r \notin afterOrder

=============================================================================
