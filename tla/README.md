# Verification of whaitsapp

TLA+ models of the stateful core of whaitsapp: the inbound message pipeline, the
AI agent run and its settings, abandoned-cart recovery, Shopify events and order
automations, outbound delivery and the administration of workflows. TLC checks
the models on small instances; TLAPS proves their safety, and that the inbound
pipeline implements its abstract specification, for every value of the
constants. Liveness is left to TLC.

Run inside this directory:

    tlc -workers 2 -config MCInboundPipeline.cfg MCInboundPipeline
    tlapm InboundPipelineProofs.tla

`PROJECT.json` lists the runs, the mutants that show each property can fail, the
source lines of every definition, the hazards, the findings and the theorems.

## 1. The system

### Components, state and operations

| component | state it keeps | operations | module |
| --- | --- | --- | --- |
| Meta webhook (`packages/channels/src/meta.ts`, `apps/api/src/app.ts:66-96`) | none; acknowledges | flatten a POST into events, one BullMQ `add` per message of a known channel, then 200 | `MetaWebhook`, `InboundPipeline` |
| Shopify webhook (`app.ts:100-128`) | none; acknowledges | one `add` per event | `ShopifyEvents` |
| BullMQ queues (`apps/api/src/queues.ts`, `apps/worker/src/index.ts`) | jobs, locks, attempts | take, retry, stall, complete, evict | in every model of a job |
| inbound processor (`processors/inbound.ts`) | `processed_events`, `contacts`, `conversations`, `messages`, `usage_events`, `workflow_runs` | one transaction, then the replies | `InboundPipeline` |
| agent run (`packages/ai`, both adapters, `toolExecutor.ts`) | the loop's variables; conversation status, usage | complete, execute tools, guard, meter, hand off | `AgentRun` |
| LLM settings (`brain/page.tsx`, `admin.ts`, `adminStore.ts`, `models.ts`) | `tenants.settings.llm`, what each page has loaded | load, choose, save; resolve | `LlmSettings` |
| cart recovery (`processors/shopifyEvents.ts`, `processors/cartRecovery.ts`, `packages/commerce/src/cartRecovery.ts`) | `carts`, the delayed job | checkout, order, recovery run | `CartRecovery` |
| Shopify events (`processors/shopifyEvents.ts`, `workflowRuntime.ts`) | `orders_cache`, `products`, `shopify_stores`, `workflow_runs`, `workflows.run_count` | claim, write the row, run automation | `ShopifyEvents` |
| outbound processor (`processors/outbound.ts`, `packages/channels/src/window.ts`) | `messages`, `usage_events` | check policy, send, record | `OutboundDelivery` |
| workflows (`page.tsx`, `Builder.tsx`, `admin.ts`, `adminStore.ts`, `packages/workflows`) | `workflows`, what the browser has loaded | list, toggle, delete, draw, save; select and record | `WorkflowAdmin` |

### Interaction

The API only puts jobs on queues. The worker's processors run up to ten jobs per
queue at a time, each in Postgres transactions of one tenant, and put further
jobs on the outbound and recovery queues. The components share rows: the
contact (inbound writes the window that outbound reads), the conversation (the
agent, automations and human agents), the cart (checkout events, order events,
the recovery job), the workflow (dashboard, inbound, order events).

### What is hard, and what makes each component correct

* **Inbound**: at-least-once deliveries, duplicate jobs after eviction, stalled
  jobs that run twice at once, a select-then-insert, a status read long before
  it is used, replies queued after the commit. Correct when each message takes
  effect once and atomically, conversations are unique, humans are not talked
  over, and what was acknowledged is handled.
* **Agent**: an external model that may do anything, errors caught in the middle
  of a transaction, retries, answers cut short. Correct when it ends, sends each
  provider a transcript it accepts, commits usage, hand-off and reply of one
  attempt, and flags what no tool supports.
* **LLM settings**: pages that put back whole copies of a row, late and failing
  requests, a PUT that is handled after its page gave up, processes with different
  catalogs and keys, an untrusted row. Correct when what a page says is saved is
  used, nobody's choice is lost to a page that knew better, and a bad row costs
  nothing but the choice.
* **Cart recovery**: two event types and a delayed job over one row, with reads
  before the row is locked. Correct when a cart gets one message and revenue is
  attributed only to carts that were messaged.
* **Outbound**: an external effect between two transactions, a window that
  closes. Correct when repetitions are bounded, billing never exceeds delivery
  and the window is judged by the customer's messages only.
* **Shopify events**: redeliveries, any order, queueing inside the transaction.
  Correct when log, counter, messages and rows agree and every event ends.
* **Workflows**: stale browsers against a running worker whose runs throw and die.
  Correct when canvases show what is stored, deletions are final, the counter
  equals the log, and an event is only lost to as much trouble as its queue allows.

## 2. The modules

| module | lines it models | checked by | proofs |
| --- | --- | --- | --- |
| `ConversationLog` | abstract: what the inbound path promises | property of `inbound_safety` | `InboundRefinementProofs` |
| `MetaWebhook` | `meta.ts:97-140` | the inbound runs | |
| `InboundPipeline` | `app.ts:66-96`, `queues.ts`, `index.ts:42-49`, `inbound.ts`, `idempotency.ts` | `MCInboundPipeline`, three runs | `InboundPipelineProofs`, `InboundRefinementProofs` |
| `AgentRun` | `agent.ts`, `router.ts`, `guardrails.ts`, `openai.ts`, `anthropic.ts`, `toolExecutor.ts`, `inbound.ts:64-160` | `MCAgentRun`, two runs | `AgentRunProofs` |
| `LlmSettings` | `brain/page.tsx`, `admin.ts`, `adminStore.ts`, `models.ts`, `router.ts` | `MCLlmSettings` | `LlmSettingsProofs` |
| `CartRecovery` | `shopifyEvents.ts:19-94`, both `cartRecovery.ts` | `MCCartRecovery`, two runs | `CartRecoveryProofs` |
| `ShopifyEvents` | `app.ts:100-128`, `shopifyEvents.ts:63-188` without carts, `workflowRuntime.ts` | `MCShopifyEvents`, two runs | `ShopifyEventsProofs` |
| `OutboundDelivery` | `outbound.ts`, `window.ts`, `inbound.ts:22-29` | `MCOutbound` | `OutboundProofs` |
| `WorkflowAdmin` | `page.tsx:501-558`, `Builder.tsx:115-204,687-797`, `admin.ts:57-90`, `adminStore.ts:55-88`, `workflowRuntime.ts:5-24,75-102` | `MCWorkflowAdmin` | `WorkflowAdminProofs` |

Definitions no action uses, named like the definition they vary
(`...Without...`), are the bugs the mutants of `PROJECT.json` put in.

### How a transaction is modelled

A slot has a program counter with one value per database statement whose place
in the order matters. What an open transaction has written stays in the slot's
own variables until its `Commit` action publishes it; a throw or a crash
discards it. A row lock is a predicate on program counters (`HoldsClaim`,
`HoldsContact`, `HoldsConv`, `HoldsRow`, `Locked`, `RowLocked`), and a statement
that needs the lock has its absence as a guard. Statements whose interleaving no
other transaction can see (the unread columns of an insert, a SELECT of rows
nobody changes) are folded into their neighbour. Isolation is READ COMMITTED,
Postgres' default, which nothing in `packages/db` changes: a SELECT sees what is
committed at that moment, an UPDATE waits for the row.

The per-module correspondence:

* **MetaWebhook.** A payload is the sequence of its changes, each with a field, a
  number, message ids and status ids; `ParseInboundWebhook` flattens it as
  `parseInboundWebhook` does. It is used by `InboundPipeline` and imports nothing
  of it.
* **InboundPipeline.** `claim`, `contact`, `conversation`, `persist`, `decide`,
  `commit` are the statements of `inbound.ts:18-160`; `enqueue` is the loop at
  164. `Decide` chooses a workflow out of `Workflows` (`<<>>` is no match) and
  what the agent does; `AgentRun` has the agent in detail. `Deliver`,
  `QueueEvent`, `FailPost` and `AckPost` are the POST handler, which skips status
  updates and numbers of no channel. `Stalled` may hit a job whose processor
  still runs, which is how a double run begins; only the owner of the lock may
  complete or fail a job.
* **AgentRun.** Texts are the set of amounts they contain. The model may answer
  with any text or any sequence of up to `MaxCalls` tools, end for any reason the
  adapter knows or not, and (OpenAI) with arguments that are not JSON, for which
  the adapter throws. The statement of any tool that has one may fail, which sets
  `txOk` to false, and every later statement of the transaction fails. `messages` is what the provider is sent:
  the history, the current message, then assistant turns and tool results.
* **LlmSettings.** A page's GET is a request that is asked, answered and received,
  or fails at either end. A PUT has a life of its own: `HandlePut(n)` is the n-th
  one at the API, which may come after its page's fetch has failed (`FailSave`),
  because the dashboard's proxy passes no abort signal on (`route.ts:27`), and then
  also after a newer save was confirmed. `writer` says which PUT wrote last.
  `timers` are the timeouts that clear the status, which an earlier save may have
  set. The row may be anything at first (`Garbage` is JSON of another shape). A
  deployment changes the catalog of the API, or the catalog and the API keys of
  the worker: `Deployments` are the sets of keys it may have, none excluded by an
  assumption, because both keys are optional (`config.ts:28-29`, `index.ts:20-21`).
* **CartRecovery.** Each event transaction is `read`, `write`, (`schedule`,
  `scheduled`), `commit`. `orphaned` are carts whose job names a row that was
  rolled back with the transaction that inserted it, `ordered` those an order's
  event found and completed. `overlapped` and
  `overwritten` are histories that say which of the two races the code leaves
  open has happened to a cart.
* **OutboundDelivery.** `prepare`, `send` and `record` are the two transactions
  and the call between them. A failed call to Meta may have been accepted.
  The customer writes at any time, and the messages are handled later and in any
  order, each setting `last_inbound_at` to its own time.
* **ShopifyEvents.** A scenario gives each event its topic; its row (an order, a
  product, a shop) is the event whose data it shows. `EnqueueSend` happens inside
  the transaction, as in the code. `disordered` records that an event was taken
  up before an older one was committed.
* **WorkflowAdmin.** Each API call is one transaction of one statement, so one
  action. The list page keeps `shown`, the builder `canvas`, and both may be
  older than the table. Canvas edges are in the order they were drawn, because
  `graphToPayload` follows the first. The text of an action is none, blank or
  words: the schema's `min(1)` refuses only none (`types.ts:25`), the builder's
  `trim()` drops blank too (`Builder.tsx:195-197`). An attempt of the worker fails
  when the selected row is gone (`RecordDeleted`), or in `Throw`, which stands for
  the agent's error, the usage INSERT, any other statement and the commit; `Die` is
  a death found by the stalled check. `throws` and `stalls` count them per event.

### Assumptions

* BullMQ: `add` with a known jobId is a no-op; it accepts ids with colons (this
  depends on the installed version: later 5.x releases may refuse them, and every
  `add` with such an id would then throw). Jobs
  added by the worker, whose queues have no job options (`index.ts:23-25`), get
  one attempt and are kept. A job found stalled more than `MaxStalled` times
  (default 1) fails.
* The 45 minutes of the recovery delay outlast a transaction that was open when
  the job was queued, or began beside one that was.
* The run counter's row lock is modelled in `ShopifyEvents` and `WorkflowAdmin`
  and left out of `InboundPipeline`, where it would only serialise transactions
  further.
* The guardrail's patterns recognise the amounts of a reply; what they fail to
  recognise is outside the model.
* The constants' assumptions (`ConstantsAssumption`, `PayloadsAssumption`,
  `AgentAssumption`, ...) are evaluated by TLC on every run. Besides the types
  they say that slots and events are finitely many, that two Shopify events did
  not happen at the same moment (`Rank` is injective), and that the marks for "nothing" (`None`,
  `NoEvent`, ...) are none of the things they stand beside. One theorem,
  `CartsGetOneMessage`, has a hypothesis more: `MaxStalled <= 1`.
* The first workflows of `WorkflowAdmin` are ones the API accepted. Pressing
  Delete with the trigger selected deletes it (`deleteKeyCode`, `Builder.tsx:879`).
* Human agents close conversations and release them to the bot. No code of the
  repository does it yet; the comment at `inbound.ts:154` says they will.

## 3. The runs

Every bound is a constant of the module or of the configuration.

| run | instance | what it shows |
| --- | --- | --- |
| `inbound_safety` | a POST of 2 messages of 1 contact and one for an unknown number between them, delivered twice; 2 slots, 1 attempt, no stall forgiven, 1 step of a human agent; no match, or a workflow with two replies and a hand-off | redelivery, eviction and double runs change nothing twice, complete nothing unhandled, open one conversation, leave humans alone and repeat or reorder no reply; the whole implements `ConversationLog` |
| `inbound_progress` | 2 messages among another field, a status update and a second change; 2 attempts, 1 stall, 1 crash, a hand-off workflow | an acknowledged message is handled or exhausted |
| `inbound_reply_lost` | 1 slot, 2 attempts, 1 crash | **violation**: replies lost after the commit |
| `agent_run` | 2 iterations, 3 tools (one that reads and may fail, one not available, the hand-off), 2 attempts, 2 calls a turn, 1 fact and 1 invented claim, a worker with the key of one provider | one attempt is committed; aborted transactions do not answer; invented amounts are flagged; every tool call has its result; the run ends |
| `agent_history` | history window of 2, 1 recorded reply | **violation**: the current message is in the history |
| `llm_settings` | 2 pages, 2 saves, 1 choice, 1 deployment, 2 tiers, a model of each provider, a worker with the key of one of them, any first row; PUTs handled at any time | what a page says is saved is stored, and used until another PUT is handled; a tenant fares worse than one without settings only by a choice its row makes from the worker's catalog; a tier nobody touched keeps its choice |
| `cart_recovery` | 1 cart; creation, update, order; 2 event slots, 2 runners, 1 failure, 1 stall | one message per cart outside the two named races, messages and attribution behind the table, jobs end |
| `cart_reopened` | same events, one slot each, no failure | **violation**: a message after the order that completed the cart |
| `shopify_events` | 2 events on 2 slots, the first delivered twice, in 4 scenarios (order created and fulfilled, product created and updated, updated and deleted, uninstallation and another topic), 2 attempts, 1 failure | log, counter and messages agree, repetitions are bounded, rows show the latest event when events come in order, events end |
| `shopify_duplicates` | creation only, 2 attempts | **violation**: the automation's message is queued twice |
| `outbound` | a reply and a recovery template, 2 slots, window of 1 of 2 ticks, 1 failure, 1 stall | deliveries bounded, never overbilled, completion accounted for, no free-form send on a window that was not open, jobs end |
| `workflow_admin` | 1 workflow, of a blank message and one with words, and room for a second, 2 actions, 2 canvas edits, 2 events, 2 slots, 2 attempts, no stall forgiven, 1 run that throws or dies | canvases walk back to the stored workflow unless it has a blank text, deletions are final, counter equals log, a lost event has paid for every attempt |

Why the bounds are enough for the questions asked: two slots are the least for
every race of the code, and each race is between two transactions; a second
delivery, a stall and a crash are each one repetition, and the handling of a
third is that of the second, because the state that distinguishes them (the
ledger, the jobId) has two values. Two attempts separate the attempt that is
retried from the one that is final; where a run has one attempt or forgives no
stall, the second delivery takes its place. Two of anything in a batch separate
first, later and last, and two iterations the first from the one at the cap. Two
pages are the least that can undo each other. One cart is enough because no
statement of the recovery touches two. The theorems below remove the bounds
for every safety property.

`CHECK_DEADLOCK FALSE` is set where everything can be handled and the instance
come to rest, the case in all runs but `agent_history` and `workflow_admin`,
which find their violation first or always have a next step.

### Fairness

`FairSpec` asks for weak fairness of: a slot's next statement (every await of a
processor answers or throws), some slot taking a job that waits (BullMQ workers
poll), and, for a job no slot runs any more, the stalled check; in `AgentRun`,
where the job is alone, of its next step. Nothing is assumed of the environment:
deliveries, errors, crashes, spurious stalls, human agents, model answers,
customers and the clock may or may not act. A statement that waits for a lock is
not enabled, so a deadlock or an endless wait would be found.

## 4. What is proved

For all constants that meet the assumptions of the modules:

| module | theorem | property |
| --- | --- | --- |
| `InboundPipelineProofs` | `TypeCorrect` | `TypeOK` |
| | `EffectsAreOnce` | `EffectsAtMostOnce` |
| | `CompletedJobsAreCommitted` | `CompletedIsCommitted` |
| | `ConversationsAreUnique` | `OneOpenConversation` |
| | `HumanOwnedStaysSilent` | `HumanOwnedIsSilent` |
| | `RepliesAreOnceInOrder` | `RepliesOnceInOrder` |
| `InboundRefinementProofs` | `PipelineImplementsLog` | `ImplementsLog` |
| `AgentRunProofs` | `TypeCorrect` | `TypeOK` |
| | `CommitsAreOfOneRun` | `OneRunIsCommitted` |
| | `FailedStatementsNeverAnswer` | `NoAnswerAfterFailedStatement` |
| | `InventedAmountsAreFlagged` | `UnsupportedClaimsAreFlagged` |
| | `TranscriptsAnswerEveryCall` | `TranscriptAnswersEveryCall` |
| `LlmSettingsProofs` | `TypeCorrect` | `TypeOK` |
| | `SavedSettingsAreUsed` | `SavedIsUsed` |
| | `BotStaysUp` | `BadRowKeepsBotUp` |
| | `UntouchedTiersAreKept` | `UntouchedTierIsKept` |
| `CartRecoveryProofs` | `TypeCorrect` | `TypeOK` |
| | `ScheduledCartsHaveJobs` | `ScheduledHasJob` |
| | `RecoveredCartsWereSent` | `RecoveredWasSent` |
| | `QueuedMessagesAreCommitted` | `MessagesAreCommitted` |
| | `CartsGetOneMessage` (if `MaxStalled <= 1`) | `OneMessagePerCart` |
| `ShopifyEventsProofs` | `TypeCorrect` | `TypeOK` |
| | `LoggedRunsAreQueued` | `RecordedRunsAreQueued` |
| | `RowsAreLatest` | `RowIsLatestInOrder` |
| | `MessagesAreBounded` | `QueuedMessagesAreBounded` |
| `OutboundProofs` | `TypeCorrect` | `TypeOK` |
| | `CompletedJobsAreAccounted` | `CompletedIsAccounted` |
| | `FreeformWindowIsSound` | `WindowIsSound` |
| | `BillsAreHonest` | `NeverOverbilled` |
| | `MessagesAreBounded` | `DeliveriesAreBounded` |
| `WorkflowAdminProofs` | `TypeCorrect` | `TypeOK` |
| | `OpeningKeepsWorkflows` | `BuilderKeepsWorkflows` |
| | `DeletionsAreFinal` | `DeletedStaysDeleted` |
| | `CountersMatchLog` | `RunCountMatchesLog` |
| | `LostAttemptsAreAccounted` | `LostAttemptsArePaid` |

The proofs are in layers, each an invariant that uses the ones before it.

**Inbound.** `Typing` adds to `TypeOK` that a slot is bound to a message exactly
while it runs. `ClaimInv`: the open claim of a message has one holder, and its
message is not in the ledger; a slot past the commit, or stopped by the claim,
has its message in the ledger. So rows are committed once: `Commit` needs the
claim, and after it the message is in the ledger for good. `ContactInv`: while a
slot holds the contact's row, what its search found stays true: the contact's
other conversations stay closed, and the one it found becomes human-owned only if
it was when read. `PlanInv`: only the bot's slots have a plan. Neither uniqueness
nor silence is inductive alone, because both are about a value read several
statements earlier. `ReplyInv`: one slot at a time is in the enqueue loop of a
message, and its counter equals the length of what is queued.

**Refinement.** The step that handles a message in `ConversationLog` is the
commit, which must be on the contact's *latest* conversation. `LatestInv` gives
that: of a contact's conversations only the latest can be open, and it is the one
a transaction that searched has found. `ClaimInv` gives that the message was not
handled before, `PlanInv` that a human's conversation is only recorded in, and
`ReplyInv` that an enqueue is the next reply of the abstract queue. Every other
step stutters or is a human agent's.

**Agent.** `AttemptInv`: the current attempt has made as many completions as the
loop counted and later ones none. `FlagInv` ties the loop's flags to what the
model asked and the tools reported; `ResultInv` says the result of a run that has
ended is of this attempt; `CommitInv` that metering passes only an intact
transaction and nothing but a commit writes. `TranscriptInv` is what makes the
transcript inductive in the middle of a turn: of the calls an assistant turn made,
each has its result at its place after the turn, or is the one at that distance in
the calls still to execute; when the model is asked again none is left. `RangeInv`
has the values, and that no attempt passes the iteration cap.

**LLM settings.** `NumberInv` and `FreshInv`: PUTs are numbered by their clicks,
and a number no click has used carries nothing. `SavedInv`: the row holds the body
of the PUT that wrote last, and a page that says "saved" has its last PUT stored;
a page can say so of no other, because Save is disabled while it waits and `latest`
changes only at a click. So when the last writer is that PUT, the worker resolves
its body. `CopyInv`: what a page shows, and what each PUT carries, is what the page
was given but for the tiers its user chose. `BotStaysUp` needs no invariant beyond
the types: it is a case split of `ResolveRouterConfig` against the default's
provider, with no assumption on either's key.

**Cart recovery.** `Backed`: a state "scheduled", in the table or read by a slot,
has a job behind it, and "sent" or "recovered" a commit; `TableInv` and `SlotInv`
say so of both, because an event writes back what it read. `MessageInv` counts:
messages and runners about to queue one never outnumber commits of "sent".
`OnceInv`, of the carts neither race has hit: a cart is committed as sent once, one
runner at a time runs its job, and when "sent" can be, or has been, taken back, the
run under way is the last (`LastRun`). This is where `MaxStalled <= 1` is used,
and it is needed: with `MaxStalled = 2` and three failures TLC finds a run that dies
after "sent" and is run again beside a completed order, resets the state, and after
a reopened checkout and the second stall reminds again.

**Shopify events.** `ClaimInv` as above, with what the claim's holder has queued;
`LogInv` the log and its counter. `OrderInv`: while events are taken up in order,
those older than any open or handled event are handled; then `RowInv` says the
row exists and is as new as any handled event. `BudgetInv` keeps accounts of an
event's messages: what is queued, and a share of `Sends` for each run under way and
for each start its job has left (`Owed`), is at most what its deliveries allow, and
the claim's holder has already drawn on its own share. `RetryInv` has the counters
that evictions reset.

**Outbound.** `AccountInv`: a slot past Meta's answer has a delivery, a slot that
is done has a job accounted for. `WindowInv`: `last_inbound_at` is a time the
customer wrote at. `BillInv` counts: bills and slots about to record never
outnumber deliveries; `StartInv`: deliveries and slots that have not sent never
outnumber the starts of a job.

**Workflows.** `SlotInv` gives each running slot an event of its own whose run is
not yet in the log; `PickInv` that a row whose counter is locked stays. Then each
commit adds one run and one count (`CountInv`; ids that were never rows have
neither). `LostInv`: the failed attempts of an event are at most its throws and the
deletions, and while an attempt holds a selection, those without the row it
selected, which was there when it was selected; so the deletion that costs it the
attempt is one not counted before. `TypeInv`: rows,
list entries and what a canvas yields are valid definitions; each edge of a canvas
leads from what is on it to a block on it, through every edit (`TypedCanvas`); an
event that is still to be run has an attempt left. That opening and saving changes
nothing, unless a text is blank, is then a fact about `Walk` and `Keep` on chains
(`OpenedPayload`, `RoundTrip`): without blank texts trimming is the identity and
the filter drops nothing, and with one the payload differs, since nothing in it is
blank.

**Recursion.** The builder's `Walk` and its filter `Keep` are recursive functions,
about which the library's induction theorems give nothing, because they take the
statement to prove as an operator. The proofs go by the least counterexample
instead: `LeastNumber` and `Induction` are about a *set* of numbers, the function's
existence is the first fact proved (`KeptExists`, `WalkedExists`), its equations
the second (`KeepUnfolds`, `WalkUnfolds`), and what it computes the third, for
sequences of any length (`KeepType`, `KeepAll`, `WalkType`, `ChainWalk`).

Model-checked only: liveness (`AckedIsHandled`, `RunEnds`, `EventsEnd`, both
`JobsEnd`), because fairness and ENABLED are beyond the prover. Every invariant and
every action property of the passing runs is a theorem.

## 5. What the code does and the documentation does not say

Shown by a run, each a finding in `PROJECT.json`:

1. `inbound_reply_lost`: replies decided by a committed handling are lost when an
   enqueue fails after the commit (`inbound.ts:162-174`).
2. `cart_reopened`: a checkout event handled after the order that completed the
   cart reopens it (`shopifyEvents.ts:37-38`), and the customer is messaged after
   buying.
3. `shopify_duplicates`: automation messages are queued before the commit and
   queued again by a retry (`shopifyEvents.ts:109`).
4. `agent_history`: `slice(0, -1)` drops a row that need not be the current
   message (`inbound.ts:72`).

Noticed while modelling, without a run, and mostly without a document that
promises otherwise; where one does, it is named:

* `last_inbound_at` moves back when messages are handled out of order
  (`inbound.ts:27`).
* The usage of an attempt that is rolled back is not metered (`inbound.ts:135`).
* A cart is marked sent before a channel is found and before its message is
  queued, and can then be attributed without a message
  (`processors/cartRecovery.ts:52-83`), although the comment at
  `packages/commerce/src/cartRecovery.ts:63-64` counts an order "after a recovery
  message was sent". `RecoveredWasSent` is about carts committed as sent.
* A cart whose first transaction rolled back after queueing the job is never
  messaged: the job names a row that does not exist and its jobId stays taken
  (`shopifyEvents.ts:42-58`).
* A second order for a recovered cart sets its recovered value to null
  (`shopifyEvents.ts:85-92`).
* The window is checked before the call to Meta, not at it (`outbound.ts:15-50`).
* Order and product updates are applied in the order they are handled
  (`shopifyEvents.ts:119-121`, `146-163`).
* Two pages of the list or of the Brain undo each other's saves, and the Brain
  page saves its empty settings when its load has not answered
  (`brain/page.tsx:44-75`).
* A save whose fetch failed in the browser may be stored later, after a newer save
  of the same page was shown as saved, and undo it (`brain/page.tsx:70-77`,
  `api/admin/[...path]/route.ts:27`). `SavedIsUsed` excepts it by asking for the
  last writer.
* A catalog choice whose provider has no key fails every message of the tenant
  (`router.ts:39-42`); only bad settings rows fall back (`models.ts:51-55`).
* A bad row falls back to the default routes, which are Anthropic's, and
  `ANTHROPIC_API_KEY` is optional (`config.ts:28`, `index.ts:20`): a worker with an
  OpenAI key only fails every message of a tenant with a bad row, although
  `models.ts:54` says that it "must never take a tenant's bot down" and
  `README.md:31-32` that it never does. `BadRowKeepsBotUp` therefore states that
  such a tenant fares as one without settings.
* A stored message of white space, which the schema accepts (`types.ts:25`), is
  dropped when its workflow is opened in the builder and saved, and so are blank
  instructions and hand-off texts (`Builder.tsx:195-197`). Keywords with commas or
  blank ends change likewise; keywords are not modelled.
* Flagged replies are sent (`inbound.ts:142-149`).
* A toggle in the list writes back the whole workflow as shown and undoes an edit
  made meanwhile (`page.tsx:535-541`).
* Deleting a block in the middle of a chain drops the ones after it on save, with
  no message (`Builder.tsx:172-181`).

## 6. Not modelled

HMAC checks, the subscription handshake, text and type extraction, prompt wording,
OAuth and the GraphQL client, secret encryption, configuration and logging are
functions without state, and some of them no running component calls. Row-level
security is enforced by Postgres and tested against a real database; two tenants
never share a row, and every model is of one tenant. The other dashboard pages
present data, and the admin proxy passes requests through: its failures are those
of the pages' requests. `pruneProcessedEvents` and the list page's `EditorPanel`
are not reached by any code (`panelTarget` has no setter). Names and keywords of
workflows are left out, which is why that component is "partly" modelled.

Three hazards have no property, because the code does not prevent them and
nothing promises that it does: replies of one message may overtake each other on
the way to Meta (`index.ts:42`), Shopify and Meta spell a phone differently
(`workflowRuntime.ts:45`), and a toggle undoes an edit saved meanwhile
(`page.tsx:540`).

The components are composed where they share state a property is about: the POST
handler with the queue and the processor, the settings page with the worker, the
dashboard with the worker's selection. The contact's window and the human's
release of a conversation are actions of the modules that read them. A
composition of the inbound and order transactions over the contact, the
conversation and the workflow's row, for deadlocks between them, would be the
next module.
