--------------------------- MODULE InboundPipeline ---------------------------
(***************************************************************************)
(* The inbound message path: Meta's webhook deliveries, the API handler     *)
(* that queues one job per message (apps/api/src/app.ts), the BullMQ queue, *)
(* and the worker's processInboundMessage (apps/worker/src/processors/      *)
(* inbound.ts) run by several concurrent slots, one database statement at a *)
(* time.                                                                    *)
(*                                                                          *)
(* One tenant is modelled: every row the handler touches is scoped to the   *)
(* tenant of the job.  What a transaction wrote and has not committed is   *)
(* kept by its slot (conv, plan); the database variables hold committed rows.   *)
(***************************************************************************)
EXTENDS Integers, Sequences, FiniteSets, MetaWebhook

CONSTANTS
  Msgs,          \* provider message ids
  Contacts,      \* wa_phone numbers writing to the tenant
  FromOf,        \* [Msgs -> Contacts]: the sender of a message
  TsOf,          \* [Msgs -> Nat \ {0}]: Meta's timestamp of a message
  Statuses,      \* ids of status updates
  Numbers,       \* phone_number_ids
  Channels,      \* the phone_number_ids of the channels table
  Payloads,      \* bodies of the POSTs Meta makes
  Handlers,      \* concurrent POST requests in the API process
  Workers,       \* concurrent job slots of the worker processes
  Workflows,     \* action lists a message may match; <<>> is "no match"
  MaxAttempts,   \* BullMQ attempts of a job (5 in queues.ts)
  MaxStalled,    \* BullMQ maxStalledCount (library default 1)
  MaxPosts,      \* bound: deliveries Meta makes
  MaxCrashes,    \* bound: slot crashes
  MaxHuman,      \* bound: closes and releases by human agents
  NoMsg, NoWorker

ASSUME ConstantsAssumption ==
  /\ FromOf \in [Msgs -> Contacts]
  /\ TsOf \in [Msgs -> Nat \ {0}]
  /\ Workflows \subseteq Seq({"send_message", "handoff", "handoff_text", "ai_reply"})
  /\ MaxAttempts \in Nat \ {0}
  /\ MaxStalled \in Nat
  /\ MaxPosts \in Nat /\ MaxCrashes \in Nat /\ MaxHuman \in Nat
  /\ NoMsg \notin Msgs
  /\ NoWorker \notin Workers

(* InboundEvent of provider.ts. *)
InboundEvents ==
  [kind : {"message"}, phoneNumberId : Numbers, id : Msgs]
    \cup [kind : {"status"}, phoneNumberId : Numbers, id : Statuses]

(* The bodies are about these messages and status updates. *)
ASSUME PayloadsAssumption ==
  \A p \in Payloads : /\ ParseInboundWebhook(p) \in Seq(InboundEvents)
                      /\ MessagesFor(p, Channels) \subseteq Msgs

VARIABLES
  post,          \* post[h]: the events handler h goes through, or idle
  acked,         \* history: messages to known channels in POSTs answered 200
  job,           \* job[m]: state of the BullMQ job `meta:<m>`
  owner,         \* owner[m]: the slot that holds the lock of an active job
  attempts,      \* attempts of the job that threw
  stalls,        \* times the job was found stalled
  pc, msg,       \* each worker slot: its step and its message
  conv, status,  \* the conversation its transaction found, 0 when it opens one
  plan,          \* what its transaction decided to do
  sent,          \* replies it has queued after the commit
  ledger,        \* processed_events: committed claims
  messages,      \* inbound rows of the messages table (unique provider_msg_id)
  convs,         \* conversations, in order of creation
  lastInbound,   \* contacts.last_inbound_at; 0 when the contact has no row
  usage,         \* llm_tokens usage_events rows committed for a message
  workflowRuns,  \* workflow_runs rows committed for a message
  queued,        \* queued[m]: reply numbers put on the outbound queue for m
  exhausted,     \* history: messages whose job failed for good
  promised,      \* history: replies decided by the committed handling of m
  posts, crashes, touches  \* counters for the bounds

apiVars   == <<post, acked, posts>>
jobVars   == <<job, owner, attempts, stalls>>
slotVars  == <<pc, msg, conv, status, plan, sent>>
histVars  == <<exhausted, promised>>
dbVars    == <<ledger, messages, convs, lastInbound, usage, workflowRuns>>
vars == <<apiVars, jobVars, slotVars, dbVars, queued, histVars, crashes, touches>>

Steps == {"idle", "claim", "contact", "conversation", "persist", "decide",
          "commit", "enqueue", "finish"}
ConvStatus == {"bot", "human", "closed"}
JobStates == {"none", "waiting", "active", "completed", "failed"}

IdlePost == [busy |-> FALSE, events |-> <<>>, next |-> 1, carries |-> {}]
Plan(matched, ai, handoff, replies) ==
  [matched |-> matched, ai |-> ai, handoff |-> handoff, replies |-> replies]
NoPlan == Plan(FALSE, FALSE, FALSE, 0)

(* Variants named "...Without..." and the like, here and below, are the bugs the
   mutants of the runs put in: no definition of the model uses them. *)
HoldsClaimWithoutKey(w) == FALSE
HoldsContactWithoutUpsert(w) == FALSE

(* Steps at which a slot's open transaction holds each row lock. *)
HoldsClaim(w)   == pc[w] \in {"contact", "conversation", "persist", "decide", "commit"}
HoldsContact(w) == pc[w] \in {"conversation", "persist", "decide", "commit"}
HoldsConv(w)    == pc[w] \in {"decide", "commit"} /\ conv[w] # 0

Init ==
  /\ post = [h \in Handlers |-> IdlePost]
  /\ acked = {} /\ posts = 0 /\ crashes = 0 /\ touches = 0
  /\ job = [m \in Msgs |-> "none"]
  /\ owner = [m \in Msgs |-> NoWorker]
  /\ attempts = [m \in Msgs |-> 0]
  /\ stalls = [m \in Msgs |-> 0]
  /\ pc = [w \in Workers |-> "idle"]
  /\ msg = [w \in Workers |-> NoMsg]
  /\ conv = [w \in Workers |-> 0]
  /\ status = [w \in Workers |-> "bot"]
  /\ plan = [w \in Workers |-> NoPlan]
  /\ sent = [w \in Workers |-> 0]
  /\ ledger = {}
  /\ messages = {}
  /\ convs = <<>>
  /\ lastInbound = [c \in Contacts |-> 0]
  /\ usage = [m \in Msgs |-> 0]
  /\ workflowRuns = [m \in Msgs |-> 0]
  /\ queued = [m \in Msgs |-> <<>>]
  /\ exhausted = {}
  /\ promised = [m \in Msgs |-> 0]

-----------------------------------------------------------------------------
(* POST /webhooks/meta, with a valid signature.  Meta delivers at least once:
   it may repeat a body, answered or not.  The handler queues the messages one
   by one and answers 200 at the end; any lookup or add that throws answers
   500 and leaves the earlier ones queued. *)

Deliver(h, p) ==
  /\ ~post[h].busy /\ posts < MaxPosts
  /\ post' = [post EXCEPT ![h] = [busy |-> TRUE, events |-> ParseInboundWebhook(p), next |-> 1,
                                 carries |-> MessagesFor(p, Channels)]]
  /\ posts' = posts + 1
  /\ UNCHANGED <<acked, jobVars, slotVars, dbVars, queued, histVars, crashes, touches>>

(* Queue.add with a jobId BullMQ already knows is a no-op. *)
AddJob(m) ==
  IF job[m] = "none" THEN job' = [job EXCEPT ![m] = "waiting"] ELSE UNCHANGED job

QueueEventStopsAtUnknown(h) ==
  /\ post[h].busy /\ post[h].next <= Len(post[h].events)
  /\ LET e == post[h].events[post[h].next]
     IN  IF e.kind = "message" /\ e.phoneNumberId \in Channels
           THEN AddJob(e.id) /\ post' = [post EXCEPT ![h].next = @ + 1]
           ELSE UNCHANGED job /\ post' = [post EXCEPT ![h].next = Len(post[h].events) + 1]
  /\ UNCHANGED <<acked, posts, owner, attempts, stalls, slotVars, dbVars, queued, histVars, crashes, touches>>

(* Status updates and messages to a number without a channel are skipped. *)
QueueEvent(h) ==
  /\ post[h].busy /\ post[h].next <= Len(post[h].events)
  /\ LET e == post[h].events[post[h].next]
     IN  IF e.kind = "message" /\ e.phoneNumberId \in Channels THEN AddJob(e.id) ELSE UNCHANGED job
  /\ post' = [post EXCEPT ![h].next = @ + 1]
  /\ UNCHANGED <<acked, posts, owner, attempts, stalls, slotVars, dbVars, queued, histVars, crashes, touches>>

FailPost(h) ==
  /\ post[h].busy /\ post[h].next <= Len(post[h].events)
  /\ post' = [post EXCEPT ![h] = IdlePost]
  /\ UNCHANGED <<acked, posts, jobVars, slotVars, dbVars, queued, histVars, crashes, touches>>

AckPost(h) ==
  /\ post[h].busy /\ post[h].next > Len(post[h].events)
  /\ acked' = acked \cup post[h].carries
  /\ post' = [post EXCEPT ![h] = IdlePost]
  /\ UNCHANGED <<posts, jobVars, slotVars, dbVars, queued, histVars, crashes, touches>>

-----------------------------------------------------------------------------
(* BullMQ: a slot takes a waiting job and owns its lock.  A job whose lock
   expired (its process died, or its event loop was blocked and the processor
   is still running) goes back to waiting, at most MaxStalled times.  Finished
   jobs are evicted by removeOnComplete / removeOnFail. *)

Take(w, m) ==
  /\ pc[w] = "idle" /\ job[m] = "waiting"
  /\ job' = [job EXCEPT ![m] = "active"]
  /\ owner' = [owner EXCEPT ![m] = w]
  /\ pc' = [pc EXCEPT ![w] = "claim"]
  /\ msg' = [msg EXCEPT ![w] = m]
  /\ UNCHANGED <<apiVars, attempts, stalls, conv, status, plan, sent, dbVars, queued,
                 histVars, crashes, touches>>

(* The lock is gone; the job is retried, or has failed for good. *)
Requeue(m, forGood) ==
  /\ job' = [job EXCEPT ![m] = IF forGood THEN "failed" ELSE "waiting"]
  /\ owner' = [owner EXCEPT ![m] = NoWorker]
  /\ exhausted' = IF forGood THEN exhausted \cup {m} ELSE exhausted

Stalled(m) ==
  /\ job[m] = "active"
  /\ Requeue(m, stalls[m] >= MaxStalled)
  /\ stalls' = [stalls EXCEPT ![m] = @ + 1]
  /\ UNCHANGED <<apiVars, attempts, slotVars, dbVars, queued, promised, crashes, touches>>

Evict(m) ==
  /\ job[m] \in {"completed", "failed"}
  /\ job' = [job EXCEPT ![m] = "none"]
  /\ attempts' = [attempts EXCEPT ![m] = 0]
  /\ stalls' = [stalls EXCEPT ![m] = 0]
  /\ UNCHANGED <<apiVars, owner, slotVars, dbVars, queued, histVars, crashes, touches>>

(* The slot is done with its run, its transaction committed or rolled back. *)
FreeSlot(w) ==
  /\ pc' = [pc EXCEPT ![w] = "idle"]
  /\ msg' = [msg EXCEPT ![w] = NoMsg]
  /\ conv' = [conv EXCEPT ![w] = 0]
  /\ status' = [status EXCEPT ![w] = "bot"]
  /\ plan' = [plan EXCEPT ![w] = NoPlan]
  /\ sent' = [sent EXCEPT ![w] = 0]

(* The processor returned: only the owner of the lock may move the job, whose
   counters are then of no more use. *)
Finish(w) ==
  /\ \/ pc[w] = "finish"
     \/ pc[w] = "enqueue" /\ sent[w] = plan[w].replies
  /\ IF owner[msg[w]] = w
       THEN /\ job' = [job EXCEPT ![msg[w]] = "completed"]
            /\ owner' = [owner EXCEPT ![msg[w]] = NoWorker]
            /\ attempts' = [attempts EXCEPT ![msg[w]] = 0]
            /\ stalls' = [stalls EXCEPT ![msg[w]] = 0]
       ELSE UNCHANGED jobVars
  /\ FreeSlot(w)
  /\ UNCHANGED <<apiVars, dbVars, queued, histVars, crashes, touches>>

(* The processor threw (database, model provider or Redis error): the open
   transaction rolls back and BullMQ retries the job until MaxAttempts. *)
Throw(w) ==
  /\ pc[w] # "idle"
  /\ pc[w] = "enqueue" => sent[w] < plan[w].replies
  /\ IF owner[msg[w]] = w
       THEN /\ Requeue(msg[w], attempts[msg[w]] + 1 >= MaxAttempts)
            /\ attempts' = [attempts EXCEPT ![msg[w]] = @ + 1]
       ELSE UNCHANGED <<job, owner, attempts, exhausted>>
  /\ FreeSlot(w)
  /\ UNCHANGED <<apiVars, stalls, dbVars, queued, promised, crashes, touches>>

(* The process dies: the transaction rolls back, the job keeps its lock until
   it is found stalled. *)
Crash(w) ==
  /\ pc[w] # "idle" /\ crashes < MaxCrashes
  /\ crashes' = crashes + 1
  /\ FreeSlot(w)
  /\ UNCHANGED <<apiVars, jobVars, dbVars, queued, histVars, touches>>

-----------------------------------------------------------------------------
(* processInboundMessage, inside tenantTransaction. *)

ClaimEventWithoutWait(w) ==
  /\ pc[w] = "claim"
  /\ LET claimed == \E v \in Workers : HoldsClaim(v) /\ msg[v] = msg[w]
     IN  pc' = [pc EXCEPT ![w] = IF claimed \/ msg[w] \in ledger THEN "finish" ELSE "contact"]
  /\ UNCHANGED <<apiVars, jobVars, msg, conv, status, plan, sent, dbVars, queued, histVars, crashes, touches>>

(* INSERT INTO processed_events ... ON CONFLICT DO NOTHING waits for another
   open transaction that inserted the same id, then sees its outcome. *)
ClaimEvent(w) ==
  /\ pc[w] = "claim"
  /\ \A v \in Workers : HoldsClaim(v) => msg[v] # msg[w]
  /\ pc' = [pc EXCEPT ![w] = IF msg[w] \in ledger THEN "finish" ELSE "contact"]
  /\ UNCHANGED <<apiVars, jobVars, msg, conv, status, plan, sent, dbVars, queued, histVars, crashes, touches>>

(* INSERT INTO contacts ... ON CONFLICT DO UPDATE locks the contact's row (or
   its unique key) until the transaction ends. *)
UpsertContact(w) ==
  /\ pc[w] = "contact"
  /\ \A v \in Workers : HoldsContact(v) => FromOf[msg[v]] # FromOf[msg[w]]
  /\ pc' = [pc EXCEPT ![w] = "conversation"]
  /\ UNCHANGED <<apiVars, jobVars, msg, conv, status, plan, sent, dbVars, queued, histVars, crashes, touches>>

OpenConvs(c) == {i \in 1..Len(convs) : convs[i].contact = c /\ convs[i].status # "closed"}

(* SELECT the latest open conversation, else INSERT one owned by the bot. *)
FindConversation(w) ==
  /\ pc[w] = "conversation"
  /\ LET open == OpenConvs(FromOf[msg[w]])
     IN  \/ /\ open = {}
            /\ conv' = [conv EXCEPT ![w] = 0]
            /\ status' = [status EXCEPT ![w] = "bot"]
         \/ \E i \in open :
              /\ \A j \in open : j <= i
              /\ conv' = [conv EXCEPT ![w] = i]
              /\ status' = [status EXCEPT ![w] = convs[i].status]
  /\ pc' = [pc EXCEPT ![w] = "persist"]
  /\ UNCHANGED <<apiVars, jobVars, msg, plan, sent, dbVars, queued, histVars, crashes, touches>>

PersistMessageWithoutStatus(w) ==
  /\ pc[w] = "persist"
  /\ pc' = [pc EXCEPT ![w] = "decide"]
  /\ UNCHANGED <<apiVars, jobVars, msg, conv, status, plan, sent, dbVars, queued, histVars, crashes, touches>>

(* Insert the message and touch last_message_at, which locks the conversation.
   A conversation a human owns ends the handling here. *)
PersistMessage(w) ==
  /\ pc[w] = "persist"
  /\ pc' = [pc EXCEPT ![w] = IF status[w] = "bot" THEN "decide" ELSE "commit"]
  /\ UNCHANGED <<apiVars, jobVars, msg, conv, status, plan, sent, dbVars, queued, histVars, crashes, touches>>

TextActions(wf) == {i \in DOMAIN wf : wf[i] \in {"send_message", "handoff_text"}}
HandsOff(wf) == \E i \in DOMAIN wf : wf[i] \in {"handoff", "handoff_text"}
RunsAi(wf) == wf = <<>> \/ \E i \in DOMAIN wf : wf[i] = "ai_reply"

(* The matched workflow's actions, then the agent unless they hand off. *)
Decide(w) ==
  /\ pc[w] = "decide"
  /\ \E wf \in Workflows, agentReplies \in BOOLEAN, agentHandsOff \in BOOLEAN :
       LET ai == RunsAi(wf) /\ ~HandsOff(wf)
       IN  /\ ~ai => ~agentReplies /\ ~agentHandsOff
           /\ plan' = [plan EXCEPT ![w] =
                Plan(wf # <<>>, ai, HandsOff(wf) \/ agentHandsOff,
                     Cardinality(TextActions(wf)) + (IF agentReplies THEN 1 ELSE 0))]
  /\ pc' = [pc EXCEPT ![w] = "commit"]
  /\ UNCHANGED <<apiVars, jobVars, msg, conv, status, sent, dbVars, queued, histVars,
                 crashes, touches>>

ConvsAfterWrongStatus(w) ==
  IF conv[w] = 0 THEN Append(convs, [contact |-> FromOf[msg[w]], status |-> "handoff"])
                 ELSE convs

(* The conversations table once the transaction of slot w is in it. *)
ConvsAfter(w) ==
  LET new == [contact |-> FromOf[msg[w]],
              status |-> IF plan[w].handoff THEN "human" ELSE "bot"]
  IN  IF conv[w] = 0 THEN Append(convs, new)
      ELSE IF plan[w].handoff THEN [convs EXCEPT ![conv[w]].status = "human"]
      ELSE convs

Commit(w) ==
  /\ pc[w] = "commit"
  /\ ledger' = ledger \cup {msg[w]}
  /\ messages' = messages \cup {msg[w]}
  /\ lastInbound' = [lastInbound EXCEPT ![FromOf[msg[w]]] = TsOf[msg[w]]]
  /\ convs' = ConvsAfter(w)
  /\ usage' = [usage EXCEPT ![msg[w]] = @ + (IF plan[w].ai THEN 1 ELSE 0)]
  /\ workflowRuns' = [workflowRuns EXCEPT ![msg[w]] = @ + (IF plan[w].matched THEN 1 ELSE 0)]
  /\ promised' = [promised EXCEPT ![msg[w]] = @ + plan[w].replies]
  /\ pc' = [pc EXCEPT ![w] = "enqueue"]
  /\ UNCHANGED <<apiVars, jobVars, msg, conv, status, plan, sent, queued, exhausted, crashes, touches>>

EnqueueReplyOneTooMany(w) ==
  /\ pc[w] = "enqueue" /\ sent[w] <= plan[w].replies
  /\ queued' = [queued EXCEPT ![msg[w]] = Append(@, sent[w] + 1)]
  /\ sent' = [sent EXCEPT ![w] = @ + 1]
  /\ UNCHANGED <<apiVars, jobVars, pc, msg, conv, status, plan, dbVars, histVars, crashes, touches>>

(* After the commit: one outbound job per reply, with no jobId. *)
EnqueueReply(w) ==
  /\ pc[w] = "enqueue" /\ sent[w] < plan[w].replies
  /\ queued' = [queued EXCEPT ![msg[w]] = Append(@, sent[w] + 1)]
  /\ sent' = [sent EXCEPT ![w] = @ + 1]
  /\ UNCHANGED <<apiVars, jobVars, pc, msg, conv, status, plan, dbVars, histVars, crashes, touches>>

-----------------------------------------------------------------------------
(* Human agents: the source only says a human owns the conversation "until
   they close or release it"; an UPDATE of the row waits for its lock. *)

SetStatus(i, from, to) ==
  /\ touches < MaxHuman
  /\ convs[i].status \in from
  /\ \A w \in Workers : HoldsConv(w) => conv[w] # i
  /\ convs' = [convs EXCEPT ![i].status = to]
  /\ touches' = touches + 1
  /\ UNCHANGED <<apiVars, jobVars, slotVars, ledger, messages, lastInbound, usage,
                 workflowRuns, queued, histVars, crashes>>

CloseConversation(i)   == SetStatus(i, {"bot", "human"}, "closed")
ReleaseConversation(i) == SetStatus(i, {"human"}, "bot")

-----------------------------------------------------------------------------
SlotStep(w) ==
  \/ ClaimEvent(w) \/ UpsertContact(w) \/ FindConversation(w) \/ PersistMessage(w)
  \/ Decide(w) \/ Commit(w) \/ EnqueueReply(w) \/ Finish(w)

HandlerStep(h) == QueueEvent(h) \/ AckPost(h)

Next ==
  \/ \E h \in Handlers : HandlerStep(h) \/ FailPost(h) \/ \E p \in Payloads : Deliver(h, p)
  \/ \E m \in Msgs : Stalled(m) \/ Evict(m) \/ \E w \in Workers : Take(w, m)
  \/ \E w \in Workers : SlotStep(w) \/ Throw(w) \/ Crash(w)
  \/ \E i \in 1..Len(convs) : CloseConversation(i) \/ ReleaseConversation(i)

Spec == Init /\ [][Next]_vars

(* A job no slot runs any more is found stalled; running slots go on; a
   waiting job is taken. *)
Abandoned(m) == \A w \in Workers : owner[m] = w => msg[w] # m

Fairness ==
  /\ \A h \in Handlers : WF_vars(HandlerStep(h))
  /\ \A w \in Workers : WF_vars(SlotStep(w))
  /\ \A m \in Msgs : WF_vars(\E w \in Workers : Take(w, m))
  /\ \A m \in Msgs : WF_vars(Abandoned(m) /\ Stalled(m))

FairSpec == Spec /\ Fairness

-----------------------------------------------------------------------------
TypeOK ==
  /\ post \in [Handlers -> [busy : BOOLEAN, events : Seq(InboundEvents), next : Nat \ {0},
                           carries : SUBSET Msgs]]
  /\ acked \subseteq Msgs
  /\ job \in [Msgs -> JobStates] /\ owner \in [Msgs -> Workers \cup {NoWorker}]
  /\ attempts \in [Msgs -> Nat] /\ stalls \in [Msgs -> Nat]
  /\ pc \in [Workers -> Steps]
  /\ msg \in [Workers -> Msgs \cup {NoMsg}]
  /\ conv \in [Workers -> Nat] /\ status \in [Workers -> ConvStatus]
  /\ plan \in [Workers -> [matched : BOOLEAN, ai : BOOLEAN, handoff : BOOLEAN, replies : Nat]]
  /\ sent \in [Workers -> Nat]
  /\ ledger \subseteq Msgs /\ messages \subseteq Msgs
  /\ convs \in Seq([contact : Contacts, status : ConvStatus])
  /\ lastInbound \in [Contacts -> Nat]
  /\ usage \in [Msgs -> Nat] /\ workflowRuns \in [Msgs -> Nat]
  /\ queued \in [Msgs -> Seq(Nat)]
  /\ exhausted \subseteq Msgs /\ promised \in [Msgs -> Nat]
  /\ posts \in Nat /\ crashes \in Nat /\ touches \in Nat

(* The claim ledger makes redelivery harmless: whatever duplicate jobs,
   retries and concurrent double runs of a stalled job do, a message's rows
   are committed by at most one transaction, the one that claims it
   (inbound.ts:19-20, idempotency.ts:5-8). *)
EffectsAtMostOnce ==
  /\ messages = ledger
  /\ \A m \in Msgs : /\ usage[m] <= 1 /\ workflowRuns[m] <= 1
                     /\ m \notin ledger => usage[m] = 0 /\ workflowRuns[m] = 0

(* A completed job's message was handled: a run that finds the event already
   claimed only ends the job when the claiming transaction has committed, so
   the message cannot be lost with a transaction that rolls back later. *)
CompletedIsCommitted ==
  \A m \in Msgs : job[m] = "completed" => m \in ledger

(* Concurrent messages of one contact never open two conversations: the
   SELECT-then-INSERT of inbound.ts:33-52 relies on the row lock of the contact
   upsert above it. *)
OneOpenConversation ==
  \A i, j \in 1..Len(convs) :
    /\ convs[i].contact = convs[j].contact
    /\ convs[i].status # "closed" /\ convs[j].status # "closed"
    => i = j

(* "human owns it - never auto-reply" (inbound.ts:62): no transaction about to
   commit has run the agent or has replies for a conversation that a human
   owns, although the status was read some statements earlier. *)
HumanOwnedIsSilent ==
  \A w \in Workers :
    /\ pc[w] = "commit" /\ conv[w] # 0
    /\ convs[conv[w]].status = "human"
    => plan[w].replies = 0 /\ ~plan[w].ai

(* Replies go to the outbound queue after the commit, in order and never
   twice, also when the job is retried after a failed enqueue
   (inbound.ts:164-174). *)
RepliesOnceInOrder ==
  \A m \in Msgs :
    /\ Len(queued[m]) <= promised[m]
    /\ \A i \in 1..Len(queued[m]) : queued[m][i] = i

(* A message Meta was told is received is eventually handled, unless its job
   runs out of attempts (app.ts:73-95, meta.ts:97-140, queues.ts:19): neither
   what stands before it in the POST nor a lock wait, crash or stall leaves it
   behind for ever. *)
AckedIsHandled ==
  \A m \in Msgs : m \in acked ~> m \in ledger \cup exhausted

Log == INSTANCE ConversationLog WITH handled <- ledger

(* The interleaved statements of concurrent transactions, with their retries
   and double runs, amount to handling each message at most once and
   atomically (ConversationLog): the new conversation, the hand-off and the
   replies of a message are those of one step on the latest conversation. *)
ImplementsLog == Log!Spec

-----------------------------------------------------------------------------
(* What the repository says and the code does not do. *)

(* inbound.ts:13-15 describes one pipeline ending in "outbound enqueue", and
   idempotency.ts:5-6 a claim made "inside the same transaction as the side
   effect": all the replies of a claimed message
   have been queued when its job is recorded as completed and no slot works on
   it any more. *)
CommittedRepliesAreQueued ==
  \A m \in Msgs :
    job[m] = "completed" /\ (\A w \in Workers : msg[w] # m)
      => Len(queued[m]) = promised[m]

=============================================================================
