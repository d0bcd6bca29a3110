-------------------------- MODULE OutboundDelivery --------------------------
(***************************************************************************)
(* The outbound queue: processOutboundMessage (apps/worker/src/processors/  *)
(* outbound.ts) checks the send policy of packages/channels/src/window.ts   *)
(* in one transaction, calls Meta, and records the message and its usage in *)
(* another.  Time passes between any two steps.                             *)
(*                                                                          *)
(* One contact.  A job whose `to` is not spelled like contacts.wa_phone     *)
(* finds no contact row, whoever the customer is.                           *)
(***************************************************************************)
EXTENDS Integers, FiniteSets

CONSTANTS
  Jobs,          \* jobs on the outbound queue
  KindOf,        \* [Jobs -> Kinds]
  FindsContact,  \* jobs whose `to` equals the contact's wa_phone
  InTranscript,  \* jobs with a conversationId
  Senders,       \* concurrent job slots
  Window,        \* SERVICE_WINDOW_MS, in ticks of the clock
  MaxStalled,    \* BullMQ maxStalledCount (library default 1)
  MaxClock,      \* bound: ticks
  MaxFailures,   \* bound: throws and crashes
  NoJob, NoSender

Kinds == {"freeform", "template_utility", "template_marketing"}

ASSUME OutboundAssumption ==
  /\ KindOf \in [Jobs -> Kinds]
  /\ FindsContact \subseteq Jobs /\ InTranscript \subseteq Jobs
  /\ IsFiniteSet(Senders) /\ Window \in Nat \ {0} /\ MaxStalled \in Nat
  /\ MaxClock \in Nat \ {0} /\ MaxFailures \in Nat
  /\ NoJob \notin Jobs /\ NoSender \notin Senders

VARIABLES
  clock,         \* now
  written,       \* when the customer wrote
  lastInbound,   \* contacts.last_inbound_at; 0 when null
  optIn,         \* contacts.opt_in, which nothing in the repository changes
  credentials,   \* the channel has credentials_enc, the same
  job, owner, stalls,  \* the BullMQ jobs
  pc, cur,       \* each slot: its step and its job
  delivered,     \* times Meta accepted the message of a job
  transcript,    \* outbound rows of the messages table for a job
  usage,         \* wa_message usage_events rows for a job
  blocked,       \* history: jobs a policy check refused
  failures

contactVars == <<written, lastInbound, optIn, credentials>>
jobVars     == <<job, owner, stalls>>
slotVars    == <<pc, cur>>
sendVars    == <<delivered, transcript, usage>>
vars == <<clock, contactVars, jobVars, slotVars, sendVars, blocked, failures>>

Init ==
  /\ clock = 1 /\ written = {} /\ lastInbound = 0 /\ optIn \in BOOLEAN /\ credentials \in BOOLEAN
  /\ job = [j \in Jobs |-> "waiting"]
  /\ owner = [j \in Jobs |-> NoSender]
  /\ stalls = [j \in Jobs |-> 0]
  /\ pc = [s \in Senders |-> "idle"]
  /\ cur = [s \in Senders |-> NoJob]
  /\ delivered = [j \in Jobs |-> 0]
  /\ transcript = [j \in Jobs |-> 0]
  /\ usage = [j \in Jobs |-> 0]
  /\ blocked = {} /\ failures = 0

-----------------------------------------------------------------------------
(* checkSendPolicy and isWithinServiceWindow.  Variants no action uses, here and
   below, are the bugs the mutants put in. *)

IsWithinWindowInclusive(lastInboundAt, now) ==
  lastInboundAt # 0 /\ now - lastInboundAt <= Window

IsWithinServiceWindow(lastInboundAt, now) ==
  lastInboundAt # 0 /\ now - lastInboundAt < Window

Allowed(kind, lastInboundAt, optedIn, now) ==
  CASE kind = "freeform" -> IsWithinServiceWindow(lastInboundAt, now)
    [] kind = "template_utility" -> TRUE
    [] kind = "template_marketing" -> optedIn

(* What the SELECT by wa_phone finds of the contact. *)
CheckSendPolicy(j) ==
  IF j \in FindsContact THEN Allowed(KindOf[j], lastInbound, optIn, clock)
                        ELSE Allowed(KindOf[j], 0, FALSE, clock)

-----------------------------------------------------------------------------
TakeJob(s, j) ==
  /\ pc[s] = "idle" /\ job[j] = "waiting"
  /\ job' = [job EXCEPT ![j] = "active"]
  /\ owner' = [owner EXCEPT ![j] = s]
  /\ pc' = [pc EXCEPT ![s] = "prepare"]
  /\ cur' = [cur EXCEPT ![s] = j]
  /\ UNCHANGED <<clock, contactVars, stalls, sendVars, blocked, failures>>

(* A blocked job is done; without credentials the handler throws. *)
Prepare(s) ==
  /\ pc[s] = "prepare"
  /\ IF CheckSendPolicy(cur[s])
       THEN /\ credentials
            /\ pc' = [pc EXCEPT ![s] = "send"]
            /\ UNCHANGED blocked
       ELSE /\ pc' = [pc EXCEPT ![s] = "done"]
            /\ blocked' = blocked \cup {cur[s]}
  /\ UNCHANGED <<clock, contactVars, jobVars, cur, sendVars, failures>>

SendIgnoringErrors(s) ==
  /\ pc[s] = "send"
  /\ \E accepted \in {0, 1} : delivered' = [delivered EXCEPT ![cur[s]] = @ + accepted]
  /\ pc' = [pc EXCEPT ![s] = "record"]
  /\ UNCHANGED <<clock, contactVars, jobVars, cur, transcript, usage, blocked, failures>>

(* What becomes of the POST of sendText or sendTemplate: an id, an error, or no
   answer send() can read to a message Meta has accepted all the same. *)
MetaAnswers ==
  {[accepted |-> TRUE, id |-> TRUE], [accepted |-> FALSE, id |-> FALSE],
   [accepted |-> TRUE, id |-> FALSE]}

Send(s) ==
  /\ pc[s] = "send"
  /\ delivered' = [delivered EXCEPT ![cur[s]] = @ + 1]
  /\ pc' = [pc EXCEPT ![s] = "record"]
  /\ UNCHANGED <<clock, contactVars, jobVars, cur, transcript, usage, blocked, failures>>

Record(s) ==
  /\ pc[s] = "record"
  /\ transcript' = [transcript EXCEPT ![cur[s]] = @ + (IF cur[s] \in InTranscript THEN 1 ELSE 0)]
  /\ usage' = [usage EXCEPT ![cur[s]] = @ + 1]
  /\ pc' = [pc EXCEPT ![s] = "done"]
  /\ UNCHANGED <<clock, contactVars, jobVars, cur, delivered, blocked, failures>>

-----------------------------------------------------------------------------
(* BullMQ.  The worker's own queues have no job options, so an outbound job
   has one attempt: a throw is final.  A lost lock brings the job back, at
   most MaxStalled times. *)

FreeSlot(s) ==
  /\ pc' = [pc EXCEPT ![s] = "idle"]
  /\ cur' = [cur EXCEPT ![s] = NoJob]

Settle(s, state) ==
  IF owner[cur[s]] = s
    THEN /\ job' = [job EXCEPT ![cur[s]] = state]
         /\ owner' = [owner EXCEPT ![cur[s]] = NoSender]
    ELSE UNCHANGED <<job, owner>>

Finish(s) ==
  /\ pc[s] = "done"
  /\ Settle(s, "completed") /\ FreeSlot(s)
  /\ UNCHANGED <<clock, contactVars, stalls, sendVars, blocked, failures>>

(* The run ends early: on an error, such as any answer of Meta without an id, or
   because the process dies. *)
Abort(s) ==
  /\ failures < MaxFailures
  /\ failures' = failures + 1
  /\ \E answer \in MetaAnswers :
       /\ ~answer.id
       /\ delivered' = [delivered EXCEPT ![cur[s]] =
                          @ + (IF pc[s] = "send" /\ answer.accepted THEN 1 ELSE 0)]
  /\ FreeSlot(s)
  /\ UNCHANGED <<clock, contactVars, stalls, transcript, usage, blocked>>

ThrowWithRetries(s) ==
  pc[s] \in {"prepare", "send", "record"} /\ Abort(s) /\ Settle(s, "waiting")
ThrowSwallowed(s) ==
  pc[s] \in {"prepare", "send", "record"} /\ Abort(s) /\ Settle(s, "completed")

Throw(s) ==
  pc[s] \in {"prepare", "send", "record"} /\ Abort(s) /\ Settle(s, "failed")

(* outbound.ts:35: always enabled where it applies. *)
ThrowNoCredentials(s) ==
  /\ pc[s] = "prepare" /\ CheckSendPolicy(cur[s]) /\ ~credentials
  /\ Settle(s, "failed") /\ FreeSlot(s)
  /\ UNCHANGED <<clock, contactVars, stalls, sendVars, blocked, failures>>

Crash(s) ==
  pc[s] # "idle" /\ Abort(s) /\ UNCHANGED <<job, owner>>

StallWithoutFailing(j) ==
  /\ job[j] = "active" /\ stalls[j] < MaxStalled
  /\ job' = [job EXCEPT ![j] = "waiting"]
  /\ owner' = [owner EXCEPT ![j] = NoSender]
  /\ stalls' = [stalls EXCEPT ![j] = @ + 1]
  /\ UNCHANGED <<clock, contactVars, slotVars, sendVars, blocked, failures>>

StallUnknownState(j) ==
  /\ job[j] = "active"
  /\ job' = [job EXCEPT ![j] = "stalled"]
  /\ owner' = [owner EXCEPT ![j] = NoSender]
  /\ stalls' = [stalls EXCEPT ![j] = @ + 1]
  /\ UNCHANGED <<clock, contactVars, slotVars, sendVars, blocked, failures>>

Stall(j) ==
  /\ job[j] = "active"
  /\ job' = [job EXCEPT ![j] = IF stalls[j] < MaxStalled THEN "waiting" ELSE "failed"]
  /\ owner' = [owner EXCEPT ![j] = NoSender]
  /\ stalls' = [stalls EXCEPT ![j] = @ + 1]
  /\ UNCHANGED <<clock, contactVars, slotVars, sendVars, blocked, failures>>

-----------------------------------------------------------------------------
(* The rest of the system. *)

Tick ==
  /\ clock < MaxClock
  /\ clock' = clock + 1
  /\ UNCHANGED <<contactVars, jobVars, slotVars, sendVars, blocked, failures>>

(* External: the customer writes; the message is handled later. *)
CustomerWrites ==
  /\ clock \notin written
  /\ written' = written \cup {clock}
  /\ UNCHANGED <<clock, lastInbound, optIn, credentials, jobVars, slotVars, sendVars, blocked, failures>>

(* The inbound path overwrites last_inbound_at with a message's timestamp,
   which may be older than the one it replaces.  Messages of one tick are many. *)
Inbound(ts) ==
  /\ ts \in written
  /\ lastInbound' = ts
  /\ UNCHANGED <<clock, written, optIn, credentials, jobVars, slotVars, sendVars, blocked, failures>>

SlotStep(s) ==
  \/ Prepare(s) \/ ThrowNoCredentials(s) \/ Send(s) \/ Record(s) \/ Finish(s)

Next ==
  \/ \E s \in Senders : SlotStep(s) \/ Throw(s) \/ Crash(s) \/ \E j \in Jobs : TakeJob(s, j)
  \/ \E j \in Jobs : Stall(j)
  \/ CustomerWrites \/ \E ts \in written : Inbound(ts)
  \/ Tick

Spec == Init /\ [][Next]_vars

Abandoned(j) == \A s \in Senders : owner[j] = s => cur[s] # j

Fairness ==
  /\ \A s \in Senders : WF_vars(SlotStep(s))
  /\ \A j \in Jobs : WF_vars(\E s \in Senders : TakeJob(s, j))
  /\ \A j \in Jobs : WF_vars(Abandoned(j) /\ Stall(j))

FairSpec == Spec /\ Fairness

-----------------------------------------------------------------------------
TypeOK ==
  /\ clock \in Nat \ {0} /\ written \subseteq Nat \ {0} /\ lastInbound \in Nat
  /\ optIn \in BOOLEAN /\ credentials \in BOOLEAN
  /\ job \in [Jobs -> {"waiting", "active", "completed", "failed"}]
  /\ owner \in [Jobs -> Senders \cup {NoSender}] /\ stalls \in [Jobs -> Nat]
  /\ pc \in [Senders -> {"idle", "prepare", "send", "record", "done"}]
  /\ cur \in [Senders -> Jobs \cup {NoJob}]
  /\ delivered \in [Jobs -> Nat] /\ transcript \in [Jobs -> Nat] /\ usage \in [Jobs -> Nat]
  /\ blocked \subseteq Jobs /\ failures \in Nat

(* A customer never gets one queued message more often than the job may be
   started: once, and once more for each stall BullMQ forgives.  Errors never
   repeat a message, because the jobs the worker queues have one attempt
   (index.ts:23-25, outbound.ts:46-50). *)
DeliveriesAreBounded ==
  \A j \in Jobs : delivered[j] <= 1 + MaxStalled

(* A tenant is never billed for more messages than Meta accepted, and the
   transcript never shows one more often than it was delivered, whatever
   failed, crashed or ran twice (outbound.ts:48-66). *)
NeverOverbilled ==
  \A j \in Jobs : usage[j] <= delivered[j] /\ transcript[j] <= usage[j]

(* A job recorded as completed did its work: policy refused it, or Meta
   accepted it and its usage is recorded.  A run that lost the job to a stall
   cannot complete it for the run that follows (outbound.ts:24-27, 46-66). *)
CompletedIsAccounted ==
  \A j \in Jobs : job[j] = "completed" => j \in blocked \/ (delivered[j] > 0 /\ usage[j] > 0)

(* A free-form message passes the policy only while the customer really wrote
   less than a window ago, however late and in whatever order the messages were
   handled: last_inbound_at is the time of a message, never of its handling
   (inbound.ts:21-26, window.ts:27-30). *)
WindowIsSound ==
  [][\A s \in Senders :
       pc[s] = "prepare" /\ pc'[s] = "send" /\ KindOf[cur[s]] = "freeform" =>
         \E ts \in written : clock - ts < Window]_vars

(* Every queued message comes to an end: sent, blocked or failed. *)
JobsEnd == <>(\A j \in Jobs : job[j] \in {"completed", "failed"})

=============================================================================
