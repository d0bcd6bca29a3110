------------------------------ MODULE AgentRun ------------------------------
(***************************************************************************)
(* The AI answer to one inbound message the bot owns: runAgent              *)
(* (packages/ai/src/agent.ts) with its router, tools and guardrail, inside  *)
(* the transaction of processInboundMessage (apps/worker/src/processors/    *)
(* inbound.ts), on the provider adapters openai.ts and anthropic.ts.        *)
(* The model is external and may ask for any tools and say anything.        *)
(* Meanwhile the outbound queue records replies to earlier messages.        *)
(*                                                                          *)
(* A claim is the digit string of an amount in a text, which is all the     *)
(* guardrail compares.  InboundPipeline models the claim of the message,    *)
(* the locks and the queue, LlmSettings where the route comes from; here    *)
(* the job runs alone, on any route the settings may give it.               *)
(***************************************************************************)
EXTENDS Integers, Sequences

CONSTANTS
  Facts,          \* claims the tenant's catalog and orders support
  Invented,       \* a claim nothing in the database supports
  Deployments,    \* sets of providers a worker may have API keys for
  Tools,          \* tools the model may call
  MaxIterations,  \* MAX_TOOL_ITERATIONS
  HistoryWindow,  \* HISTORY_WINDOW
  Earlier,        \* text messages of the conversation sent before this one
  HasText,        \* the message is a text (a photo or a location has no body)
  MaxAttempts,    \* BullMQ attempts of the job (5 in queues.ts)
  MaxCalls,       \* bound: tool calls in one answer of the model
  MaxReplies      \* bound: replies recorded meanwhile

(* Tools that only answer that they are not available.  apply_discount repeats
   the code the model gave it. *)
Disabled == {"create_checkout_link", "apply_discount", "schedule_followup", "unknown"}
(* Tools that run a statement, which can fail: on an argument of the model's
   choice (a maxResults that is not a number, a productId that is not a uuid), on
   a timeout. *)
Stating == {"search_products", "get_product_details", "get_order_status", "handoff_to_human"}
AllTools == Disabled \cup Stating

Providers == {"anthropic", "openai"}

(* finish_reason and stop_reason as CompletionResponse has them; "other" is any
   reason the adapter does not know, such as a pause. *)
NormalizeFinishReason ==
  [stop |-> "end_turn", tool_calls |-> "tool_use", length |-> "max_tokens",
   content_filter |-> "refusal", other |-> "other"]
NormalizeStopReason ==
  [end_turn |-> "end_turn", stop_sequence |-> "end_turn", tool_use |-> "tool_use",
   max_tokens |-> "max_tokens", refusal |-> "refusal", other |-> "other"]
StopReasons(provider) == IF provider = "openai" THEN NormalizeFinishReason ELSE NormalizeStopReason

ASSUME AgentAssumption ==
  /\ Invented \notin Facts
  /\ Tools \subseteq AllTools
  /\ Deployments \subseteq SUBSET Providers
  /\ MaxIterations \in Nat \ {0} /\ HistoryWindow \in Nat \ {0}
  /\ MaxAttempts \in Nat \ {0} /\ MaxCalls \in Nat \ {0}
  /\ Earlier \in Nat /\ MaxReplies \in Nat /\ HasText \in BOOLEAN

Claims == Facts \cup {Invented}

(* `reply: ""` *)
NoText == [text |-> FALSE, claims |-> {}]
Text(claims) == [text |-> TRUE, claims |-> claims]
Texts == {NoText} \cup {Text(c) : c \in SUBSET Claims}

VARIABLES
  registered,     \* the providers this worker has API keys for
  recorded,       \* replies the outbound queue has added to the transcript
  pc,             \* the job: waiting, a step of its processor, done, failed
  attempts,       \* attempts that threw
  route,          \* the provider of the attempt's route
  messages,       \* the transcript the provider is sent
  i, calls,       \* completions of the loop so far; tool calls still to execute
  handoff,        \* runAgent's flag
  toolOutputs,    \* claims in its toolOutputs
  txOk,           \* no statement of the transaction has failed
  result,         \* AgentRunResult, once the loop has ended
  status,         \* conversations.status, committed
  metered,        \* quantity of the committed usage_events row, in completions
  sent,           \* the text handed to the outbound queue
  completions,    \* history: completions of each attempt
  asked,          \* history: the model asked for a human this attempt
  observed        \* history: claims the tools reported without an error this attempt

runVars == <<route, messages, i, calls, handoff, toolOutputs, txOk, result, asked, observed>>
dbVars  == <<status, metered, sent>>
vars == <<registered, recorded, pc, attempts, runVars, dbVars, completions>>

NoResult == [reply |-> NoText, handoff |-> FALSE, findings |-> {}, usage |-> 0]

NewRun ==
  /\ messages' = <<>>
  /\ i' = 0 /\ calls' = <<>> /\ handoff' = FALSE /\ toolOutputs' = {}
  /\ txOk' = TRUE /\ result' = NoResult /\ asked' = FALSE /\ observed' = {}

Init ==
  /\ registered \in Deployments /\ recorded = 0
  /\ pc = "waiting" /\ attempts = 0
  /\ route = "anthropic" /\ messages = <<>>
  /\ i = 0 /\ calls = <<>> /\ handoff = FALSE /\ toolOutputs = {}
  /\ txOk = TRUE /\ result = NoResult /\ asked = FALSE /\ observed = {}
  /\ status = "bot" /\ metered = 0 /\ sent = NoText
  /\ completions = [a \in 1..MaxAttempts |-> 0]

Running == pc \in {"complete", "tools", "meter", "commit"}

-----------------------------------------------------------------------------
(* Meanwhile. *)

(* The outbound processor records a reply to an earlier message, with ts = now():
   later than the timestamp the customer's phone gave to this message. *)
RecordReply ==
  /\ recorded < MaxReplies
  /\ recorded' = recorded + 1
  /\ UNCHANGED <<registered, pc, attempts, runVars, dbVars, completions>>

-----------------------------------------------------------------------------
(* The attempt. *)

ChatMessage(role, content) == [role |-> role, content |-> content]
Assistant(toolCalls) == [role |-> "assistant", toolCalls |-> toolCalls]
ToolMessage(id) == [role |-> "tool", toolCallId |-> id]

(* Rows with a body, in the order of ts. *)
Transcript ==
  [k \in 1..Earlier |-> ChatMessage("user", "earlier")]
    \o (IF HasText THEN <<ChatMessage("user", "current")>> ELSE <<>>)
    \o [k \in 1..recorded |-> ChatMessage("assistant", "reply")]

LastOf(rows, n) == SubSeq(rows, IF Len(rows) > n THEN Len(rows) - n + 1 ELSE 1, Len(rows))

(* ORDER BY ts DESC LIMIT, reverse(), slice(0, -1). *)
History ==
  LET recent == LastOf(Transcript, HistoryWindow)
  IN  SubSeq(recent, 1, Len(recent) - 1)

Start(provider) ==
  /\ pc = "waiting"
  /\ route' = provider
  /\ messages' = Append(History, ChatMessage("user", "current"))
  /\ pc' = "complete"
  /\ UNCHANGED <<registered, recorded, attempts, i, calls, handoff, toolOutputs, txOk, result,
                 asked, observed, dbVars, completions>>

FailUncounted ==
  /\ pc' = IF attempts + 1 < MaxAttempts THEN "waiting" ELSE "failed"
  /\ NewRun
  /\ UNCHANGED <<registered, recorded, attempts, route, dbVars>>

(* The attempt throws: the transaction rolls back, the run is forgotten, and the
   job is retried or fails for good. *)
Fail ==
  /\ attempts' = attempts + 1
  /\ pc' = IF attempts + 1 < MaxAttempts THEN "waiting" ELSE "failed"
  /\ NewRun
  /\ UNCHANGED <<registered, recorded, route, dbVars>>

(* A statement fails, the connection is lost, the provider answers an error. *)
Throw == Running /\ Fail /\ UNCHANGED completions

(* resolve() of a route whose provider is not registered. *)
NoProvider ==
  /\ pc = "complete" /\ i < MaxIterations /\ route \notin registered
  /\ Fail /\ UNCHANGED completions

Findings(reply) == reply.claims \ toolOutputs

ResultWithLastUsage(reply) ==
  [reply |-> reply, handoff |-> handoff, findings |-> Findings(reply), usage |-> 1]

Result(reply) ==
  [reply |-> reply, handoff |-> handoff,
   findings |-> Findings(reply), usage |-> i + 1]

CanCompleteOnceMore == i <= MaxIterations
CanComplete == i < MaxIterations

(* The provider answers, and is paid for it. *)
Answered(reason) ==
  /\ pc = "complete" /\ CanComplete /\ route \in registered
  /\ reason \in DOMAIN StopReasons(route)
  /\ completions' = [completions EXCEPT ![attempts + 1] = @ + 1]

(* The OpenAI adapter throws on tool arguments that are not JSON, whatever the
   reason the answer ended for: max_tokens cuts them short. *)
CompleteMalformed(reason) ==
  /\ route = "openai" /\ Answered(reason)
  /\ Fail

(* An answer that ended for another reason than its tool calls, or has none: a
   text or nothing.  The tool calls it has are dropped. *)
CompleteText(reason, reply, hasCalls) ==
  /\ Answered(reason)
  /\ StopReasons(route)[reason] # "tool_use" \/ ~hasCalls
  /\ result' = Result(reply)
  /\ pc' = "meter"
  /\ UNCHANGED <<registered, recorded, attempts, route, messages, i, calls, handoff,
                 toolOutputs, txOk, dbVars, asked, observed>>

(* The model asks for tools.  What it says with them is never sent. *)
CompleteTools(reason, requested) ==
  /\ Answered(reason)
  /\ StopReasons(route)[reason] = "tool_use"
  /\ i' = i + 1
  /\ calls' = [k \in DOMAIN requested |-> [id |-> <<i, k>>, name |-> requested[k]]]
  /\ messages' = Append(messages, Assistant(calls'))
  /\ pc' = "tools"
  /\ UNCHANGED <<registered, recorded, attempts, route, handoff, toolOutputs,
                 txOk, result, dbVars, asked, observed>>

CapWithoutHandoff ==
  /\ pc = "complete" /\ ~CanComplete
  /\ result' = [NoResult EXCEPT !.handoff = handoff, !.usage = i]
  /\ pc' = "meter"
  /\ UNCHANGED <<registered, recorded, attempts, route, messages, i, calls, handoff,
                 toolOutputs, txOk, dbVars, completions, asked, observed>>

(* The iteration cap: no reply, and a human takes over. *)
Cap ==
  /\ pc = "complete" /\ ~CanComplete
  /\ result' = [NoResult EXCEPT !.handoff = TRUE, !.usage = i]
  /\ pc' = "meter"
  /\ UNCHANGED <<registered, recorded, attempts, route, messages, i, calls, handoff,
                 toolOutputs, txOk, dbVars, completions, asked, observed>>

-----------------------------------------------------------------------------
(* Tools. *)

ToolResult(claims, isError, ok) == [claims |-> claims, isError |-> isError, ok |-> ok]

(* What a call can return, with its effect on the transaction: a failed
   statement leaves it aborted, and every later one fails too.  The agent
   catches the exception and reports it to the model. *)
Results(name) ==
  LET echo == IF name = "apply_discount" THEN SUBSET {Invented} ELSE {{}}
      rows == {ToolResult(c, FALSE, TRUE) : c \in SUBSET Facts}
      done == CASE name = "handoff_to_human"    -> {ToolResult({}, FALSE, TRUE)}
                [] name = "get_product_details" -> rows \cup {ToolResult({}, TRUE, TRUE)}
                [] OTHER                        -> rows
  IN  IF name \in Disabled THEN {ToolResult(c, TRUE, txOk) : c \in echo}
      ELSE {ToolResult({}, TRUE, FALSE)} \cup (IF txOk THEN done ELSE {})

PushAnyOutput(r) == toolOutputs \cup r.claims
PushOutput(r) == IF r.isError THEN toolOutputs ELSE toolOutputs \cup r.claims

PushResultUnlessError(r) ==
  IF r.isError THEN messages ELSE Append(messages, ToolMessage(Head(calls).id))
PushResult(r) == Append(messages, ToolMessage(Head(calls).id))

ExecuteTool(r) ==
  /\ pc = "tools" /\ calls # <<>>
  /\ r \in Results(Head(calls).name)
  /\ handoff' = (handoff \/ Head(calls).name = "handoff_to_human")
  /\ asked' = (asked \/ Head(calls).name = "handoff_to_human")
  /\ toolOutputs' = PushOutput(r)
  /\ observed' = IF r.isError THEN observed ELSE observed \cup r.claims
  /\ txOk' = r.ok
  /\ messages' = PushResult(r)
  /\ calls' = Tail(calls)
  /\ pc' = IF Len(calls) = 1 THEN "complete" ELSE "tools"
  /\ UNCHANGED <<registered, recorded, attempts, route, i, result, dbVars, completions>>

-----------------------------------------------------------------------------
(* After the loop: metering, the pause, the commit. *)

MeterIgnoringErrors ==
  /\ pc = "meter" /\ pc' = "commit"
  /\ UNCHANGED <<registered, recorded, attempts, runVars, dbVars, completions>>

(* INSERT INTO usage_events, in the transaction the tools used. *)
Meter ==
  /\ pc = "meter" /\ txOk
  /\ pc' = "commit"
  /\ UNCHANGED <<registered, recorded, attempts, runVars, dbVars, completions>>

MeterAborted == pc = "meter" /\ ~txOk /\ Fail /\ UNCHANGED completions

(* UPDATE conversations when the bot hands off, COMMIT; the findings of the
   guardrail are logged and the reply goes to the outbound queue. *)
Commit ==
  /\ pc = "commit"
  /\ status' = IF result.handoff THEN "human" ELSE status
  /\ metered' = result.usage
  /\ sent' = result.reply
  /\ pc' = "done"
  /\ UNCHANGED <<registered, recorded, attempts, runVars, completions>>

Complete ==
  \/ NoProvider
  \/ \E reason \in DOMAIN StopReasons(route) :
       \/ CompleteMalformed(reason)
       \/ \E reply \in Texts, hasCalls \in BOOLEAN : CompleteText(reason, reply, hasCalls)
       \/ \E n \in 1..MaxCalls : \E requested \in [1..n -> Tools] :
            CompleteTools(reason, requested)
  \/ Cap

Step ==
  \/ \E provider \in Providers : Start(provider)
  \/ Complete
  \/ \E name \in Tools : \E r \in Results(name) : ExecuteTool(r)
  \/ Meter \/ MeterAborted
  \/ Commit
  \/ Throw

Next ==
  \/ Step
  \/ RecordReply

Spec == Init /\ [][Next]_vars

(* The worker keeps taking waiting jobs, and every await of the processor
   answers or throws: Postgres and the provider clients have timeouts. *)
FairSpec == Spec /\ WF_vars(Step)
-----------------------------------------------------------------------------
(* Properties. *)

(* The ranges of the state; a run makes no more completions than the cap allows. *)
TypeOK ==
  /\ registered \in Deployments /\ recorded \in 0..MaxReplies
  /\ pc \in {"waiting", "complete", "tools", "meter", "commit", "done", "failed"}
  /\ attempts \in 0..MaxAttempts
  /\ route \in Providers /\ i \in 0..MaxIterations
  /\ calls \in Seq([id : (0..MaxIterations - 1) \X (1..MaxCalls), name : Tools])
  /\ \A k \in DOMAIN messages : messages[k].role \in {"user", "assistant", "tool"}
  /\ handoff \in BOOLEAN /\ txOk \in BOOLEAN /\ asked \in BOOLEAN
  /\ toolOutputs \subseteq Claims /\ observed \subseteq Claims
  /\ result \in [reply : Texts, handoff : BOOLEAN, findings : SUBSET Claims,
                  usage : 0..MaxIterations]
  /\ status \in {"bot", "human"} /\ metered \in 0..MaxIterations /\ sent \in Texts
  /\ completions \in [1..MaxAttempts -> 0..MaxIterations]

(* What is committed is of one run, the attempt whose reply is sent: its usage
   counts all the completions of that attempt and no others, and a human takes
   over exactly when it asked for one, whether or not the tool's own update
   worked, or used up its iterations ("fail safe to a human", agent.ts:102).  An
   attempt that threw leaves no usage, no pause and no reply (inbound.ts:114-160). *)
OneRunIsCommitted ==
  /\ pc = "done" => /\ metered = completions[attempts + 1]
                    /\ status = "human" <=> asked \/ i = MaxIterations
  /\ pc # "done" => metered = 0 /\ status = "bot" /\ sent = NoText

(* A tool whose statement failed never leads to an answer, although the agent
   loop catches the exception and goes on: its transaction cannot commit. *)
NoAnswerAfterFailedStatement == pc = "done" => txOk

(* Whatever the model does with its tools, an amount of the reply that no
   successful tool result of the same attempt contained is flagged. *)
UnsupportedClaimsAreFlagged ==
  pc = "done" => (sent.claims \ observed) \subseteq result.findings

(* What a provider is asked to complete has after each assistant turn the
   results of its tool calls, of failed tools too, in order and nothing in
   between: the providers refuse any other transcript (agent.ts:79-98,
   openai.ts:68-90, anthropic.ts:88-90). *)
TranscriptAnswersEveryCall ==
  pc = "complete" =>
    \A k \in DOMAIN messages : messages[k].role = "assistant" /\ "toolCalls" \in DOMAIN messages[k] =>
      \A c \in DOMAIN messages[k].toolCalls :
        k + c <= Len(messages) /\ messages[k + c] = ToolMessage(messages[k].toolCalls[c].id)

(* The agent answers, hands off or fails: it never loops. *)
RunEnds == <>(pc \in {"done", "failed"})

(* inbound.ts:72: "current inbound goes in as inboundText, not history". *)
HistoryLeavesOutCurrent ==
  LET Current == {k \in DOMAIN messages : messages[k] = ChatMessage("user", "current")}
  IN  \A j, k \in Current : j = k
=============================================================================
