--------------------------- MODULE AgentRunProofs ---------------------------
(***************************************************************************)
(* The agent run for any tools, facts, texts, iterations, attempts and      *)
(* history: what is committed belongs to one attempt, an aborted            *)
(* transaction never answers, unsupported amounts are flagged, and the      *)
(* model is asked with a result for every tool call.                        *)
(***************************************************************************)
EXTENDS AgentRun, SequenceTheorems, TLAPS

USE AgentAssumption

PcStates == {"waiting", "complete", "tools", "meter", "commit", "done", "failed"}
Looping == {"complete", "tools"}
Ended == {"meter", "commit", "done"}

(* The attempts: the next one has no completion yet. *)
AttemptInv ==
  /\ pc \in PcStates /\ attempts \in 0..MaxAttempts /\ i \in 0..MaxIterations
  /\ pc # "failed" => attempts < MaxAttempts
  /\ completions \in [1..MaxAttempts -> Nat]
  /\ \A a \in 1..MaxAttempts : a > attempts + 1 => completions[a] = 0
  /\ pc = "waiting" => i = 0 /\ completions[attempts + 1] = 0
  /\ pc \in Looping => completions[attempts + 1] = i

(* The flags of the loop and their history agree. *)
FlagInv == handoff \in BOOLEAN /\ handoff = asked /\ toolOutputs = observed

ResultInv ==
  pc \in Ended => /\ result.usage = completions[attempts + 1]
                  /\ result.handoff <=> asked \/ i = MaxIterations
                  /\ (result.reply.claims \ observed) \subseteq result.findings

CommitInv ==
  /\ pc \in {"commit", "done"} => txOk
  /\ pc = "done" => /\ metered = result.usage /\ sent = result.reply
                    /\ status = "human" <=> result.handoff
  /\ pc # "done" => metered = 0 /\ status = "bot" /\ sent = NoText

RunInv == AttemptInv /\ FlagInv /\ ResultInv /\ CommitInv

LEMMA RunInit == Init => RunInv
<1> SUFFICES ASSUME Init PROVE RunInv
  OBVIOUS
<1>1. completions = [a \in 1..MaxAttempts |-> 0]
  BY DEF Init
<1>2. /\ completions \in [1..MaxAttempts -> Nat]
      /\ \A a \in 1..MaxAttempts : completions[a] = 0
  BY <1>1
<1>3. pc = "waiting" /\ attempts = 0 /\ i = 0
  BY DEF Init
<1>4. MaxAttempts \in Nat /\ MaxAttempts > 0 /\ MaxIterations \in Nat
  BY DEF AgentAssumption
<1>5. AttemptInv
  BY <1>2, <1>3, <1>4 DEF AttemptInv, PcStates, Looping
<1>6. FlagInv /\ ResultInv
  BY DEF Init, FlagInv, ResultInv, Ended
<1>7. CommitInv
  BY DEF Init, CommitInv
<1> QED
  BY <1>5, <1>6, <1>7 DEF RunInv

(* An attempt that throws leaves a fresh one, or none. *)
LEMMA FailKeeps ==
  ASSUME RunInv, pc \in Looping \cup {"meter", "commit"}, Fail,
         completions' \in [1..MaxAttempts -> Nat],
         \A a \in 1..MaxAttempts : a # attempts + 1 => completions'[a] = completions[a]
  PROVE  RunInv'
<1>1. attempts \in Nat /\ attempts < MaxAttempts /\ attempts' = attempts + 1 /\ i' = 0
  BY DEF RunInv, AttemptInv, Fail, NewRun, Looping
<1>2. pc' = IF attempts' < MaxAttempts THEN "waiting" ELSE "failed"
  BY DEF Fail
<1>3. \A a \in 1..MaxAttempts : a > attempts + 1 => completions'[a] = 0
  BY <1>1 DEF RunInv, AttemptInv
<1>4. AttemptInv'
  BY <1>1, <1>2, <1>3 DEF AttemptInv, PcStates, Looping
<1>5. FlagInv' /\ ResultInv'
  BY <1>2 DEF Fail, NewRun, FlagInv, ResultInv, Ended
<1>6. UNCHANGED dbVars /\ pc # "done"
  BY DEF Fail, Looping
<1>7. CommitInv'
  BY <1>2, <1>6 DEF RunInv, CommitInv, dbVars
<1> QED
  BY <1>4, <1>5, <1>7 DEF RunInv

LEMMA AnsweredEffect ==
  ASSUME RunInv, NEW reason, Answered(reason)
  PROVE  /\ pc = "complete" /\ i < MaxIterations /\ attempts < MaxAttempts
         /\ completions' \in [1..MaxAttempts -> Nat]
         /\ completions'[attempts + 1] = i + 1
         /\ \A a \in 1..MaxAttempts : a # attempts + 1 => completions'[a] = completions[a]
BY DEF RunInv, AttemptInv, Answered, CanComplete, Looping

LEMMA CompleteKeeps ==
  ASSUME RunInv, Complete
  PROVE  RunInv'
<1>1. CASE NoProvider
  <2>1. pc \in Looping /\ Fail /\ UNCHANGED completions
    BY <1>1 DEF NoProvider, Looping
  <2> QED
    BY <2>1, FailKeeps DEF RunInv, AttemptInv
<1>2. ASSUME NEW reason, CompleteMalformed(reason) PROVE RunInv'
  <2>1. Answered(reason) /\ Fail
    BY <1>2 DEF CompleteMalformed
  <2> QED
    BY <2>1, AnsweredEffect, FailKeeps DEF Looping
<1>3. ASSUME NEW reason, NEW reply \in Texts, NEW hasCalls \in BOOLEAN,
             CompleteText(reason, reply, hasCalls)
      PROVE  RunInv'
  <2>1. /\ Answered(reason) /\ pc' = "meter"
        /\ UNCHANGED <<attempts, i, handoff, asked, toolOutputs, observed, dbVars>>
        /\ result' = [reply |-> reply, handoff |-> handoff, findings |-> reply.claims \ toolOutputs,
                      usage |-> i + 1]
    BY <1>3 DEF CompleteText, Result, Findings
  <2>2. AttemptInv'
    BY <2>1, AnsweredEffect DEF RunInv, AttemptInv, PcStates, Looping
  <2>3. ResultInv'
    BY <2>1, AnsweredEffect DEF RunInv, AttemptInv, FlagInv, ResultInv
  <2>4. FlagInv' /\ CommitInv'
    BY <2>1, AnsweredEffect DEF RunInv, FlagInv, CommitInv, dbVars
  <2> QED
    BY <2>2, <2>3, <2>4 DEF RunInv
<1>4. ASSUME NEW reason, NEW requested, CompleteTools(reason, requested) PROVE RunInv'
  <2>1. /\ Answered(reason) /\ pc' = "tools" /\ i' = i + 1
        /\ UNCHANGED <<attempts, handoff, asked, toolOutputs, observed, result, dbVars>>
    BY <1>4 DEF CompleteTools
  <2>2. AttemptInv'
    BY <2>1, AnsweredEffect DEF RunInv, AttemptInv, PcStates, Looping
  <2>3. FlagInv' /\ ResultInv' /\ CommitInv'
    BY <2>1, AnsweredEffect DEF RunInv, FlagInv, ResultInv, CommitInv, dbVars, Ended
  <2> QED
    BY <2>2, <2>3 DEF RunInv
<1>5. CASE Cap
  <2>1. /\ pc = "complete" /\ i = MaxIterations /\ pc' = "meter"
        /\ result'.reply.claims = {} /\ result'.handoff = TRUE /\ result'.usage = i
        /\ UNCHANGED <<attempts, i, handoff, asked, toolOutputs, observed, completions, dbVars>>
    BY <1>5 DEF Cap, CanComplete, RunInv, AttemptInv, NoResult, NoText
  <2>2. AttemptInv'
    BY <2>1 DEF RunInv, AttemptInv, PcStates, Looping
  <2>3. ResultInv'
    BY <2>1 DEF RunInv, AttemptInv, ResultInv, Looping
  <2>4. FlagInv' /\ CommitInv'
    BY <2>1 DEF RunInv, FlagInv, CommitInv, dbVars
  <2> QED
    BY <2>2, <2>3, <2>4 DEF RunInv
<1> QED
  BY <1>1, <1>2, <1>3, <1>4, <1>5 DEF Complete

LEMMA ToolKeeps ==
  ASSUME RunInv, NEW r, ExecuteTool(r)
  PROVE  RunInv'
<1>1. /\ pc = "tools" /\ pc' \in Looping
      /\ UNCHANGED <<attempts, i, result, dbVars, completions>>
      /\ handoff' = (handoff \/ Head(calls).name = "handoff_to_human")
      /\ asked' = (asked \/ Head(calls).name = "handoff_to_human")
      /\ toolOutputs' = IF r.isError THEN toolOutputs ELSE toolOutputs \cup r.claims
      /\ observed' = IF r.isError THEN observed ELSE observed \cup r.claims
  BY DEF ExecuteTool, PushOutput, Looping
<1>2. AttemptInv'
  BY <1>1 DEF RunInv, AttemptInv, PcStates, Looping
<1>3. FlagInv'
  BY <1>1 DEF RunInv, FlagInv
<1>4. ResultInv' /\ CommitInv'
  BY <1>1 DEF RunInv, ResultInv, CommitInv, Looping, Ended, dbVars
<1> QED
  BY <1>2, <1>3, <1>4 DEF RunInv

LEMMA StepKeeps ==
  ASSUME RunInv, [Next]_vars
  PROVE  RunInv'
<1>1. ASSUME NEW provider \in Providers, Start(provider) PROVE RunInv'
  <2>1. /\ pc = "waiting" /\ pc' = "complete"
        /\ UNCHANGED <<attempts, i, handoff, asked, toolOutputs, observed, result, completions, dbVars>>
    BY <1>1 DEF Start
  <2>2. AttemptInv'
    BY <2>1 DEF RunInv, AttemptInv, PcStates, Looping
  <2>3. FlagInv' /\ ResultInv' /\ CommitInv'
    BY <2>1 DEF RunInv, FlagInv, ResultInv, CommitInv, Ended, dbVars
  <2> QED
    BY <2>2, <2>3 DEF RunInv
<1>2. CASE Meter
  <2>1. pc = "meter" /\ txOk /\ pc' = "commit" /\ UNCHANGED <<attempts, runVars, dbVars, completions>>
    BY <1>2 DEF Meter
  <2> QED
    BY <2>1 DEF RunInv, AttemptInv, FlagInv, ResultInv, CommitInv, runVars, dbVars,
                PcStates, Looping, Ended
<1>3. CASE MeterAborted
  BY <1>3, FailKeeps DEF MeterAborted, RunInv, AttemptInv
<1>4. CASE Commit
  <2>1. /\ pc = "commit" /\ pc' = "done" /\ UNCHANGED <<attempts, runVars, completions>>
        /\ metered' = result.usage /\ sent' = result.reply
        /\ status' = IF result.handoff THEN "human" ELSE status
    BY <1>4 DEF Commit
  <2>2. AttemptInv' /\ FlagInv' /\ ResultInv'
    BY <2>1 DEF RunInv, AttemptInv, FlagInv, ResultInv, runVars, PcStates, Looping, Ended
  <2>3. CommitInv'
    BY <2>1 DEF RunInv, CommitInv, runVars
  <2> QED
    BY <2>2, <2>3 DEF RunInv
<1>5. CASE Throw
  BY <1>5, FailKeeps DEF Throw, Running, Looping, RunInv, AttemptInv
<1>6. CASE RecordReply \/ UNCHANGED vars
  BY <1>6 DEF RecordReply, vars, runVars, dbVars, RunInv, AttemptInv, FlagInv, ResultInv, CommitInv
<1> QED
  BY <1>1, <1>2, <1>3, <1>4, <1>5, <1>6, CompleteKeeps, ToolKeeps DEF Next, Step

LEMMA RunInvariance == Spec => []RunInv
BY RunInit, StepKeeps, PTL DEF Spec

(* Usage, hand-off and reply are of the attempt that committed, and of no other. *)
THEOREM CommitsAreOfOneRun == Spec => []OneRunIsCommitted
<1>1. RunInv => OneRunIsCommitted
  BY DEF RunInv, ResultInv, CommitInv, OneRunIsCommitted, Ended
<1> QED
  BY <1>1, RunInvariance, PTL

(* A transaction with a failed statement never answers. *)
THEOREM FailedStatementsNeverAnswer == Spec => []NoAnswerAfterFailedStatement
<1>1. RunInv => NoAnswerAfterFailedStatement
  BY DEF RunInv, CommitInv, NoAnswerAfterFailedStatement
<1> QED
  BY <1>1, RunInvariance, PTL

(* Every amount of a sent reply that no tool of the attempt reported is among
   the findings. *)
THEOREM InventedAmountsAreFlagged == Spec => []UnsupportedClaimsAreFlagged
<1>1. RunInv => UnsupportedClaimsAreFlagged
  BY DEF RunInv, ResultInv, CommitInv, UnsupportedClaimsAreFlagged, Ended
<1> QED
  BY <1>1, RunInvariance, PTL

-----------------------------------------------------------------------------
(* The transcript: chat messages, the model's requests for tools, and their
   results.  The results that are missing at its end are those of the calls
   still to execute. *)

CallSet == [id : (0..MaxIterations - 1) \X (1..MaxCalls), name : Tools]
Chats == [role : {"user", "assistant"}, content : {"earlier", "current", "reply"}]
Requests == [role : {"assistant"}, toolCalls : Seq(CallSet)]
Answers == {ToolMessage(c.id) : c \in CallSet}
MessageSet == Chats \cup Requests \cup Answers

AnsweredOrPending(k, c) ==
  LET call == messages[k].toolCalls[c]
      left == k + c - Len(messages)
  IN  IF left <= 0 THEN messages[k + c] = ToolMessage(call.id)
      ELSE left <= Len(calls) /\ call = calls[left]

TranscriptInv ==
  /\ messages \in Seq(MessageSet) /\ calls \in Seq(CallSet)
  /\ pc \in {"waiting", "complete"} => calls = <<>>
  /\ \A k \in 1..Len(messages) : messages[k] \in Requests =>
       \A c \in 1..Len(messages[k].toolCalls) : AnsweredOrPending(k, c)

LEMMA OnlyRequestsCall ==
  ASSUME NEW m \in MessageSet, "toolCalls" \in DOMAIN m
  PROVE  m \in Requests
<1>1. CASE m \in Chats
  BY <1>1 DEF Chats
<1>2. CASE m \in Answers
  BY <1>2 DEF Answers, ToolMessage
<1> QED
  BY <1>1, <1>2 DEF MessageSet

LEMMA TranscriptType ==
  ASSUME Earlier \in Nat, recorded \in Nat
  PROVE  Transcript \in Seq(Chats)
<1>1. [k \in 1..Earlier |-> ChatMessage("user", "earlier")] \in Seq(Chats)
  BY DEF Chats, ChatMessage
<1>2. (IF HasText THEN <<ChatMessage("user", "current")>> ELSE <<>>) \in Seq(Chats)
  <2>1. <<ChatMessage("user", "current")>> \in Seq(Chats)
    BY DEF Chats, ChatMessage
  <2>2. <<>> \in Seq(Chats)
    OBVIOUS
  <2> QED
    BY <2>1, <2>2
<1>3. [k \in 1..recorded |-> ChatMessage("assistant", "reply")] \in Seq(Chats)
  BY DEF Chats, ChatMessage
<1> QED
  BY <1>1, <1>2, <1>3, ConcatProperties DEF Transcript

LEMMA HistoryType ==
  ASSUME recorded \in Nat
  PROVE  History \in Seq(Chats)
<1>1. Transcript \in Seq(Chats) /\ Len(Transcript) \in Nat
  BY TranscriptType, LenProperties DEF AgentAssumption
<1> DEFINE recent == LastOf(Transcript, HistoryWindow)
           first == IF Len(Transcript) > HistoryWindow THEN Len(Transcript) - HistoryWindow + 1 ELSE 1
<1>2. first \in Int /\ \A k \in first..Len(Transcript) : Transcript[k] \in Chats
  BY <1>1, ElementOfSeq DEF AgentAssumption
<1>3. recent \in Seq(Chats)
  BY <1>1, <1>2, SubSeqProperties DEF LastOf
<1> HIDE DEF recent
<1>4. Len(recent) \in Nat /\ \A k \in 1..Len(recent) - 1 : recent[k] \in Chats
  BY <1>3, LenProperties, ElementOfSeq
<1>5. SubSeq(recent, 1, Len(recent) - 1) \in Seq(Chats)
  BY <1>4, SubSeqProperties
<1> QED
  BY <1>5 DEF History, recent

LEMMA ChatsAreNotRequests ==
  ASSUME NEW m \in Chats
  PROVE  m \notin Requests
<1>1. DOMAIN m = {"role", "content"}
  BY DEF Chats
<1>2. m \in Requests => DOMAIN m = {"role", "toolCalls"}
  BY DEF Requests
<1> QED
  BY <1>1, <1>2

(* Chat messages alone call no tool. *)
LEMMA ChatsCallNothing ==
  ASSUME messages' \in Seq(Chats), calls' = <<>>
  PROVE  TranscriptInv'
<1>1. messages' \in Seq(MessageSet) /\ calls' \in Seq(CallSet)
  BY DEF MessageSet
<1>2. \A k \in 1..Len(messages') : messages'[k] \notin Requests
  BY ChatsAreNotRequests, ElementOfSeq
<1> QED
  BY <1>1, <1>2 DEF TranscriptInv

LEMMA TranscriptStart ==
  ASSUME TranscriptInv, recorded \in Nat, NEW provider \in Providers, Start(provider)
  PROVE  TranscriptInv'
<1>1. ChatMessage("user", "current") \in Chats
  BY DEF Chats, ChatMessage
<1>2. messages' \in Seq(Chats)
  BY <1>1, HistoryType DEF Start
<1>3. calls' = <<>>
  BY DEF Start, TranscriptInv
<1> QED
  BY <1>2, <1>3, ChatsCallNothing

LEMMA TranscriptFail ==
  ASSUME Fail
  PROVE  TranscriptInv'
<1>1. messages' \in Seq(Chats) /\ calls' = <<>>
  BY DEF Fail, NewRun
<1> QED
  BY <1>1, ChatsCallNothing

LEMMA TranscriptRequest ==
  ASSUME TranscriptInv, i \in Nat, NEW reason, NEW n \in 1..MaxCalls, NEW requested \in [1..n -> Tools],
         CompleteTools(reason, requested)
  PROVE  TranscriptInv'
<1> DEFINE turn == Assistant(calls')
<1>1. /\ pc = "complete" /\ i < MaxIterations /\ pc' = "tools" /\ calls = <<>>
      /\ calls' = [k \in 1..n |-> [id |-> <<i, k>>, name |-> requested[k]]]
      /\ messages' = Append(messages, turn)
  BY DEF CompleteTools, Answered, CanComplete, TranscriptInv
<1>2. calls' \in Seq(CallSet) /\ Len(calls') = n /\ n \in Nat
  <2>1. \A k \in 1..n : [id |-> <<i, k>>, name |-> requested[k]] \in CallSet
    BY <1>1 DEF CallSet, AgentAssumption
  <2> QED
    BY <1>1, <2>1
<1>3. turn \in Requests /\ turn.toolCalls = calls' /\ turn \in MessageSet
  BY <1>2 DEF Requests, Assistant, MessageSet
<1> HIDE DEF turn
<1>4. /\ messages \in Seq(MessageSet) /\ messages' \in Seq(MessageSet) /\ Len(messages) \in Nat
      /\ Len(messages') = Len(messages) + 1 /\ messages'[Len(messages) + 1] = turn
      /\ \A k \in 1..Len(messages) : messages'[k] = messages[k]
  BY <1>1, <1>3 DEF TranscriptInv
<1>5. ASSUME NEW k \in 1..Len(messages'), messages'[k] \in Requests, NEW c \in 1..Len(messages'[k].toolCalls)
      PROVE  AnsweredOrPending(k, c)'
  <2>0. Len(messages'[k].toolCalls) \in Nat
    BY <1>5, LenProperties DEF Requests
  <2>1. CASE k = Len(messages) + 1
    BY <1>2, <1>3, <1>4, <2>0, <2>1 DEF AnsweredOrPending
  <2>2. CASE k \in 1..Len(messages)
    <3>1. AnsweredOrPending(k, c)
      BY <1>4, <1>5, <2>2 DEF TranscriptInv
    <3>2. k + c <= Len(messages)
      BY <1>1, <1>4, <2>0, <2>2, <3>1 DEF AnsweredOrPending
    <3>3. /\ messages'[k] = messages[k] /\ k + c \in 1..Len(messages) /\ messages'[k + c] = messages[k + c]
          /\ k + c - Len(messages) <= 0 /\ k + c - Len(messages') <= 0
      BY <1>4, <2>0, <2>2, <3>2
    <3> QED
      BY <3>1, <3>3 DEF AnsweredOrPending
  <2> QED
    BY <1>4, <2>1, <2>2
<1> QED
  BY <1>1, <1>2, <1>4, <1>5 DEF TranscriptInv

LEMMA TranscriptTool ==
  ASSUME TranscriptInv, NEW r, ExecuteTool(r)
  PROVE  TranscriptInv'
<1> DEFINE answer == ToolMessage(Head(calls).id)
<1>1. /\ pc = "tools" /\ calls # <<>> /\ pc' = IF Len(calls) = 1 THEN "complete" ELSE "tools"
      /\ calls' = Tail(calls) /\ messages' = Append(messages, answer)
  BY DEF ExecuteTool, PushResult
<1>2. /\ calls \in Seq(CallSet) /\ calls' \in Seq(CallSet) /\ Len(calls) \in Nat
      /\ Len(calls') = Len(calls) - 1 /\ Head(calls) \in CallSet /\ Head(calls) = calls[1]
      /\ \A k \in 1..Len(calls') : calls'[k] = calls[k + 1]
  BY <1>1, HeadTailProperties, LenProperties DEF TranscriptInv
<1>3. answer \in MessageSet /\ answer \notin Requests
  BY <1>2 DEF MessageSet, Answers, ToolMessage, Requests
<1>4. answer = ToolMessage(calls[1].id)
  BY <1>2
<1> HIDE DEF answer
<1>5. /\ messages \in Seq(MessageSet) /\ messages' \in Seq(MessageSet) /\ Len(messages) \in Nat
      /\ Len(messages') = Len(messages) + 1 /\ messages'[Len(messages) + 1] = answer
      /\ \A k \in 1..Len(messages) : messages'[k] = messages[k]
  BY <1>1, <1>3 DEF TranscriptInv
<1>6. pc' \in {"waiting", "complete"} => calls' = <<>>
  BY <1>1, <1>2, EmptySeq
<1>7. ASSUME NEW k \in 1..Len(messages'), messages'[k] \in Requests, NEW c \in 1..Len(messages'[k].toolCalls)
      PROVE  AnsweredOrPending(k, c)'
  <2>1. k \in 1..Len(messages) /\ messages'[k] = messages[k]
    BY <1>3, <1>5, <1>7
  <2>2. AnsweredOrPending(k, c) /\ c \in Nat
    BY <1>7, <2>1, LenProperties DEF TranscriptInv, Requests
  <2>3. CASE k + c <= Len(messages)
    BY <1>5, <2>1, <2>2, <2>3 DEF AnsweredOrPending
  <2>4. CASE k + c = Len(messages) + 1
    BY <1>4, <1>5, <2>1, <2>2, <2>4 DEF AnsweredOrPending
  <2>5. CASE k + c > Len(messages) + 1
    <3> DEFINE left == k + c - Len(messages)
    <3>1. left <= Len(calls) /\ messages[k].toolCalls[c] = calls[left] /\ left \in Nat /\ left > 1
      BY <1>5, <2>1, <2>2, <2>5 DEF AnsweredOrPending
    <3>2. k + c - Len(messages') = left - 1
      BY <1>5, <2>1, <2>2
    <3> HIDE DEF left
    <3>3. left - 1 \in 1..Len(calls') /\ calls'[left - 1] = calls[left]
      <4>1. left - 1 \in 1..Len(calls') /\ (left - 1) + 1 = left
        BY <1>2, <3>1
      <4> QED
        BY <1>2, <4>1
    <3> QED
      BY <2>1, <3>1, <3>2, <3>3 DEF AnsweredOrPending
  <2> QED
    BY <1>5, <2>1, <2>2, <2>3, <2>4, <2>5
<1> QED
  BY <1>2, <1>5, <1>6, <1>7 DEF TranscriptInv

(* Steps that neither call nor answer. *)
LEMMA TranscriptKept ==
  ASSUME TranscriptInv, UNCHANGED <<messages, calls>>, pc' = pc \/ pc' \notin {"waiting", "complete"}
  PROVE  TranscriptInv'
BY DEF TranscriptInv, AnsweredOrPending

LEMMA TranscriptStep ==
  ASSUME RunInv, TranscriptInv, recorded \in Nat, [Next]_vars
  PROVE  TranscriptInv'
<1>0. i \in Nat
  BY DEF RunInv, AttemptInv, AgentAssumption
<1>1. CASE Complete
  <2>1. CASE NoProvider \/ \E reason \in DOMAIN StopReasons(route) : CompleteMalformed(reason)
    BY <2>1, TranscriptFail DEF NoProvider, CompleteMalformed
  <2>2. ASSUME NEW reason, NEW reply \in Texts, NEW hasCalls \in BOOLEAN, CompleteText(reason, reply, hasCalls)
        PROVE  TranscriptInv'
    BY <2>2, TranscriptKept DEF CompleteText
  <2>3. CASE Cap
    BY <2>3, TranscriptKept DEF Cap
  <2> QED
    BY <1>0, <1>1, <2>1, <2>2, <2>3, TranscriptRequest DEF Complete
<1>2. CASE MeterAborted \/ Throw
  BY <1>2, TranscriptFail DEF MeterAborted, Throw
<1>3. CASE Meter \/ Commit \/ RecordReply \/ UNCHANGED vars
  BY <1>3, TranscriptKept DEF Meter, Commit, RecordReply, vars, runVars
<1> QED
  BY <1>1, <1>2, <1>3, TranscriptStart, TranscriptTool DEF Next, Step

-----------------------------------------------------------------------------
(* The ranges of the state. *)

ResultSet ==
  [reply : Texts, handoff : BOOLEAN, findings : SUBSET Claims, usage : 0..MaxIterations]

RangeInv ==
  /\ registered \in Deployments /\ recorded \in 0..MaxReplies /\ route \in Providers
  /\ txOk \in BOOLEAN /\ toolOutputs \subseteq Claims /\ result \in ResultSet
  /\ status \in {"bot", "human"} /\ metered \in 0..MaxIterations /\ sent \in Texts
  /\ \A a \in 1..MaxAttempts : completions[a] <= MaxIterations

LEMMA TextType ==
  /\ NoText \in Texts
  /\ \A reply \in Texts : reply.claims \subseteq Claims
BY DEF Texts, NoText, Text

LEMMA EmptyResult == NoResult \in ResultSet
BY TextType DEF NoResult, ResultSet, AgentAssumption

LEMMA ResultsType ==
  ASSUME txOk \in BOOLEAN, NEW name, NEW r \in Results(name)
  PROVE  r.claims \subseteq Claims /\ r.ok \in BOOLEAN
<1> DEFINE Good == [claims : SUBSET Claims, isError : BOOLEAN, ok : BOOLEAN]
<1>1. \A c \in SUBSET Claims, e, ok \in BOOLEAN : ToolResult(c, e, ok) \in Good
  BY DEF ToolResult
<1>2. SUBSET Facts \subseteq SUBSET Claims /\ SUBSET {Invented} \subseteq SUBSET Claims /\ {} \in SUBSET Claims
  BY DEF Claims
<1> HIDE DEF Good
<1>3. {ToolResult(c, FALSE, TRUE) : c \in SUBSET Facts} \subseteq Good
  BY <1>1, <1>2
<1>4. \A S \in SUBSET (SUBSET Claims) : {ToolResult(c, TRUE, txOk) : c \in S} \subseteq Good
  BY <1>1
<1>5. ToolResult({}, TRUE, FALSE) \in Good /\ ToolResult({}, TRUE, TRUE) \in Good /\ ToolResult({}, FALSE, TRUE) \in Good
  BY <1>1, <1>2
<1>6. Results(name) \subseteq Good
  <2>1. (IF name = "apply_discount" THEN SUBSET {Invented} ELSE {{}}) \in SUBSET (SUBSET Claims)
    BY <1>2
  <2> QED
    BY <1>3, <1>4, <1>5, <2>1 DEF Results
<1> QED
  BY <1>6 DEF Good

LEMMA RangeInit == Init => RangeInv
<1> SUFFICES ASSUME Init PROVE RangeInv
  OBVIOUS
<1>1. \A a \in 1..MaxAttempts : completions[a] <= MaxIterations
  BY DEF Init, AgentAssumption
<1> QED
  BY <1>1, EmptyResult, TextType DEF Init, RangeInv, Providers, AgentAssumption

LEMMA RangeFail ==
  ASSUME RangeInv, Fail, \A a \in 1..MaxAttempts : completions'[a] <= MaxIterations
  PROVE  RangeInv'
BY EmptyResult DEF Fail, NewRun, RangeInv, dbVars

LEMMA RangeComplete ==
  ASSUME RunInv, RangeInv, Complete
  PROVE  RangeInv'
<1>1. ASSUME NEW reason, Answered(reason)
      PROVE  /\ \A a \in 1..MaxAttempts : completions'[a] <= MaxIterations
             /\ i + 1 \in 0..MaxIterations
  BY <1>1, AnsweredEffect DEF RangeInv, RunInv, AttemptInv, AgentAssumption
<1>2. CASE NoProvider
  BY <1>2, RangeFail DEF NoProvider, RangeInv
<1>3. ASSUME NEW reason, CompleteMalformed(reason) PROVE RangeInv'
  BY <1>1, <1>3, RangeFail DEF CompleteMalformed
<1>4. ASSUME NEW reason, NEW reply \in Texts, NEW hasCalls \in BOOLEAN, CompleteText(reason, reply, hasCalls)
      PROVE  RangeInv'
  <2>1. Findings(reply) \in SUBSET Claims
    BY TextType DEF Findings
  <2>2. result' \in ResultSet
    BY <1>1, <1>4, <2>1 DEF CompleteText, Result, ResultSet, RunInv, FlagInv
  <2> QED
    BY <1>1, <1>4, <2>2 DEF CompleteText, RangeInv, dbVars
<1>5. ASSUME NEW reason, NEW requested, CompleteTools(reason, requested) PROVE RangeInv'
  BY <1>1, <1>5 DEF CompleteTools, RangeInv, dbVars
<1>6. CASE Cap
  <2>1. result' \in ResultSet
    BY <1>6, EmptyResult DEF Cap, ResultSet, RunInv, AttemptInv
  <2> QED
    BY <1>6, <2>1 DEF Cap, RangeInv, dbVars
<1> QED
  BY <1>2, <1>3, <1>4, <1>5, <1>6 DEF Complete

LEMMA RangeStep ==
  ASSUME RunInv, RangeInv, [Next]_vars
  PROVE  RangeInv'
<1>1. CASE MeterAborted \/ Throw
  BY <1>1, RangeFail DEF MeterAborted, Throw, RangeInv
<1>2. ASSUME NEW name, NEW r \in Results(name), ExecuteTool(r) PROVE RangeInv'
  <2>1. toolOutputs' \subseteq Claims /\ txOk' \in BOOLEAN
    BY <1>2, ResultsType DEF ExecuteTool, PushOutput, RangeInv
  <2> QED
    BY <1>2, <2>1 DEF ExecuteTool, RangeInv, dbVars
<1>3. ASSUME NEW provider \in Providers, Start(provider) PROVE RangeInv'
  BY <1>3 DEF Start, RangeInv, dbVars
<1>4. CASE Commit
  <2>1. /\ metered' \in 0..MaxIterations /\ sent' \in Texts /\ status' \in {"bot", "human"}
    BY <1>4 DEF Commit, RangeInv, ResultSet
  <2> QED
    BY <1>4, <2>1 DEF Commit, RangeInv, runVars
<1>5. CASE RecordReply
  BY <1>5 DEF RecordReply, RangeInv, runVars, dbVars, AgentAssumption
<1>6. CASE Meter \/ UNCHANGED vars
  BY <1>6 DEF Meter, vars, RangeInv, runVars, dbVars
<1> QED
  BY <1>1, <1>2, <1>3, <1>4, <1>5, <1>6, RangeComplete DEF Next, Step

AgentInv == RunInv /\ TranscriptInv /\ RangeInv

LEMMA AgentInvariance == Spec => []AgentInv
<1>1. Init => TranscriptInv
  BY DEF Init, TranscriptInv
<1>2. RangeInv => recorded \in Nat
  BY DEF RangeInv, AgentAssumption
<1>3. RunInv /\ TranscriptInv /\ RangeInv /\ [Next]_vars => TranscriptInv' /\ RangeInv'
  BY <1>2, TranscriptStep, RangeStep
<1> QED
  BY <1>1, <1>3, RangeInit, RunInvariance, PTL DEF Spec, AgentInv

(* Every reachable state is well typed, and no attempt makes more completions
   than the iteration cap allows. *)
THEOREM TypeCorrect == Spec => []TypeOK
<1>1. AgentInv => TypeOK
  <2> SUFFICES ASSUME AgentInv PROVE TypeOK
    OBVIOUS
  <2>1. \A k \in DOMAIN messages : messages[k].role \in {"user", "assistant", "tool"}
    <3>1. \A m \in MessageSet : m.role \in {"user", "assistant", "tool"}
      BY DEF MessageSet, Chats, Requests, Answers, ToolMessage
    <3> QED
      BY <3>1, LenProperties, ElementOfSeq DEF AgentInv, TranscriptInv
  <2>2. completions \in [1..MaxAttempts -> 0..MaxIterations]
    BY DEF AgentInv, RunInv, AttemptInv, RangeInv, AgentAssumption
  <2>3. observed \subseteq Claims /\ asked \in BOOLEAN
    BY DEF AgentInv, RunInv, FlagInv, RangeInv
  <2>4. calls \in Seq(CallSet)
    BY DEF AgentInv, TranscriptInv
  <2> QED
    BY <2>1, <2>2, <2>3, <2>4 DEF AgentInv, RunInv, AttemptInv, FlagInv, RangeInv, TypeOK, PcStates,
                                  ResultSet, CallSet
<1> QED
  BY <1>1, AgentInvariance, PTL

(* Every transcript a provider is asked to complete answers all the tool calls
   it contains, in order and with nothing in between. *)
THEOREM TranscriptsAnswerEveryCall == Spec => []TranscriptAnswersEveryCall
<1>1. AgentInv => TranscriptAnswersEveryCall
  <2> SUFFICES ASSUME AgentInv, pc = "complete", NEW k \in DOMAIN messages,
                      "toolCalls" \in DOMAIN messages[k], NEW c \in DOMAIN messages[k].toolCalls
               PROVE  k + c <= Len(messages) /\ messages[k + c] = ToolMessage(messages[k].toolCalls[c].id)
    BY DEF TranscriptAnswersEveryCall
  <2>1. /\ messages \in Seq(MessageSet) /\ Len(messages) \in Nat /\ k \in 1..Len(messages)
        /\ messages[k] \in MessageSet /\ Len(calls) = 0
    BY LenProperties, ElementOfSeq DEF AgentInv, TranscriptInv
  <2>2. messages[k] \in Requests
    BY <2>1, OnlyRequestsCall
  <2>3. c \in 1..Len(messages[k].toolCalls) /\ c \in Nat
    BY <2>2, LenProperties DEF Requests
  <2>4. AnsweredOrPending(k, c)
    BY <2>1, <2>2, <2>3 DEF AgentInv, TranscriptInv
  <2> QED
    BY <2>1, <2>3, <2>4 DEF AnsweredOrPending
<1> QED
  BY <1>1, AgentInvariance, PTL

=============================================================================
