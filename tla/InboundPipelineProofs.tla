------------------------ MODULE InboundPipelineProofs ------------------------
(***************************************************************************)
(* Safety of the inbound message path for any number of messages, contacts, *)
(* request handlers, job slots and retries.                                 *)
(***************************************************************************)
EXTENDS InboundPipeline, FiniteSetTheorems, TLAPS

(* The type invariant by group of variables. *)
Posts == [busy : BOOLEAN, events : Seq(InboundEvents), next : Nat \ {0}, carries : SUBSET Msgs]

ApiType ==
  /\ post \in [Handlers -> Posts]
  /\ acked \subseteq Msgs /\ posts \in Nat

JobType ==
  /\ job \in [Msgs -> JobStates] /\ owner \in [Msgs -> Workers \cup {NoWorker}]
  /\ attempts \in [Msgs -> Nat] /\ stalls \in [Msgs -> Nat] /\ exhausted \subseteq Msgs

SlotType ==
  /\ pc \in [Workers -> Steps] /\ msg \in [Workers -> Msgs \cup {NoMsg}]
  /\ conv \in [Workers -> Nat] /\ status \in [Workers -> ConvStatus]
  /\ plan \in [Workers -> [matched : BOOLEAN, ai : BOOLEAN, handoff : BOOLEAN, replies : Nat]]
  /\ sent \in [Workers -> Nat]

DbType ==
  /\ ledger \subseteq Msgs /\ messages \subseteq Msgs
  /\ convs \in Seq([contact : Contacts, status : ConvStatus])
  /\ lastInbound \in [Contacts -> Nat]
  /\ usage \in [Msgs -> Nat] /\ workflowRuns \in [Msgs -> Nat]
  /\ queued \in [Msgs -> Seq(Nat)] /\ promised \in [Msgs -> Nat]
  /\ crashes \in Nat /\ touches \in Nat

(* A slot is bound to a message exactly while it runs, and to a conversation
   that exists. *)
Binding ==
  \A w \in Workers : /\ pc[w] = "idle" <=> msg[w] = NoMsg
                     /\ conv[w] \in 0..Len(convs)

Typing == ApiType /\ JobType /\ SlotType /\ DbType /\ Binding

USE ConstantsAssumption

(* The number of texts a workflow sends is a natural number. *)
LEMMA TextActionsCount ==
  ASSUME NEW wf \in Workflows
  PROVE  Cardinality(TextActions(wf)) \in Nat
<1>1. wf \in Seq({"send_message", "handoff", "handoff_text", "ai_reply"})
  OBVIOUS
<1>2. IsFiniteSet(1..Len(wf))
  BY <1>1, FS_Interval
<1>3. TextActions(wf) \subseteq 1..Len(wf)
  BY <1>1 DEF TextActions
<1>4. IsFiniteSet(TextActions(wf))
  BY <1>2, <1>3, FS_Subset
<1> QED
  BY <1>4, FS_CardinalityType

(* Setting the status of one conversation keeps the sequence well typed. *)
Conversation == [contact : Contacts, status : ConvStatus]

LEMMA SetStatusType ==
  ASSUME NEW s \in Seq(Conversation), NEW i \in 1..Len(s), NEW st \in ConvStatus
  PROVE  LET t == [s EXCEPT ![i].status = st]
         IN  /\ t \in Seq(Conversation) /\ Len(t) = Len(s)
             /\ \A j \in 1..Len(s) : /\ t[j].contact = s[j].contact
                                      /\ t[j].status = IF j = i THEN st ELSE s[j].status
<1> DEFINE e == [s[i] EXCEPT !.status = st]
           t == [s EXCEPT ![i] = e]
<1>1. s[i] \in Conversation
  OBVIOUS
<1>2. e \in Conversation /\ e.contact = s[i].contact /\ e.status = st
  BY <1>1 DEF Conversation
<1> HIDE DEF e
<1>3. t \in Seq(Conversation) /\ Len(t) = Len(s)
  BY <1>2
<1>4. \A j \in 1..Len(s) : t[j] = IF j = i THEN e ELSE s[j]
  OBVIOUS
<1>5. \A j \in 1..Len(s) : /\ t[j].contact = s[j].contact
                             /\ t[j].status = IF j = i THEN st ELSE s[j].status
  BY <1>2, <1>4
<1> QED
  BY <1>3, <1>5 DEF e

(* A sequence that counts goes on counting. *)
LEMMA AppendCounts ==
  ASSUME NEW s \in Seq(Nat), \A i \in 1..Len(s) : s[i] = i
  PROVE  LET t == Append(s, Len(s) + 1)
         IN  Len(t) = Len(s) + 1 /\ \A i \in 1..Len(t) : t[i] = i
<1> DEFINE t == Append(s, Len(s) + 1)
<1>1. Len(s) \in Nat /\ Len(t) = Len(s) + 1
  OBVIOUS
<1>2. \A i \in 1..Len(s) : t[i] = i
  OBVIOUS
<1>3. t[Len(s) + 1] = Len(s) + 1
  OBVIOUS
<1> HIDE DEF t
<1>4. \A i \in 1..Len(t) : t[i] = i
  BY <1>1, <1>2, <1>3
<1> QED
  BY <1>1, <1>4 DEF t

LEMMA ConvTyped ==
  ASSUME Typing, NEW i \in 1..Len(convs)
  PROVE  /\ i \in Nat /\ convs[i] \in Conversation
         /\ convs[i].contact \in Contacts /\ convs[i].status \in ConvStatus
<1>1. convs \in Seq(Conversation)
  BY DEF Typing, DbType, Conversation
<1>2. convs[i] \in Conversation
  BY <1>1
<1> QED
  BY <1>2 DEF Conversation

(* The committed conversations stay well typed and are only appended to. *)
LEMMA ConvsAfterType ==
  ASSUME Typing, NEW w \in Workers, pc[w] # "idle"
  PROVE  /\ ConvsAfter(w) \in Seq(Conversation)
         /\ Len(ConvsAfter(w)) >= Len(convs)
<1>1. msg[w] \in Msgs /\ FromOf[msg[w]] \in Contacts
  BY DEF Typing, SlotType, Binding
<1>2. convs \in Seq(Conversation) /\ conv[w] \in 0..Len(convs)
  BY DEF Typing, DbType, Binding, Conversation
<1>3. CASE conv[w] = 0
  BY <1>1, <1>2, <1>3 DEF ConvsAfter, ConvStatus, Conversation
<1>4. CASE conv[w] # 0
  <2>1. conv[w] \in 1..Len(convs)
    BY <1>2, <1>4
  <2>2. ConvsAfter(w) = IF plan[w].handoff THEN [convs EXCEPT ![conv[w]].status = "human"]
                        ELSE convs
    BY <1>4 DEF ConvsAfter
  <2> DEFINE t == [convs EXCEPT ![conv[w]].status = "human"]
  <2>3. t \in Seq(Conversation) /\ Len(t) = Len(convs)
    BY <1>2, <2>1, SetStatusType, "human" \in ConvStatus DEF ConvStatus
  <2> HIDE DEF t
  <2> QED
    BY <1>2, <2>2, <2>3 DEF t
<1> QED
  BY <1>3, <1>4

LEMMA TypingInit == Init => Typing
BY DEF Init, Typing, ApiType, Posts, JobType, SlotType, DbType, Binding, IdlePost, Plan, NoPlan, Steps,
       JobStates, ConvStatus

(* Which actions touch which group of variables. *)
LEMMA ApiFrame ==
  ASSUME [Next]_vars
  PROVE  \/ \E h \in Handlers : \/ \E p \in Payloads : Deliver(h, p)
                                \/ QueueEvent(h) \/ FailPost(h) \/ AckPost(h)
         \/ UNCHANGED apiVars
BY DEF Next, HandlerStep, SlotStep, vars, Take, Stalled, Evict, Finish, Throw, Crash, ClaimEvent,
       UpsertContact, FindConversation, PersistMessage, Decide, Commit, EnqueueReply,
       CloseConversation, ReleaseConversation, SetStatus

LEMMA JobFrame ==
  ASSUME [Next]_vars
  PROVE  \/ \E h \in Handlers : QueueEvent(h)
         \/ \E m \in Msgs : Stalled(m) \/ Evict(m) \/ \E w \in Workers : Take(w, m)
         \/ \E w \in Workers : Finish(w) \/ Throw(w)
         \/ UNCHANGED <<jobVars, exhausted>>
BY DEF Next, HandlerStep, SlotStep, vars, histVars, Deliver, FailPost, AckPost, Crash, ClaimEvent,
       UpsertContact, FindConversation, PersistMessage, Decide, Commit, EnqueueReply,
       CloseConversation, ReleaseConversation, SetStatus

LEMMA SlotFrame ==
  ASSUME [Next]_vars
  PROVE  \/ \E w \in Workers, m \in Msgs : Take(w, m)
         \/ \E w \in Workers : SlotStep(w) \/ Throw(w) \/ Crash(w)
         \/ UNCHANGED slotVars
BY DEF Next, HandlerStep, vars, Deliver, QueueEvent, FailPost, AckPost, Stalled, Evict,
       CloseConversation, ReleaseConversation, SetStatus

LEMMA DbFrame ==
  ASSUME [Next]_vars
  PROVE  \/ \E w \in Workers : Commit(w) \/ EnqueueReply(w) \/ Crash(w)
         \/ \E i \in 1..Len(convs) : CloseConversation(i) \/ ReleaseConversation(i)
         \/ UNCHANGED <<dbVars, queued, promised, crashes, touches>>
BY DEF Next, HandlerStep, SlotStep, vars, histVars, Deliver, QueueEvent, FailPost, AckPost, Take,
       Stalled, Evict, Finish, Throw, ClaimEvent, UpsertContact, FindConversation,
       PersistMessage, Decide

LEMMA ApiTypeStep ==
  ASSUME Typing, [Next]_vars
  PROVE  ApiType'
<1> USE DEF Typing, ApiType, Posts
<1>1. ASSUME NEW h \in Handlers, NEW p \in Payloads, Deliver(h, p) PROVE ApiType'
  <2>1. [busy |-> TRUE, events |-> ParseInboundWebhook(p), next |-> 1,
         carries |-> MessagesFor(p, Channels)] \in Posts
    BY PayloadsAssumption
  <2> QED
    BY <1>1, <2>1 DEF Deliver
<1>2. ASSUME NEW h \in Handlers, QueueEvent(h) PROVE ApiType'
  <2>1. post[h].next + 1 \in Nat \ {0}
    OBVIOUS
  <2>2. post' \in [Handlers -> Posts]
    BY <1>2, <2>1 DEF QueueEvent
  <2> QED
    BY <1>2, <2>2 DEF QueueEvent
<1>3. ASSUME NEW h \in Handlers, FailPost(h) \/ AckPost(h) PROVE ApiType'
  <2>1. IdlePost \in Posts
    BY DEF IdlePost
  <2>2. post[h].carries \subseteq Msgs
    OBVIOUS
  <2>3. CASE FailPost(h)
    BY <2>1, <2>3 DEF FailPost
  <2>4. CASE AckPost(h)
    BY <2>1, <2>2, <2>4 DEF AckPost
  <2> QED
    BY <1>3, <2>3, <2>4
<1>4. CASE UNCHANGED apiVars
  BY <1>4 DEF apiVars
<1> QED
  BY <1>1, <1>2, <1>3, <1>4, ApiFrame

LEMMA JobTypeStep ==
  ASSUME Typing, [Next]_vars
  PROVE  JobType'
<1> USE DEF Typing, JobType, JobStates
<1>1. ASSUME NEW h \in Handlers, QueueEvent(h) PROVE JobType'
  BY <1>1 DEF QueueEvent, AddJob, histVars
<1>2. ASSUME NEW m \in Msgs, Stalled(m) PROVE JobType'
  BY <1>2 DEF Stalled, Requeue
<1>3. ASSUME NEW m \in Msgs, Evict(m) PROVE JobType'
  BY <1>3 DEF Evict, histVars
<1>4. ASSUME NEW m \in Msgs, NEW w \in Workers, Take(w, m) PROVE JobType'
  BY <1>4 DEF Take, histVars
<1>5. ASSUME NEW w \in Workers, Finish(w) \/ Throw(w) PROVE JobType'
  <2>1. msg[w] \in Msgs
    BY <1>5 DEF Finish, Throw, Binding, SlotType
  <2>2. CASE Finish(w)
    <3>1. CASE owner[msg[w]] = w
      <4> DEFINE m == msg[w]
      <4>1. /\ job' = [job EXCEPT ![m] = "completed"] /\ owner' = [owner EXCEPT ![m] = NoWorker]
            /\ attempts' = [attempts EXCEPT ![m] = 0] /\ stalls' = [stalls EXCEPT ![m] = 0]
            /\ exhausted' = exhausted
        BY <2>2, <3>1 DEF Finish, histVars
      <4> HIDE DEF m
      <4> QED
        BY <4>1
    <3>2. CASE owner[msg[w]] # w
      BY <2>2, <3>2 DEF Finish, jobVars, histVars
    <3> QED
      BY <3>1, <3>2
  <2>3. CASE Throw(w)
    <3>1. CASE owner[msg[w]] = w
      <4> DEFINE m == msg[w]
      <4>1. /\ job' = [job EXCEPT ![m] = "failed"] \/ job' = [job EXCEPT ![m] = "waiting"]
            /\ owner' = [owner EXCEPT ![m] = NoWorker]
            /\ attempts' = [attempts EXCEPT ![m] = attempts[m] + 1] /\ stalls' = stalls
            /\ exhausted' = exhausted \/ exhausted' = exhausted \cup {m}
        BY <2>3, <3>1 DEF Throw, Requeue
      <4>2. m \in Msgs /\ attempts[m] + 1 \in Nat
        BY <2>1
      <4> HIDE DEF m
      <4> QED
        BY <4>1, <4>2
    <3>2. CASE owner[msg[w]] # w
      BY <2>3, <3>2 DEF Throw
    <3> QED
      BY <3>1, <3>2
  <2> QED
    BY <1>5, <2>2, <2>3
<1>6. CASE UNCHANGED <<jobVars, exhausted>>
  BY <1>6 DEF jobVars
<1> QED
  BY <1>1, <1>2, <1>3, <1>4, <1>5, <1>6, JobFrame

LEMMA SlotTypeStep ==
  ASSUME Typing, [Next]_vars
  PROVE  SlotType'
<1> USE DEF Typing, SlotType
<1>1. ASSUME NEW w \in Workers, NEW m \in Msgs, Take(w, m) PROVE SlotType'
  BY <1>1 DEF Take, Steps
<1>2. ASSUME NEW w \in Workers, Finish(w) \/ Throw(w) \/ Crash(w) PROVE SlotType'
  <2>1. NoPlan \in [matched : BOOLEAN, ai : BOOLEAN, handoff : BOOLEAN, replies : Nat]
    BY DEF NoPlan, Plan
  <2>2. FreeSlot(w)
    BY <1>2 DEF Finish, Throw, Crash
  <2> QED
    BY <2>1, <2>2 DEF FreeSlot, Steps, ConvStatus
<1>3. ASSUME NEW w \in Workers,
             ClaimEvent(w) \/ UpsertContact(w) \/ PersistMessage(w) \/ Commit(w)
      PROVE  SlotType'
  BY <1>3 DEF ClaimEvent, UpsertContact, PersistMessage, Commit, Steps
<1>4. ASSUME NEW w \in Workers, FindConversation(w) PROVE SlotType'
  <2>1. \A i \in 1..Len(convs) : i \in Nat /\ convs[i].status \in ConvStatus
    BY ConvTyped
  <2>2. "bot" \in ConvStatus
    BY DEF ConvStatus
  <2> QED
    <3>1. PICK i \in Nat, st \in ConvStatus :
            conv' = [conv EXCEPT ![w] = i] /\ status' = [status EXCEPT ![w] = st]
      BY <1>4, <2>1, <2>2 DEF FindConversation, OpenConvs
    <3> QED
      BY <1>4, <3>1 DEF FindConversation, Steps
<1>5. ASSUME NEW w \in Workers, Decide(w) PROVE SlotType'
  <2>1. PICK wf \in Workflows, r \in BOOLEAN, h \in BOOLEAN :
          plan' = [plan EXCEPT ![w] =
             Plan(wf # <<>>, RunsAi(wf) /\ ~HandsOff(wf), HandsOff(wf) \/ h,
                  Cardinality(TextActions(wf)) + (IF r THEN 1 ELSE 0))]
    BY <1>5 DEF Decide
  <2>2. Cardinality(TextActions(wf)) + (IF r THEN 1 ELSE 0) \in Nat
    BY TextActionsCount
  <2>3. RunsAi(wf) \in BOOLEAN /\ HandsOff(wf) \in BOOLEAN
    BY DEF RunsAi, HandsOff
  <2> DEFINE n == Cardinality(TextActions(wf)) + (IF r THEN 1 ELSE 0)
             ai == RunsAi(wf) /\ ~HandsOff(wf)
             ho == HandsOff(wf) \/ h
  <2>4. n \in Nat /\ ai \in BOOLEAN /\ ho \in BOOLEAN /\ (wf # <<>>) \in BOOLEAN
    BY <2>2, <2>3
  <2> HIDE DEF n, ai, ho
  <2>5. Plan(wf # <<>>, ai, ho, n)
          \in [matched : BOOLEAN, ai : BOOLEAN, handoff : BOOLEAN, replies : Nat]
    BY <2>4 DEF Plan
  <2>6. plan' = [plan EXCEPT ![w] = Plan(wf # <<>>, ai, ho, n)]
    BY <2>1 DEF n, ai, ho
  <2> QED
    BY <1>5, <2>5, <2>6 DEF Decide, Steps
<1>6. ASSUME NEW w \in Workers, EnqueueReply(w) PROVE SlotType'
  BY <1>6 DEF EnqueueReply
<1>7. CASE UNCHANGED slotVars
  BY <1>7 DEF slotVars
<1> QED
  BY <1>1, <1>2, <1>3, <1>4, <1>5, <1>6, <1>7, SlotFrame DEF SlotStep

LEMMA AddCounts ==
  ASSUME NEW f \in [Msgs -> Nat], NEW m \in Msgs, NEW k \in Nat
  PROVE  [f EXCEPT ![m] = @ + k] \in [Msgs -> Nat]
  OBVIOUS

LEMMA DbTypeStep ==
  ASSUME Typing, [Next]_vars
  PROVE  DbType'
<1> USE DEF Typing, DbType
<1>1. ASSUME NEW w \in Workers, Commit(w) PROVE DbType'
  <2>1. msg[w] \in Msgs /\ pc[w] # "idle" /\ plan[w].replies \in Nat
    BY <1>1 DEF Commit, Binding, SlotType
  <2>2. TsOf[msg[w]] \in Nat /\ FromOf[msg[w]] \in Contacts
    BY <2>1
  <2>3. convs' \in Seq([contact : Contacts, status : ConvStatus])
    BY <1>1, <2>1, ConvsAfterType DEF Commit, Conversation
  <2> QED
    <3>1. ledger' \subseteq Msgs /\ messages' \subseteq Msgs
      BY <1>1, <2>1 DEF Commit
    <3>2. lastInbound' \in [Contacts -> Nat]
      BY <1>1, <2>2 DEF Commit
    <3>3. usage' \in [Msgs -> Nat]
      <4>1. (IF plan[w].ai THEN 1 ELSE 0) \in Nat
        OBVIOUS
      <4>2. usage' = [usage EXCEPT ![msg[w]] = @ + (IF plan[w].ai THEN 1 ELSE 0)]
        BY <1>1 DEF Commit
      <4> QED
        BY <2>1, <4>1, <4>2, AddCounts
    <3>4. workflowRuns' \in [Msgs -> Nat]
      <4>1. (IF plan[w].matched THEN 1 ELSE 0) \in Nat
        OBVIOUS
      <4>2. workflowRuns' = [workflowRuns EXCEPT ![msg[w]] = @ + (IF plan[w].matched THEN 1 ELSE 0)]
        BY <1>1 DEF Commit
      <4> QED
        BY <2>1, <4>1, <4>2, AddCounts
    <3>5. promised' \in [Msgs -> Nat]
      <4>1. promised' = [promised EXCEPT ![msg[w]] = @ + plan[w].replies]
        BY <1>1 DEF Commit
      <4> QED
        BY <2>1, <4>1, AddCounts
    <3>6. UNCHANGED <<queued, crashes, touches>>
      BY <1>1 DEF Commit
    <3> QED
      BY <2>3, <3>1, <3>2, <3>3, <3>4, <3>5, <3>6
<1>2. ASSUME NEW w \in Workers, EnqueueReply(w) PROVE DbType'
  <2>1. msg[w] \in Msgs /\ sent[w] + 1 \in Nat
    BY <1>2 DEF EnqueueReply, Binding, SlotType
  <2>2. Append(queued[msg[w]], sent[w] + 1) \in Seq(Nat)
    BY <2>1
  <2> QED
    BY <1>2, <2>2 DEF EnqueueReply, dbVars, histVars
<1>3. ASSUME NEW w \in Workers, Crash(w) PROVE DbType'
  BY <1>3 DEF Crash, dbVars, histVars
<1>4. ASSUME NEW i \in 1..Len(convs), CloseConversation(i) \/ ReleaseConversation(i)
      PROVE  DbType'
  <2>1. convs' \in Seq([contact : Contacts, status : ConvStatus])
    <3>1. PICK st \in {"closed", "bot"} : convs' = [convs EXCEPT ![i].status = st]
      BY <1>4 DEF CloseConversation, ReleaseConversation, SetStatus
    <3>2. st \in ConvStatus /\ convs \in Seq(Conversation)
      BY DEF ConvStatus, Conversation
    <3>3. [convs EXCEPT ![i].status = st] \in Seq(Conversation)
      BY <3>2, SetStatusType
    <3> QED
      BY <3>1, <3>3 DEF Conversation
  <2>2. UNCHANGED <<ledger, messages, lastInbound, usage, workflowRuns, queued, promised, crashes>>
    BY <1>4 DEF CloseConversation, ReleaseConversation, SetStatus, histVars
  <2>3. touches' = touches + 1
    BY <1>4 DEF CloseConversation, ReleaseConversation, SetStatus
  <2> QED
    BY <2>1, <2>2, <2>3
<1>5. CASE UNCHANGED <<dbVars, queued, promised, crashes, touches>>
  BY <1>5 DEF dbVars
<1> QED
  BY <1>1, <1>2, <1>3, <1>4, <1>5, DbFrame

(* Conversations are never removed, and a slot's conversation exists. *)
LEMMA ConvsGrow ==
  ASSUME Typing, [Next]_vars
  PROVE  Len(convs) \in Nat /\ Len(convs') \in Nat /\ Len(convs') >= Len(convs)
<1>1. convs \in Seq([contact : Contacts, status : ConvStatus]) /\ Len(convs) \in Nat
  BY DEF Typing, DbType
<1>2. Len(convs') \in Nat
  BY DbTypeStep DEF DbType
<1>3. ASSUME NEW w \in Workers, Commit(w) PROVE Len(convs') >= Len(convs)
  BY <1>3, ConvsAfterType DEF Commit
<1>4. ASSUME NEW w \in Workers, EnqueueReply(w) \/ Crash(w) PROVE convs' = convs
  BY <1>4 DEF EnqueueReply, Crash, dbVars
<1>5. ASSUME NEW i \in 1..Len(convs), CloseConversation(i) \/ ReleaseConversation(i)
      PROVE  Len(convs') = Len(convs)
  BY <1>1, <1>5 DEF CloseConversation, ReleaseConversation, SetStatus
<1>6. CASE UNCHANGED <<dbVars, queued, promised, crashes, touches>>
  BY <1>6 DEF dbVars
<1> QED
  BY <1>1, <1>2, <1>3, <1>4, <1>5, <1>6, DbFrame

LEMMA BindingStep ==
  ASSUME Typing, [Next]_vars
  PROVE  Binding'
<1> SUFFICES ASSUME NEW v \in Workers
             PROVE  /\ pc'[v] = "idle" <=> msg'[v] = NoMsg
                    /\ conv'[v] \in 0..Len(convs)
  BY ConvsGrow DEF Binding
<1> USE DEF Typing, SlotType, Binding
<1>1. ASSUME NEW w \in Workers, NEW m \in Msgs, Take(w, m)
      PROVE  (pc'[v] = "idle" <=> msg'[v] = NoMsg) /\ conv'[v] \in 0..Len(convs)
  BY <1>1 DEF Take
<1>2. ASSUME NEW w \in Workers, Finish(w) \/ Throw(w) \/ Crash(w)
      PROVE  (pc'[v] = "idle" <=> msg'[v] = NoMsg) /\ conv'[v] \in 0..Len(convs)
  <2>1. FreeSlot(w)
    BY <1>2 DEF Finish, Throw, Crash
  <2>2. 0 \in 0..Len(convs)
    BY ConvsGrow
  <2> QED
    BY <2>1, <2>2 DEF FreeSlot
<1>3. ASSUME NEW w \in Workers,
             ClaimEvent(w) \/ UpsertContact(w) \/ PersistMessage(w) \/ Decide(w) \/ Commit(w)
             \/ EnqueueReply(w)
      PROVE  (pc'[v] = "idle" <=> msg'[v] = NoMsg) /\ conv'[v] \in 0..Len(convs)
  BY <1>3 DEF ClaimEvent, UpsertContact, PersistMessage, Decide, Commit, EnqueueReply
<1>4. ASSUME NEW w \in Workers, FindConversation(w)
      PROVE  (pc'[v] = "idle" <=> msg'[v] = NoMsg) /\ conv'[v] \in 0..Len(convs)
  <2>1. PICK i \in 0..Len(convs) : conv' = [conv EXCEPT ![w] = i]
    BY <1>4, ConvsGrow DEF FindConversation, OpenConvs
  <2> QED
    BY <1>4, <2>1 DEF FindConversation
<1>5. CASE UNCHANGED slotVars
  BY <1>5 DEF slotVars
<1> QED
  BY <1>1, <1>2, <1>3, <1>4, <1>5, SlotFrame DEF SlotStep

LEMMA TypingStep ==
  ASSUME Typing, [Next]_vars
  PROVE  Typing'
BY ApiTypeStep, JobTypeStep, SlotTypeStep, DbTypeStep, BindingStep DEF Typing

(* Every reachable state is well typed. *)
THEOREM TypeCorrect == Spec => []TypeOK
<1>1. Init => Typing
  BY TypingInit
<1>2. Typing /\ [Next]_vars => Typing'
  BY TypingStep
<1>3. Typing => TypeOK
  BY DEF Typing, ApiType, Posts, JobType, SlotType, DbType, TypeOK
<1> QED
  BY <1>1, <1>2, <1>3, PTL DEF Spec

-----------------------------------------------------------------------------
(* The claim of an event is exclusive: only one open transaction holds it,
   and only while it is not committed. *)
ClaimInv ==
  /\ \A w \in Workers : /\ HoldsClaim(w) => msg[w] \notin ledger
                        /\ pc[w] \in {"enqueue", "finish"} => msg[w] \in ledger
  /\ \A v, w \in Workers : v # w /\ HoldsClaim(v) /\ HoldsClaim(w) => msg[v] # msg[w]

LEMMA ClaimStep ==
  ASSUME Typing, ClaimInv, [Next]_vars
  PROVE  ClaimInv'
<1> USE DEF Typing, SlotType, ClaimInv, HoldsClaim
<1>1. ASSUME NEW w \in Workers, NEW m \in Msgs, Take(w, m) PROVE ClaimInv'
  BY <1>1 DEF Take, dbVars
<1>2. ASSUME NEW w \in Workers, Finish(w) \/ Throw(w) \/ Crash(w) PROVE ClaimInv'
  <2>1. FreeSlot(w) /\ ledger' = ledger
    BY <1>2 DEF Finish, Throw, Crash, dbVars
  <2> QED
    BY <2>1 DEF FreeSlot
<1>3. ASSUME NEW w \in Workers, ClaimEvent(w) PROVE ClaimInv'
  BY <1>3 DEF ClaimEvent, dbVars
<1>4. ASSUME NEW w \in Workers,
             \/ UpsertContact(w) \/ FindConversation(w) \/ PersistMessage(w) \/ Decide(w)
             \/ EnqueueReply(w)
      PROVE  ClaimInv'
  BY <1>4 DEF UpsertContact, FindConversation, PersistMessage, Decide, EnqueueReply, dbVars
<1>5. ASSUME NEW w \in Workers, Commit(w) PROVE ClaimInv'
  BY <1>5 DEF Commit
<1>6. CASE UNCHANGED slotVars
  <2>1. ASSUME NEW w \in Workers, Commit(w) PROVE FALSE
    BY <1>6, <2>1 DEF Commit, slotVars
  <2>2. UNCHANGED ledger
    BY <1>6, <2>1, DbFrame
    DEF slotVars, dbVars, EnqueueReply, Crash, CloseConversation, ReleaseConversation, SetStatus
  <2> QED
    BY <1>6, <2>2 DEF slotVars
<1> QED
  BY <1>1, <1>2, <1>3, <1>4, <1>5, <1>6, SlotFrame DEF SlotStep

LEMMA EffectsStep ==
  ASSUME Typing, ClaimInv, EffectsAtMostOnce, [Next]_vars
  PROVE  EffectsAtMostOnce'
<1> USE DEF Typing, DbType, EffectsAtMostOnce
<1>1. ASSUME NEW w \in Workers, Commit(w) PROVE EffectsAtMostOnce'
  <2>1. msg[w] \in Msgs /\ msg[w] \notin ledger
    BY <1>1 DEF Commit, ClaimInv, HoldsClaim, Binding, SlotType
  <2>2. usage[msg[w]] = 0 /\ workflowRuns[msg[w]] = 0
    BY <2>1
  <2> QED
    BY <1>1, <2>1, <2>2 DEF Commit
<1>2. ASSUME NEW w \in Workers, EnqueueReply(w) \/ Crash(w) PROVE EffectsAtMostOnce'
  BY <1>2 DEF EnqueueReply, Crash, dbVars
<1>3. ASSUME NEW i \in 1..Len(convs), CloseConversation(i) \/ ReleaseConversation(i)
      PROVE  EffectsAtMostOnce'
  BY <1>3 DEF CloseConversation, ReleaseConversation, SetStatus
<1>4. CASE UNCHANGED <<dbVars, queued, promised, crashes, touches>>
  BY <1>4 DEF dbVars
<1> QED
  BY <1>1, <1>2, <1>3, <1>4, DbFrame

(* Claims only accumulate. *)
LEMMA LedgerGrows ==
  ASSUME [Next]_vars
  PROVE  ledger \subseteq ledger'
<1>1. ASSUME NEW w \in Workers, Commit(w) \/ EnqueueReply(w) \/ Crash(w)
      PROVE  ledger \subseteq ledger'
  BY <1>1 DEF Commit, EnqueueReply, Crash, dbVars
<1>2. ASSUME NEW i \in 1..Len(convs), CloseConversation(i) \/ ReleaseConversation(i)
      PROVE  ledger \subseteq ledger'
  BY <1>2 DEF CloseConversation, ReleaseConversation, SetStatus
<1> QED
  BY <1>1, <1>2, DbFrame DEF dbVars

LEMMA CompletedStep ==
  ASSUME Typing, ClaimInv, CompletedIsCommitted, [Next]_vars
  PROVE  CompletedIsCommitted'
<1> USE DEF Typing, JobType, CompletedIsCommitted
<1>1. ASSUME NEW h \in Handlers, QueueEvent(h) PROVE CompletedIsCommitted'
  BY <1>1, LedgerGrows DEF QueueEvent, AddJob
<1>2. ASSUME NEW m \in Msgs, Stalled(m) \/ Evict(m) PROVE CompletedIsCommitted'
  BY <1>2, LedgerGrows DEF Stalled, Evict, Requeue
<1>3. ASSUME NEW m \in Msgs, NEW w \in Workers, Take(w, m) PROVE CompletedIsCommitted'
  BY <1>3, LedgerGrows DEF Take
<1>4. ASSUME NEW w \in Workers, Finish(w) PROVE CompletedIsCommitted'
  <2>1. msg[w] \in ledger
    BY <1>4 DEF Finish, ClaimInv
  <2>2. \/ job' = [job EXCEPT ![msg[w]] = "completed"]
        \/ job' = job
    BY <1>4 DEF Finish, jobVars
  <2> QED
    BY <2>1, <2>2, LedgerGrows
<1>5. ASSUME NEW w \in Workers, Throw(w) PROVE CompletedIsCommitted'
  <2>1. \/ job' = [job EXCEPT ![msg[w]] = "failed"]
        \/ job' = [job EXCEPT ![msg[w]] = "waiting"]
        \/ job' = job
    BY <1>5 DEF Throw, Requeue
  <2> QED
    BY <2>1, LedgerGrows
<1>6. CASE UNCHANGED <<jobVars, exhausted>>
  BY <1>6, LedgerGrows DEF jobVars
<1> QED
  BY <1>1, <1>2, <1>3, <1>4, <1>5, <1>6, JobFrame

SafetyInv == Typing /\ ClaimInv /\ EffectsAtMostOnce /\ CompletedIsCommitted

LEMMA SafetyInvariance == Spec => []SafetyInv
<1>1. Init => SafetyInv
  BY TypingInit DEF Init, SafetyInv, ClaimInv, EffectsAtMostOnce, CompletedIsCommitted, HoldsClaim
<1>2. SafetyInv /\ [Next]_vars => SafetyInv'
  BY TypingStep, ClaimStep, EffectsStep, CompletedStep DEF SafetyInv
<1> QED
  BY <1>1, <1>2, PTL DEF Spec

(* However often a message is delivered, retried or run twice at once, its
   rows are committed by at most one transaction. *)
THEOREM EffectsAreOnce == Spec => []EffectsAtMostOnce
<1>1. SafetyInv => EffectsAtMostOnce
  BY DEF SafetyInv
<1> QED
  BY <1>1, SafetyInvariance, PTL

(* A job is recorded as completed only for a message that was handled. *)
THEOREM CompletedJobsAreCommitted == Spec => []CompletedIsCommitted
<1>1. SafetyInv => CompletedIsCommitted
  BY DEF SafetyInv
<1> QED
  BY <1>1, SafetyInvariance, PTL

-----------------------------------------------------------------------------
(* The contact's row lock serializes the transactions of one contact.  A slot
   that looked for an open conversation keeps what it saw true until it
   commits: a conversation it will open has no open rival, the one it found is
   the only one that can be open, and a human cannot come to own it. *)
Searched(w) == pc[w] \in {"persist", "decide", "commit"}

ContactLocked ==
  \A v, w \in Workers :
    v # w /\ HoldsContact(v) /\ HoldsContact(w) => FromOf[msg[v]] # FromOf[msg[w]]

OthersClosed ==
  \A w \in Workers, i \in 1..Len(convs) :
    Searched(w) /\ convs[i].contact = FromOf[msg[w]] /\ i # conv[w]
      => convs[i].status = "closed"

FoundStillValid ==
  \A w \in Workers :
    Searched(w) /\ conv[w] # 0 =>
      /\ convs[conv[w]].contact = FromOf[msg[w]]
      /\ convs[conv[w]].status = "human" => status[w] # "bot"

ContactInv == ContactLocked /\ OthersClosed /\ FoundStillValid

(* A slot past the status check has a plan to reply only for the bot. *)
PlanInv ==
  \A w \in Workers :
    /\ pc[w] = "decide" => status[w] = "bot"
    /\ pc[w] \notin {"commit", "enqueue"} => plan[w] = NoPlan
    /\ pc[w] = "commit" /\ status[w] # "bot" => plan[w] = NoPlan

(* What the transaction of a slot changes in the conversations table. *)
LEMMA ConvsAfterShape ==
  ASSUME Typing, NEW w \in Workers, pc[w] # "idle", NEW i \in 1..Len(ConvsAfter(w))
  PROVE  \/ /\ i \in 1..Len(convs)
            /\ ConvsAfter(w)[i].contact = convs[i].contact
            /\ \/ ConvsAfter(w)[i].status = convs[i].status
               \/ i = conv[w] /\ plan[w].handoff
         \/ i = Len(convs) + 1 /\ conv[w] = 0 /\ ConvsAfter(w)[i].contact = FromOf[msg[w]]
<1>1. convs \in Seq(Conversation) /\ conv[w] \in 0..Len(convs) /\ Len(convs) \in Nat
  BY DEF Typing, DbType, Binding, Conversation
<1>2. CASE conv[w] = 0
  <2> DEFINE new == [contact |-> FromOf[msg[w]],
                     status |-> IF plan[w].handoff THEN "human" ELSE "bot"]
  <2>1. ConvsAfter(w) = Append(convs, new) /\ new.contact = FromOf[msg[w]]
    BY <1>2 DEF ConvsAfter
  <2> HIDE DEF new
  <2>2. /\ Len(Append(convs, new)) = Len(convs) + 1
        /\ i \in 1..Len(convs) => Append(convs, new)[i] = convs[i]
        /\ i = Len(convs) + 1 => Append(convs, new)[i] = new
    BY <1>1, <2>1
  <2> QED
    BY <1>1, <1>2, <2>1, <2>2
<1>3. CASE conv[w] # 0 /\ plan[w].handoff
  <2>1. ConvsAfter(w) = [convs EXCEPT ![conv[w]].status = "human"]
    BY <1>3 DEF ConvsAfter
  <2>2. conv[w] \in 1..Len(convs) /\ "human" \in ConvStatus
    BY <1>1, <1>3 DEF ConvStatus
  <2> DEFINE t == [convs EXCEPT ![conv[w]].status = "human"]
  <2>3. /\ Len(t) = Len(convs)
        /\ \A j \in 1..Len(convs) :
             /\ t[j].contact = convs[j].contact
             /\ t[j].status = IF j = conv[w] THEN "human" ELSE convs[j].status
    BY <1>1, <2>2, SetStatusType
  <2>4. ConvsAfter(w) = t
    BY <2>1
  <2> HIDE DEF t
  <2> QED
    BY <1>3, <2>3, <2>4
<1>4. CASE conv[w] # 0 /\ ~plan[w].handoff
  BY <1>4 DEF ConvsAfter
<1> QED
  BY <1>2, <1>3, <1>4

(* The same for a human agent's update. *)
LEMMA HumanStepShape ==
  ASSUME Typing, NEW k \in 1..Len(convs), CloseConversation(k) \/ ReleaseConversation(k)
  PROVE  /\ Len(convs') = Len(convs) /\ convs[k].status # "closed"
         /\ \A j \in 1..Len(convs) :
              /\ convs'[j].contact = convs[j].contact
              /\ j # k => convs'[j].status = convs[j].status
         /\ convs'[k].status # "human"
<1>1. PICK st \in {"closed", "bot"} : convs' = [convs EXCEPT ![k].status = st]
  BY DEF CloseConversation, ReleaseConversation, SetStatus
<1>2. st \in ConvStatus /\ convs \in Seq(Conversation)
  BY DEF ConvStatus, Conversation, Typing, DbType
<1>3. convs[k].status # "closed"
  BY DEF CloseConversation, ReleaseConversation, SetStatus
<1> QED
  BY <1>1, <1>2, <1>3, SetStatusType

LEMMA OneOpenStep ==
  ASSUME Typing, ContactInv, OneOpenConversation, [Next]_vars
  PROVE  OneOpenConversation'
<1>1. ASSUME NEW w \in Workers, Commit(w) PROVE OneOpenConversation'
  <2> SUFFICES ASSUME NEW i \in 1..Len(convs'), NEW j \in 1..Len(convs'),
                      convs'[i].contact = convs'[j].contact,
                      convs'[i].status # "closed", convs'[j].status # "closed"
               PROVE  i = j
    BY DEF OneOpenConversation
  <2>1. pc[w] = "commit" /\ convs' = ConvsAfter(w) /\ pc[w] # "idle"
    BY <1>1 DEF Commit
  <2> DEFINE Kept(k) == /\ k \in 1..Len(convs)
                        /\ convs'[k].contact = convs[k].contact
                        /\ \/ convs'[k].status = convs[k].status
                           \/ k = conv[w] /\ plan[w].handoff
             New(k)  == k = Len(convs) + 1 /\ conv[w] = 0 /\ convs'[k].contact = FromOf[msg[w]]
  <2>2. (Kept(i) \/ New(i)) /\ (Kept(j) \/ New(j))
    BY <2>1, ConvsAfterShape
  <2>3. Searched(w)
    BY <2>1 DEF Searched
  <2>4. \A k \in 1..Len(convs) :
          convs[k].contact = FromOf[msg[w]] /\ k # conv[w] => convs[k].status = "closed"
    BY <2>3 DEF ContactInv, ContactLocked, OthersClosed, FoundStillValid
  <2>5. conv[w] # 0 => convs[conv[w]].contact = FromOf[msg[w]]
    BY <2>3 DEF ContactInv, ContactLocked, OthersClosed, FoundStillValid
  <2>6. conv[w] = 0 => conv[w] \notin 1..Len(convs)
    OBVIOUS
  <2> QED
    BY <2>2, <2>4, <2>5, <2>6 DEF OneOpenConversation
<1>2. ASSUME NEW w \in Workers, EnqueueReply(w) \/ Crash(w) PROVE OneOpenConversation'
  BY <1>2 DEF EnqueueReply, Crash, dbVars, OneOpenConversation
<1>3. ASSUME NEW k \in 1..Len(convs), CloseConversation(k) \/ ReleaseConversation(k)
      PROVE  OneOpenConversation'
  BY <1>3, HumanStepShape DEF OneOpenConversation
<1>4. CASE UNCHANGED <<dbVars, queued, promised, crashes, touches>>
  BY <1>4 DEF dbVars, OneOpenConversation
<1> QED
  BY <1>1, <1>2, <1>3, <1>4, DbFrame

LEMMA ContactStep ==
  ASSUME Typing, ContactInv, OneOpenConversation, [Next]_vars
  PROVE  ContactInv'
<1> USE DEF Typing, SlotType
<1>1. ASSUME NEW w \in Workers, NEW m \in Msgs, Take(w, m) PROVE ContactInv'
  BY <1>1 DEF Take, dbVars, ContactInv, ContactLocked, OthersClosed, FoundStillValid, HoldsContact, Searched
<1>2. ASSUME NEW w \in Workers, Finish(w) \/ Throw(w) \/ Crash(w) PROVE ContactInv'
  <2>1. FreeSlot(w) /\ convs' = convs
    BY <1>2 DEF Finish, Throw, Crash, dbVars
  <2> QED
    BY <2>1 DEF FreeSlot, ContactInv, ContactLocked, OthersClosed, FoundStillValid, HoldsContact, Searched
<1>3. ASSUME NEW w \in Workers,
             ClaimEvent(w) \/ PersistMessage(w) \/ Decide(w) \/ EnqueueReply(w)
      PROVE  ContactInv'
  <2>1. /\ UNCHANGED <<msg, conv, status, convs>>
        /\ \A v \in Workers : (HoldsContact(v)' => HoldsContact(v)) /\ (Searched(v)' => Searched(v))
    BY <1>3 DEF ClaimEvent, PersistMessage, Decide, EnqueueReply, dbVars, HoldsContact, Searched
  <2> QED
    BY <2>1 DEF ContactInv, ContactLocked, OthersClosed, FoundStillValid
<1>4. ASSUME NEW w \in Workers, UpsertContact(w) PROVE ContactInv'
  <2>1. /\ UNCHANGED <<msg, conv, status, convs>>
        /\ \A v \in Workers : (Searched(v)' => Searched(v)) /\ (v # w => HoldsContact(v)' = HoldsContact(v))
    BY <1>4 DEF UpsertContact, dbVars, HoldsContact, Searched
  <2>2. \A v \in Workers : HoldsContact(v) => FromOf[msg[v]] # FromOf[msg[w]]
    BY <1>4 DEF UpsertContact
  <2> QED
    BY <2>1, <2>2 DEF ContactInv, ContactLocked, OthersClosed, FoundStillValid
<1>5. ASSUME NEW w \in Workers, FindConversation(w) PROVE ContactInv'
  <2>1. /\ UNCHANGED <<msg, convs>> /\ pc[w] = "conversation"
        /\ \A v \in Workers : HoldsContact(v)' = HoldsContact(v)
        /\ \A v \in Workers \ {w} : /\ Searched(v)' = Searched(v)
                                    /\ conv'[v] = conv[v] /\ status'[v] = status[v]
    BY <1>5 DEF FindConversation, dbVars, HoldsContact, Searched
  <2>2. /\ \A i \in 1..Len(convs) :
             convs[i].contact = FromOf[msg[w]] /\ i # conv'[w] => convs[i].status = "closed"
        /\ conv'[w] # 0 => /\ convs[conv'[w]].contact = FromOf[msg[w]]
                           /\ status'[w] = convs[conv'[w]].status
    <3>1. CASE OpenConvs(FromOf[msg[w]]) = {} /\ conv' = [conv EXCEPT ![w] = 0]
      BY <3>1 DEF OpenConvs
    <3>2. ASSUME NEW i \in OpenConvs(FromOf[msg[w]]),
                 conv' = [conv EXCEPT ![w] = i],
                 status' = [status EXCEPT ![w] = convs[i].status]
          PROVE  /\ \A j \in 1..Len(convs) :
                      convs[j].contact = FromOf[msg[w]] /\ j # conv'[w]
                        => convs[j].status = "closed"
                 /\ convs[conv'[w]].contact = FromOf[msg[w]]
                 /\ status'[w] = convs[conv'[w]].status
      BY <3>2 DEF OpenConvs, OneOpenConversation
    <3> QED
      BY <1>5, <3>1, <3>2 DEF FindConversation
  <2>3. ContactLocked'
    BY <2>1 DEF ContactInv, ContactLocked
  <2>4. OthersClosed'
    BY <2>1, <2>2 DEF ContactInv, OthersClosed
  <2>5. FoundStillValid'
    <3>1. ASSUME NEW v \in Workers \ {w}, Searched(v)', conv'[v] # 0
          PROVE  /\ convs'[conv'[v]].contact = FromOf[msg'[v]]
                 /\ convs'[conv'[v]].status = "human" => status'[v] # "bot"
      BY <2>1, <3>1 DEF ContactInv, FoundStillValid
    <3>2. conv'[w] # 0 => /\ convs'[conv'[w]].contact = FromOf[msg'[w]]
                          /\ convs'[conv'[w]].status = "human" => status'[w] # "bot"
      BY <2>1, <2>2
    <3> QED
      BY <3>1, <3>2 DEF FoundStillValid
  <2> QED
    BY <2>3, <2>4, <2>5 DEF ContactInv
<1>6. ASSUME NEW w \in Workers, Commit(w) PROVE ContactInv'
  <2>1. /\ UNCHANGED <<msg, conv, status>> /\ pc[w] = "commit" /\ convs' = ConvsAfter(w)
        /\ \A v \in Workers : /\ v # w => HoldsContact(v)' = HoldsContact(v)
                              /\ v # w => Searched(v)' = Searched(v)
        /\ ~HoldsContact(w)' /\ ~Searched(w)' /\ HoldsContact(w)
    BY <1>6 DEF Commit, HoldsContact, Searched
  <2>2. ASSUME NEW v \in Workers, Searched(v)'
        PROVE  /\ v # w /\ Searched(v) /\ FromOf[msg[v]] # FromOf[msg[w]]
               /\ conv[v] # 0 => conv[v] \in 1..Len(convs)
    BY <2>1, <2>2 DEF ContactInv, ContactLocked, OthersClosed, FoundStillValid, HoldsContact, Searched, Binding
  <2>3. ASSUME NEW i \in 1..Len(convs')
        PROVE  \/ convs'[i].contact = FromOf[msg[w]]
               \/ /\ i \in 1..Len(convs)
                  /\ convs'[i].contact = convs[i].contact
                  /\ convs'[i].status = convs[i].status
    <3>1. Searched(w)
      BY <2>1 DEF Searched
    <3>2. conv[w] # 0 => convs[conv[w]].contact = FromOf[msg[w]]
      BY <3>1 DEF ContactInv, ContactLocked, OthersClosed, FoundStillValid
    <3>3. conv[w] = 0 => conv[w] \notin 1..Len(convs)
      OBVIOUS
    <3> QED
      BY <2>1, <3>2, <3>3, ConvsAfterShape
  <2>4. Len(convs') >= Len(convs) /\ Len(convs) \in Nat /\ Len(convs') \in Nat
    BY ConvsGrow
  <2>5. \A v, u \in Workers :
          v # u /\ HoldsContact(v)' /\ HoldsContact(u)' => FromOf[msg'[v]] # FromOf[msg'[u]]
    BY <2>1 DEF ContactInv, ContactLocked, OthersClosed, FoundStillValid
  <2>6. ASSUME NEW v \in Workers, Searched(v)', NEW i \in 1..Len(convs'),
               convs'[i].contact = FromOf[msg'[v]], i # conv'[v]
        PROVE  convs'[i].status = "closed"
    <3>1. convs'[i].contact # FromOf[msg[w]] /\ i # conv[v]
      BY <2>1, <2>2, <2>6
    <3>2. i \in 1..Len(convs) /\ convs[i].contact = FromOf[msg[v]]
          /\ convs'[i].status = convs[i].status
      BY <2>1, <2>3, <2>6, <3>1
    <3> QED
      BY <2>2, <2>6, <3>1, <3>2 DEF ContactInv, ContactLocked, OthersClosed, FoundStillValid
  <2>7. ASSUME NEW v \in Workers, Searched(v)', conv'[v] # 0
        PROVE  /\ convs'[conv'[v]].contact = FromOf[msg'[v]]
               /\ convs'[conv'[v]].status = "human" => status'[v] # "bot"
    <3>1. conv[v] \in 1..Len(convs) /\ conv[v] \in 1..Len(convs')
      BY <2>1, <2>2, <2>4, <2>7
    <3>2. convs[conv[v]].contact = FromOf[msg[v]]
      BY <2>1, <2>2, <2>7 DEF ContactInv, ContactLocked, OthersClosed, FoundStillValid
    <3>3. ASSUME NEW i \in 1..Len(convs), convs[i].contact # FromOf[msg[w]]
          PROVE  convs'[i].contact = convs[i].contact /\ convs'[i].status = convs[i].status
      <4>1. i \in 1..Len(convs') /\ i # Len(convs) + 1
        BY <2>4
      <4>2. Searched(w)
        BY <2>1 DEF Searched
      <4>3. i # conv[w]
        <5>1. conv[w] # 0 => convs[conv[w]].contact = FromOf[msg[w]]
          BY <4>2 DEF ContactInv, FoundStillValid
        <5>2. i # 0
          OBVIOUS
        <5> QED
          BY <3>3, <5>1, <5>2
      <4> QED
        BY <2>1, <4>1, <4>3, ConvsAfterShape
    <3>4. convs'[conv[v]].contact = convs[conv[v]].contact
          /\ convs'[conv[v]].status = convs[conv[v]].status
      BY <2>2, <2>7, <3>1, <3>2, <3>3
    <3>5. convs[conv[v]].status = "human" => status[v] # "bot"
      BY <2>1, <2>2, <2>7 DEF ContactInv, FoundStillValid
    <3> QED
      BY <2>1, <3>2, <3>4, <3>5
  <2> QED
    BY <2>5, <2>6, <2>7 DEF ContactInv, ContactLocked, OthersClosed, FoundStillValid
<1>7. ASSUME NEW k \in 1..Len(convs), CloseConversation(k) \/ ReleaseConversation(k)
      PROVE  ContactInv'
  <2>1. UNCHANGED <<pc, msg, conv, status>>
    BY <1>7 DEF CloseConversation, ReleaseConversation, SetStatus, slotVars
  <2>2. /\ Len(convs') = Len(convs) /\ convs[k].status # "closed" /\ convs'[k].status # "human"
        /\ \A j \in 1..Len(convs) : /\ convs'[j].contact = convs[j].contact
                                    /\ j # k => convs'[j].status = convs[j].status
    BY <1>7, HumanStepShape
  <2>3. ContactLocked'
    BY <2>1 DEF ContactInv, ContactLocked, HoldsContact
  <2>4. OthersClosed'
    <3> SUFFICES ASSUME NEW w \in Workers, NEW i \in 1..Len(convs), Searched(w),
                        convs[i].contact = FromOf[msg[w]], i # conv[w]
                 PROVE  convs'[i].status = "closed"
      BY <2>1, <2>2 DEF OthersClosed, Searched
    <3>1. convs[i].status = "closed"
      BY DEF ContactInv, OthersClosed
    <3> QED
      BY <2>2, <3>1
  <2>5. FoundStillValid'
    <3> SUFFICES ASSUME NEW w \in Workers, Searched(w), conv[w] # 0
                 PROVE  /\ convs'[conv[w]].contact = FromOf[msg[w]]
                        /\ convs'[conv[w]].status = "human" => status[w] # "bot"
      BY <2>1 DEF FoundStillValid, Searched
    <3>1. conv[w] \in 1..Len(convs)
      BY DEF Binding
    <3>2. /\ convs[conv[w]].contact = FromOf[msg[w]]
          /\ convs[conv[w]].status = "human" => status[w] # "bot"
      BY DEF ContactInv, FoundStillValid
    <3> QED
      BY <2>2, <3>1, <3>2
  <2> QED
    BY <2>3, <2>4, <2>5 DEF ContactInv
<1>8. CASE UNCHANGED slotVars /\ UNCHANGED convs
  BY <1>8 DEF slotVars, ContactInv, ContactLocked, OthersClosed, FoundStillValid, HoldsContact, Searched
<1>9. CASE UNCHANGED slotVars /\ UNCHANGED <<dbVars, queued, promised, crashes, touches>>
  BY <1>8, <1>9 DEF dbVars
<1>10. ASSUME UNCHANGED slotVars, NEW w \in Workers, Commit(w) \/ EnqueueReply(w) \/ Crash(w)
       PROVE  ContactInv'
  BY <1>6, <1>8, <1>10 DEF EnqueueReply, Crash, dbVars
<1> QED
  BY <1>1, <1>2, <1>3, <1>4, <1>5, <1>6, <1>7, <1>9, <1>10, SlotFrame, DbFrame DEF SlotStep

LEMMA PlanStep ==
  ASSUME Typing, PlanInv, [Next]_vars
  PROVE  PlanInv'
<1> USE DEF Typing, SlotType, PlanInv
<1>1. ASSUME NEW w \in Workers, NEW m \in Msgs, Take(w, m) PROVE PlanInv'
  BY <1>1 DEF Take
<1>2. ASSUME NEW w \in Workers, Finish(w) \/ Throw(w) \/ Crash(w) PROVE PlanInv'
  BY <1>2 DEF Finish, Throw, Crash, FreeSlot
<1>3. ASSUME NEW w \in Workers, ClaimEvent(w) \/ UpsertContact(w) \/ FindConversation(w)
      PROVE  PlanInv'
  BY <1>3 DEF ClaimEvent, UpsertContact, FindConversation
<1>4. ASSUME NEW w \in Workers, PersistMessage(w) PROVE PlanInv'
  BY <1>4 DEF PersistMessage
<1>5. ASSUME NEW w \in Workers, Decide(w) \/ Commit(w) \/ EnqueueReply(w) PROVE PlanInv'
  BY <1>5 DEF Decide, Commit, EnqueueReply
<1>6. CASE UNCHANGED slotVars
  BY <1>6 DEF slotVars
<1> QED
  BY <1>1, <1>2, <1>3, <1>4, <1>5, <1>6, SlotFrame DEF SlotStep

ConversationInv == Typing /\ ContactInv /\ OneOpenConversation /\ PlanInv

LEMMA ConversationInvariance == Spec => []ConversationInv
<1>1. Init => ConversationInv
  BY TypingInit
  DEF Init, ConversationInv, ContactInv, ContactLocked, OthersClosed, FoundStillValid, OneOpenConversation, PlanInv, HoldsContact, Searched
<1>2. ConversationInv /\ [Next]_vars => ConversationInv'
  BY TypingStep, ContactStep, OneOpenStep, PlanStep DEF ConversationInv
<1> QED
  BY <1>1, <1>2, PTL DEF Spec

(* Concurrent first messages of a contact share one conversation. *)
THEOREM ConversationsAreUnique == Spec => []OneOpenConversation
<1>1. ConversationInv => OneOpenConversation
  BY DEF ConversationInv
<1> QED
  BY <1>1, ConversationInvariance, PTL

(* No transaction commits a reply or an agent run in a conversation that a
   human owns at that moment. *)
THEOREM HumanOwnedStaysSilent == Spec => []HumanOwnedIsSilent
<1>1. ConversationInv => HumanOwnedIsSilent
  <2> SUFFICES ASSUME ConversationInv, NEW w \in Workers, pc[w] = "commit", conv[w] # 0,
                      convs[conv[w]].status = "human"
               PROVE  plan[w].replies = 0 /\ ~plan[w].ai
    BY DEF HumanOwnedIsSilent
  <2>1. status[w] # "bot"
    BY DEF ConversationInv, ContactInv, FoundStillValid, Searched
  <2>2. plan[w] = NoPlan
    BY <2>1 DEF ConversationInv, PlanInv
  <2> QED
    BY <2>2 DEF NoPlan, Plan
<1> QED
  BY <1>1, ConversationInvariance, PTL

-----------------------------------------------------------------------------
(* The slot that committed a message is the only one to queue its replies, and
   has queued as many as it counted. *)
ReplyOwner ==
  /\ \A m \in Msgs : m \notin ledger => queued[m] = <<>> /\ promised[m] = 0
  /\ \A w \in Workers :
       /\ pc[w] # "enqueue" => sent[w] = 0
       /\ pc[w] = "enqueue" => /\ sent[w] = Len(queued[msg[w]])
                               /\ sent[w] <= plan[w].replies
                               /\ plan[w].replies = promised[msg[w]]
  /\ \A v, w \in Workers :
       v # w /\ pc[v] = "enqueue" /\ pc[w] = "enqueue" => msg[v] # msg[w]

ReplyInv == ReplyOwner /\ RepliesOnceInOrder

LEMMA ReplyStep ==
  ASSUME Typing, ClaimInv, ReplyInv, [Next]_vars
  PROVE  ReplyInv'
<1> USE DEF Typing, SlotType, DbType
<1>1. ASSUME NEW w \in Workers, NEW m \in Msgs, Take(w, m) PROVE ReplyInv'
  BY <1>1 DEF Take, dbVars, histVars, ReplyInv, ReplyOwner, RepliesOnceInOrder
<1>2. ASSUME NEW w \in Workers, Finish(w) \/ Throw(w) \/ Crash(w) PROVE ReplyInv'
  <2>1. FreeSlot(w) /\ UNCHANGED <<ledger, queued, promised>>
    BY <1>2 DEF Finish, Throw, Crash, dbVars, histVars
  <2> QED
    BY <2>1 DEF FreeSlot, ReplyInv, ReplyOwner, RepliesOnceInOrder
<1>3. ASSUME NEW w \in Workers,
             \/ ClaimEvent(w) \/ UpsertContact(w) \/ FindConversation(w) \/ PersistMessage(w)
             \/ Decide(w)
      PROVE  ReplyInv'
  <2>1. /\ UNCHANGED <<msg, sent, ledger, queued, promised>>
        /\ \A v \in Workers : /\ pc'[v] = "enqueue" <=> pc[v] = "enqueue"
                              /\ pc[v] = "enqueue" => plan'[v] = plan[v]
    BY <1>3 DEF ClaimEvent, UpsertContact, FindConversation, PersistMessage, Decide, dbVars,
                histVars
  <2> QED
    BY <2>1 DEF ReplyInv, ReplyOwner, RepliesOnceInOrder
<1>4. ASSUME NEW w \in Workers, Commit(w) PROVE ReplyInv'
  <2>1. msg[w] \in Msgs /\ msg[w] \notin ledger /\ sent[w] = 0 /\ plan[w].replies \in Nat
    BY <1>4 DEF Commit, ClaimInv, HoldsClaim, Binding, ReplyInv, ReplyOwner
  <2>2. queued[msg[w]] = <<>> /\ promised[msg[w]] = 0
    BY <2>1 DEF ReplyInv, ReplyOwner
  <2>3. /\ UNCHANGED <<msg, sent, plan, queued>> /\ ledger' = ledger \cup {msg[w]}
        /\ pc' = [pc EXCEPT ![w] = "enqueue"]
        /\ promised' = [promised EXCEPT ![msg[w]] = plan[w].replies]
    <3>1. promised' = [promised EXCEPT ![msg[w]] = promised[msg[w]] + plan[w].replies]
      BY <1>4 DEF Commit
    <3>2. promised[msg[w]] + plan[w].replies = plan[w].replies
      BY <2>1, <2>2
    <3> QED
      BY <1>4, <3>1, <3>2 DEF Commit
  <2>4. \A v \in Workers : pc[v] = "enqueue" => msg[v] \in ledger /\ v # w
    BY <1>4 DEF ClaimInv, Commit
  <2>5. ReplyOwner'
    BY <2>1, <2>2, <2>3, <2>4 DEF ReplyInv, ReplyOwner
  <2>6. RepliesOnceInOrder'
    BY <2>1, <2>2, <2>3 DEF ReplyInv, RepliesOnceInOrder
  <2> QED
    BY <2>5, <2>6 DEF ReplyInv
<1>5. ASSUME NEW w \in Workers, EnqueueReply(w) PROVE ReplyInv'
  <2> DEFINE m == msg[w]
             q == Append(queued[m], sent[w] + 1)
  <2>1. /\ UNCHANGED <<pc, msg, plan, ledger, promised>>
        /\ queued' = [queued EXCEPT ![m] = q] /\ sent' = [sent EXCEPT ![w] = sent[w] + 1]
        /\ pc[w] = "enqueue" /\ sent[w] < plan[w].replies
    BY <1>5 DEF EnqueueReply, dbVars, histVars
  <2>2. /\ m \in Msgs /\ m \in ledger /\ queued[m] \in Seq(Nat)
        /\ sent[w] = Len(queued[m]) /\ plan[w].replies = promised[m] /\ plan[w].replies \in Nat
        /\ \A i \in 1..Len(queued[m]) : queued[m][i] = i
    BY <2>1 DEF ClaimInv, Binding, ReplyInv, ReplyOwner, RepliesOnceInOrder
  <2>3. Len(q) = sent[w] + 1 /\ \A i \in 1..Len(q) : q[i] = i
    BY <2>2, AppendCounts
  <2> HIDE DEF m, q
  <2>4. \A v \in Workers : v # w /\ pc[v] = "enqueue" => msg[v] # m
    BY <2>1 DEF ReplyInv, ReplyOwner, m
  <2>5. ReplyOwner'
    BY <2>1, <2>2, <2>3, <2>4 DEF ReplyInv, ReplyOwner, m
  <2>6. RepliesOnceInOrder'
    BY <2>1, <2>2, <2>3 DEF ReplyInv, RepliesOnceInOrder
  <2> QED
    BY <2>5, <2>6 DEF ReplyInv
<1>6. ASSUME UNCHANGED slotVars PROVE ReplyInv'
  <2>1. ASSUME NEW w \in Workers, Commit(w) \/ EnqueueReply(w) PROVE FALSE
    BY <1>6, <2>1 DEF Commit, EnqueueReply, slotVars
  <2>2. UNCHANGED <<ledger, queued, promised>>
    BY <2>1, DbFrame
    DEF dbVars, histVars, Crash, CloseConversation, ReleaseConversation, SetStatus
  <2> QED
    BY <1>6, <2>2 DEF slotVars, ReplyInv, ReplyOwner, RepliesOnceInOrder
<1> QED
  BY <1>1, <1>2, <1>3, <1>4, <1>5, <1>6, SlotFrame DEF SlotStep

(* The replies decided by the committed handling of a message are queued in
   order and none twice, whatever is retried. *)
THEOREM RepliesAreOnceInOrder == Spec => []RepliesOnceInOrder
<1>1. Init => ReplyInv
  BY DEF Init, ReplyInv, ReplyOwner, RepliesOnceInOrder
<1>2. SafetyInv /\ ReplyInv /\ [Next]_vars => ReplyInv'
  BY ReplyStep DEF SafetyInv
<1>3. ReplyInv => RepliesOnceInOrder
  BY DEF ReplyInv
<1> QED
  BY <1>1, <1>2, <1>3, SafetyInvariance, PTL DEF Spec
=============================================================================
