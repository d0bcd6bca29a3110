----------------------- MODULE InboundRefinementProofs -----------------------
(***************************************************************************)
(* The inbound message path, one statement of concurrent transactions at a  *)
(* time, implements ConversationLog, where a message is handled in a single *)
(* step: the step is the commit.                                            *)
(***************************************************************************)
EXTENDS InboundPipelineProofs

USE ConstantsAssumption

-----------------------------------------------------------------------------
(* A contact's conversations follow each other: only the latest can be open,
   and it is the one a transaction that searched has found. *)
OnlyLatestOpen ==
  \A i, j \in 1..Len(convs) :
    convs[i].contact = convs[j].contact /\ i < j => convs[i].status = "closed"

FoundIsLatest ==
  \A w \in Workers, i \in 1..Len(convs) :
    Searched(w) /\ conv[w] # 0 /\ convs[i].contact = FromOf[msg[w]] => i <= conv[w]

LatestInv == OnlyLatestOpen /\ FoundIsLatest

(* The conversations while no transaction commits: closings and releases. *)
LEMMA ConvsBetweenCommits ==
  ASSUME Typing, [Next]_vars, \A w \in Workers : ~Commit(w)
  PROVE  /\ Len(convs') = Len(convs)
         /\ \A i \in 1..Len(convs) : /\ convs'[i].contact = convs[i].contact
                                     /\ convs[i].status = "closed" => convs'[i].status = "closed"
<1>1. ASSUME NEW k \in 1..Len(convs), CloseConversation(k) \/ ReleaseConversation(k)
      PROVE  /\ Len(convs') = Len(convs)
             /\ \A i \in 1..Len(convs) :
                  /\ convs'[i].contact = convs[i].contact
                  /\ convs[i].status = "closed" => convs'[i].status = "closed"
  BY <1>1, HumanStepShape
<1>2. ASSUME NEW w \in Workers, EnqueueReply(w) \/ Crash(w) PROVE convs' = convs
  BY <1>2 DEF EnqueueReply, Crash, dbVars
<1>3. CASE UNCHANGED <<dbVars, queued, promised, crashes, touches>>
  BY <1>3 DEF dbVars
<1> QED
  BY <1>1, <1>2, <1>3, DbFrame

LEMMA OnlyLatestStep ==
  ASSUME Typing, ContactInv, LatestInv, [Next]_vars
  PROVE  OnlyLatestOpen'
<1>1. ASSUME NEW w \in Workers, Commit(w) PROVE OnlyLatestOpen'
  <2>1. pc[w] = "commit" /\ Searched(w) /\ convs' = ConvsAfter(w) /\ Len(convs) \in Nat
        /\ conv[w] \in 0..Len(convs)
    BY <1>1 DEF Commit, Searched, Typing, DbType, Binding
  <2> SUFFICES ASSUME NEW i \in 1..Len(convs'), NEW j \in 1..Len(convs'),
                      convs'[i].contact = convs'[j].contact, i < j
               PROVE  convs'[i].status = "closed"
    BY DEF OnlyLatestOpen
  <2>2. \/ /\ i \in 1..Len(convs) /\ convs'[i].contact = convs[i].contact
           /\ convs'[i].status = convs[i].status \/ i = conv[w]
        \/ i = Len(convs) + 1 /\ conv[w] = 0 /\ convs'[i].contact = FromOf[msg[w]]
    BY <2>1, ConvsAfterShape
  <2>3. \/ j \in 1..Len(convs) /\ convs'[j].contact = convs[j].contact
        \/ j = Len(convs) + 1 /\ conv[w] = 0 /\ convs'[j].contact = FromOf[msg[w]]
    BY <2>1, ConvsAfterShape
  <2>4. i \in 1..Len(convs) /\ convs'[i].contact = convs[i].contact
    BY <2>1, <2>2, <2>3
  <2>5. CASE j = Len(convs) + 1 /\ conv[w] = 0 /\ convs'[j].contact = FromOf[msg[w]]
    <3>1. convs[i].status = "closed"
      BY <2>1, <2>4, <2>5 DEF ContactInv, OthersClosed
    <3> QED
      BY <2>2, <2>4, <2>5, <3>1
  <2>6. CASE j \in 1..Len(convs) /\ convs'[j].contact = convs[j].contact
    <3>1. convs[i].status = "closed"
      BY <2>4, <2>6 DEF LatestInv, OnlyLatestOpen
    <3>2. i # conv[w]
      <4> SUFFICES ASSUME i = conv[w] PROVE FALSE
        OBVIOUS
      <4>1. convs[j].contact = FromOf[msg[w]] /\ conv[w] # 0
        BY <2>1, <2>4, <2>6 DEF ContactInv, FoundStillValid
      <4>2. j <= conv[w]
        BY <2>1, <2>6, <4>1 DEF LatestInv, FoundIsLatest
      <4> QED
        BY <4>2
    <3> QED
      BY <2>1, <2>2, <2>4, <3>1, <3>2
  <2> QED
    BY <2>3, <2>5, <2>6
<1>2. CASE \A w \in Workers : ~Commit(w)
  BY <1>2, ConvsBetweenCommits DEF LatestInv, OnlyLatestOpen
<1> QED
  BY <1>1, <1>2

LEMMA FoundIsLatestStep ==
  ASSUME Typing, ContactInv, LatestInv, [Next]_vars
  PROVE  FoundIsLatest'
<1> SUFFICES ASSUME NEW v \in Workers, NEW i \in 1..Len(convs'), Searched(v)', conv'[v] # 0,
                    convs'[i].contact = FromOf[msg'[v]]
             PROVE  i <= conv'[v]
  BY DEF FoundIsLatest
<1> USE DEF Typing, SlotType
<1>1. ASSUME NEW w \in Workers, Commit(w) PROVE i <= conv'[v]
  <2>1. /\ pc[w] = "commit" /\ pc' = [pc EXCEPT ![w] = "enqueue"] /\ UNCHANGED <<msg, conv>>
        /\ convs' = ConvsAfter(w)
    BY <1>1 DEF Commit
  <2>2. v # w /\ Searched(v)
    <3>1. pc'[v] \in {"persist", "decide", "commit"}
      BY DEF Searched
    <3>2. v # w
      BY <2>1, <3>1
    <3> QED
      BY <2>1, <3>1, <3>2 DEF Searched
  <2>3. HoldsContact(v) /\ HoldsContact(w)
    BY <2>1, <2>2 DEF Searched, HoldsContact
  <2>4. FromOf[msg[v]] # FromOf[msg[w]]
    BY <2>2, <2>3 DEF ContactInv, ContactLocked
  <2>5. i \in 1..Len(convs) /\ convs'[i].contact = convs[i].contact
    BY <2>1, <2>4, ConvsAfterShape
  <2> QED
    BY <2>1, <2>2, <2>5 DEF LatestInv, FoundIsLatest
<1>2. CASE \A w \in Workers : ~Commit(w)
  <2>1. i \in 1..Len(convs) /\ convs[i].contact = FromOf[msg'[v]]
    BY <1>2, ConvsBetweenCommits
  <2>2. CASE FindConversation(v)
    <3>1. /\ msg' = msg /\ convs' = convs
          /\ conv'[v] \in OpenConvs(FromOf[msg[v]])
      BY <2>2 DEF FindConversation, dbVars
    <3>2. /\ conv'[v] \in 1..Len(convs) /\ convs[conv'[v]].contact = FromOf[msg[v]]
          /\ convs[conv'[v]].status # "closed"
      BY <3>1 DEF OpenConvs
    <3>3. ~(conv'[v] < i)
      BY <2>1, <3>1, <3>2 DEF LatestInv, OnlyLatestOpen
    <3>4. Len(convs) \in Nat
      BY DEF DbType
    <3> QED
      BY <2>1, <3>2, <3>3, <3>4
  <2>3. CASE ~FindConversation(v)
    <3>1. Searched(v) /\ conv'[v] = conv[v] /\ msg'[v] = msg[v]
      <4>1. ASSUME NEW w \in Workers, NEW m \in Msgs, Take(w, m)
            PROVE  Searched(v) /\ conv'[v] = conv[v] /\ msg'[v] = msg[v]
        BY <4>1 DEF Take, Searched
      <4>2. ASSUME NEW w \in Workers, Finish(w) \/ Throw(w) \/ Crash(w)
            PROVE  Searched(v) /\ conv'[v] = conv[v] /\ msg'[v] = msg[v]
        BY <4>2 DEF Finish, Throw, Crash, FreeSlot, Searched
      <4>3. ASSUME NEW w \in Workers,
                   \/ ClaimEvent(w) \/ UpsertContact(w) \/ PersistMessage(w)
                   \/ Decide(w) \/ EnqueueReply(w)
            PROVE  Searched(v) /\ conv'[v] = conv[v] /\ msg'[v] = msg[v]
        BY <4>3 DEF ClaimEvent, UpsertContact, PersistMessage, Decide, EnqueueReply, Searched
      <4>4. ASSUME NEW w \in Workers, FindConversation(w)
            PROVE  Searched(v) /\ conv'[v] = conv[v] /\ msg'[v] = msg[v]
        BY <2>3, <4>4 DEF FindConversation, Searched
      <4>5. CASE UNCHANGED slotVars
        BY <4>5 DEF slotVars, Searched
      <4> QED
        BY <1>2, <4>1, <4>2, <4>3, <4>4, <4>5, SlotFrame DEF SlotStep
    <3> QED
      BY <2>1, <3>1 DEF LatestInv, FoundIsLatest
  <2> QED
    BY <2>2, <2>3
<1> QED
  BY <1>1, <1>2

-----------------------------------------------------------------------------
RefinementInv == SafetyInv /\ ConversationInv /\ LatestInv /\ ReplyInv

LEMMA RefinementInvariance == Spec => []RefinementInv
<1>1. Init => LatestInv
  BY DEF Init, LatestInv, OnlyLatestOpen, FoundIsLatest
<1>2. ConversationInv /\ LatestInv /\ [Next]_vars => LatestInv'
  BY OnlyLatestStep, FoundIsLatestStep DEF ConversationInv, LatestInv
<1>3. Init => ReplyInv
  BY DEF Init, ReplyInv, ReplyOwner, RepliesOnceInOrder
<1>4. SafetyInv /\ ReplyInv /\ [Next]_vars => ReplyInv'
  BY ReplyStep DEF SafetyInv
<1>5. SafetyInv /\ ConversationInv /\ LatestInv /\ ReplyInv => RefinementInv
  BY DEF RefinementInv
<1> QED
  BY <1>1, <1>2, <1>3, <1>4, <1>5, SafetyInvariance, ConversationInvariance, PTL DEF Spec

LEMMA InitRefines == Init => Log!Init
BY DEF Init, Log!Init

(* The commit of a transaction is the handling of its message. *)
LEMMA CommitRefines ==
  ASSUME RefinementInv, NEW w \in Workers, Commit(w)
  PROVE  Log!Handle(msg[w])
<1> DEFINE m == msg[w]
           c == FromOf[m]
<1>1. /\ pc[w] = "commit" /\ ledger' = ledger \cup {m} /\ convs' = ConvsAfter(w)
      /\ promised' = [promised EXCEPT ![m] = promised[m] + plan[w].replies]
      /\ UNCHANGED queued
  BY DEF Commit
<1>2. /\ m \in Msgs /\ c \in Contacts /\ plan[w].replies \in Nat
      /\ promised \in [Msgs -> Nat] /\ conv[w] \in 0..Len(convs) /\ Len(convs) \in Nat
  BY <1>1 DEF RefinementInv, SafetyInv, Typing, SlotType, DbType, Binding
<1>3. m \notin ledger /\ promised[m] = 0
  BY <1>1, <1>2 DEF RefinementInv, SafetyInv, ClaimInv, HoldsClaim, ReplyInv, ReplyOwner
<1>4. promised'[m] = plan[w].replies /\ promised' = [promised EXCEPT ![m] = promised'[m]]
  <2> DEFINE n == plan[w].replies
  <2>1. n \in Nat /\ promised' = [promised EXCEPT ![m] = 0 + n]
    BY <1>1, <1>2, <1>3
  <2> HIDE DEF n, m
  <2>2. promised' = [promised EXCEPT ![m] = n]
    BY <2>1
  <2>3. promised'[m] = n
    BY <1>2, <2>2
  <2> QED
    BY <2>2, <2>3 DEF n
<1>5. Searched(w)
  BY <1>1 DEF Searched
<1>6. CASE conv[w] = 0
  <2>1. \A i \in Log!ConvsOf(c) : convs[i].status = "closed"
    BY <1>2, <1>5, <1>6
    DEF RefinementInv, ConversationInv, ContactInv, OthersClosed, Log!ConvsOf
  <2>2. \E s \in {"bot", "human"} : convs' = Append(convs, [contact |-> c, status |-> s])
    <3> DEFINE s == IF plan[w].handoff THEN "human" ELSE "bot"
    <3>1. convs' = Append(convs, [contact |-> c, status |-> s])
      BY <1>1, <1>6 DEF ConvsAfter
    <3>2. s \in {"bot", "human"}
      OBVIOUS
    <3> HIDE DEF s
    <3> QED
      BY <3>1, <3>2
  <2>3. Log!OpenConversation(m)
    BY <1>2, <1>4, <2>1, <2>2 DEF Log!OpenConversation
  <2> QED
    BY <1>1, <1>3, <1>4, <2>3 DEF Log!Handle
<1>7. CASE conv[w] # 0
  <2>1. conv[w] \in Log!ConvsOf(c) /\ \A j \in Log!ConvsOf(c) : j <= conv[w]
    BY <1>2, <1>5, <1>7
    DEF RefinementInv, ConversationInv, ContactInv, FoundStillValid, LatestInv, FoundIsLatest,
        Log!ConvsOf
  <2>2. CASE status[w] = "bot"
    <3>1. convs[conv[w]].status # "human"
      BY <1>5, <1>7, <2>2 DEF RefinementInv, ConversationInv, ContactInv, FoundStillValid
    <3>2. convs' \in {convs, [convs EXCEPT ![conv[w]].status = "human"]}
      BY <1>1, <1>7 DEF ConvsAfter
    <3>3. Log!ContinueConversation(m)
      BY <1>2, <1>4, <2>1, <3>1, <3>2 DEF Log!ContinueConversation
    <3> QED
      BY <1>1, <1>3, <1>4, <3>3 DEF Log!Handle
  <2>3. CASE status[w] # "bot"
    <3>1. plan[w].replies = 0 /\ ~plan[w].handoff
      BY <1>1, <2>3 DEF RefinementInv, ConversationInv, PlanInv, NoPlan, Plan
    <3>2. Log!RecordOnly(m)
      BY <1>1, <1>4, <1>7, <2>1, <3>1 DEF ConvsAfter, Log!RecordOnly
    <3> QED
      BY <1>1, <1>3, <1>4, <3>2 DEF Log!Handle
  <2> QED
    BY <2>2, <2>3
<1> QED
  BY <1>6, <1>7

LEMMA StepRefines ==
  ASSUME RefinementInv, [Next]_vars
  PROVE  [Log!Next]_Log!vars
<1>1. ASSUME NEW w \in Workers, Commit(w) PROVE Log!Next
  <2>1. msg[w] \in Msgs
    BY <1>1 DEF Commit, RefinementInv, SafetyInv, Typing, SlotType, Binding
  <2> QED
    BY <1>1, <2>1, CommitRefines DEF Log!Next
<1>2. ASSUME NEW w \in Workers, EnqueueReply(w) PROVE Log!Next
  <2>1. /\ pc[w] = "enqueue" /\ sent[w] < plan[w].replies
        /\ queued' = [queued EXCEPT ![msg[w]] = Append(queued[msg[w]], sent[w] + 1)]
        /\ UNCHANGED <<ledger, convs, promised>>
    BY <1>2 DEF EnqueueReply, dbVars, histVars
  <2>2. msg[w] \in Msgs /\ msg[w] \in ledger
    BY <2>1 DEF RefinementInv, SafetyInv, Typing, SlotType, Binding, ClaimInv
  <2>3. sent[w] = Len(queued[msg[w]]) /\ plan[w].replies = promised[msg[w]]
    BY <2>1 DEF RefinementInv, ReplyInv, ReplyOwner
  <2>4. Log!QueueReply(msg[w])
    BY <2>1, <2>2, <2>3 DEF Log!QueueReply
  <2> QED
    BY <2>2, <2>4 DEF Log!Next
<1>3. ASSUME NEW k \in 1..Len(convs), CloseConversation(k) \/ ReleaseConversation(k)
      PROVE  Log!Next
  <2>1. Log!HumanStep(k)
    BY <1>3 DEF CloseConversation, ReleaseConversation, SetStatus, Log!HumanStep, histVars
  <2> QED
    BY <2>1 DEF Log!Next
<1>4. ASSUME NEW w \in Workers, Crash(w) PROVE UNCHANGED Log!vars
  BY <1>4 DEF Crash, dbVars, histVars, Log!vars
<1>5. CASE UNCHANGED <<dbVars, queued, promised, crashes, touches>>
  BY <1>5 DEF dbVars, Log!vars
<1> QED
  BY <1>1, <1>2, <1>3, <1>4, <1>5, DbFrame

(* The statements of concurrent, retried and repeated runs amount to handling
   each message at most once, in one step on its contact's latest conversation. *)
THEOREM PipelineImplementsLog == Spec => ImplementsLog
<1> QED
  BY InitRefines, StepRefines, RefinementInvariance, PTL DEF Spec, ImplementsLog, Log!Spec
=============================================================================
