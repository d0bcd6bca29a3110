--------------------------- MODULE OutboundProofs ---------------------------
(***************************************************************************)
(* Outbound delivery for any number of jobs, slots, stalls, failures and    *)
(* ticks of the clock: bounded deliveries, honest bills, no silent          *)
(* completion and no free-form send on a window that was not open.          *)
(***************************************************************************)
EXTENDS OutboundDelivery, FiniteSetTheorems, TLAPS

USE OutboundAssumption

Steps == {"idle", "prepare", "send", "record", "done"}
Endings == {"completed", "failed"}

(* What an early end of a run may change: at most a delivery of its job. *)
LEMMA AbortEffect ==
  ASSUME TypeOK, NEW s \in Senders, pc[s] # "idle" => cur[s] \in Jobs, pc[s] # "idle", Abort(s)
  PROVE  /\ \A j \in Jobs : /\ delivered'[j] \in Nat
                            /\ delivered'[j] = delivered[j] \/ delivered'[j] = delivered[j] + 1
                            /\ delivered'[j] # delivered[j] => pc[s] = "send" /\ cur[s] = j
         /\ delivered' \in [Jobs -> Nat] /\ failures' \in Nat
         /\ pc' = [pc EXCEPT ![s] = "idle"] /\ cur' = [cur EXCEPT ![s] = NoJob]
         /\ UNCHANGED <<clock, contactVars, stalls, transcript, usage, blocked>>
<1>0. PICK answer \in MetaAnswers :
        delivered' = [delivered EXCEPT ![cur[s]] =
                        @ + (IF pc[s] = "send" /\ answer.accepted THEN 1 ELSE 0)]
  BY DEF Abort
<1> DEFINE n == IF pc[s] = "send" /\ answer.accepted THEN 1 ELSE 0
<1>1. /\ delivered' = [delivered EXCEPT ![cur[s]] = @ + n]
      /\ n \in {0, 1} /\ (n = 1 => pc[s] = "send")
  BY <1>0
<1> HIDE DEF n
<1>2. delivered \in [Jobs -> Nat] /\ cur[s] \in Jobs
  BY DEF TypeOK
<1>3. \A j \in Jobs : delivered'[j] = delivered[j] + (IF j = cur[s] THEN n ELSE 0)
  BY <1>1, <1>2
<1>4. delivered' \in [Jobs -> Nat]
  BY <1>1, <1>2
<1> QED
  BY <1>1, <1>2, <1>3, <1>4 DEF Abort, FreeSlot, TypeOK

(* What the end of a run changes of the jobs. *)
LEMMA SettleEffect ==
  ASSUME TypeOK, NEW s \in Senders, cur[s] \in Jobs, NEW state \in Endings, Settle(s, state)
  PROVE  /\ job' \in [Jobs -> {"waiting", "active", "completed", "failed"}]
         /\ owner' \in [Jobs -> Senders \cup {NoSender}]
         /\ \A j \in Jobs : \/ job'[j] = job[j] /\ owner'[j] = owner[j]
                            \/ /\ j = cur[s] /\ owner[j] = s
                               /\ job'[j] = state /\ owner'[j] = NoSender
<1>1. CASE owner[cur[s]] = s
  BY <1>1 DEF Settle, TypeOK, Endings
<1>2. CASE owner[cur[s]] # s
  BY <1>2 DEF Settle, TypeOK
<1> QED
  BY <1>1, <1>2

-----------------------------------------------------------------------------
(* Types, and the binding of slots, jobs and owners. *)

Bound ==
  /\ \A s \in Senders : pc[s] # "idle" => cur[s] \in Jobs
  /\ \A j \in Jobs : owner[j] # NoSender => job[j] = "active"
  /\ \A j \in Jobs : stalls[j] <= MaxStalled \/ (job[j] = "failed" /\ stalls[j] = MaxStalled + 1)

BaseInv == TypeOK /\ Bound

LEMMA BaseInit == Init => BaseInv
BY DEF Init, BaseInv, TypeOK, Bound

LEMMA BaseTake ==
  ASSUME BaseInv, NEW s \in Senders, NEW j \in Jobs, TakeJob(s, j)
  PROVE  BaseInv'
<1>1. TypeOK'
  BY DEF BaseInv, TypeOK, TakeJob, contactVars, sendVars
<1>2. Bound'
  BY DEF BaseInv, TypeOK, Bound, TakeJob
<1> QED
  BY <1>1, <1>2 DEF BaseInv

(* A run that ends gives up its slot, and settles its job only as its owner. *)
LEMMA BaseEnd ==
  ASSUME BaseInv, NEW s \in Senders, pc[s] # "idle", NEW state \in Endings,
         Settle(s, state) \/ UNCHANGED <<job, owner>>,
         pc' = [pc EXCEPT ![s] = "idle"], cur' = [cur EXCEPT ![s] = NoJob],
         UNCHANGED <<clock, contactVars, stalls, transcript, usage, blocked>>,
         delivered' \in [Jobs -> Nat], failures' \in Nat
  PROVE  BaseInv'
<1>1. cur[s] \in Jobs
  BY DEF BaseInv, Bound
<1>2. /\ job' \in [Jobs -> {"waiting", "active", "completed", "failed"}]
      /\ owner' \in [Jobs -> Senders \cup {NoSender}]
      /\ \A j \in Jobs : \/ job'[j] = job[j] /\ owner'[j] = owner[j]
                         \/ /\ j = cur[s] /\ owner[j] = s
                            /\ job'[j] = state /\ owner'[j] = NoSender
  <2>1. CASE UNCHANGED <<job, owner>>
    BY <2>1 DEF BaseInv, TypeOK
  <2>2. CASE Settle(s, state)
    BY <1>1, <2>2, SettleEffect DEF BaseInv
  <2> QED
    BY <2>1, <2>2
<1>3. TypeOK'
  BY <1>2 DEF BaseInv, TypeOK, contactVars
<1>4. Bound'
  <2>1. \A q \in Senders : pc'[q] # "idle" => cur'[q] \in Jobs
    BY DEF BaseInv, Bound, TypeOK
  <2>2. \A j \in Jobs : owner'[j] # NoSender => job'[j] = "active"
    BY <1>2 DEF BaseInv, Bound
  <2>3. ASSUME NEW j \in Jobs
        PROVE  stalls'[j] <= MaxStalled \/ (job'[j] = "failed" /\ stalls'[j] = MaxStalled + 1)
    <3>1. stalls'[j] = stalls[j]
      OBVIOUS
    <3>2. job'[j] # job[j] => job[j] = "active"
      BY <1>2 DEF BaseInv, Bound
    <3> QED
      BY <3>1, <3>2 DEF BaseInv, Bound
  <2> QED
    BY <2>1, <2>2, <2>3 DEF Bound
<1> QED
  BY <1>3, <1>4 DEF BaseInv

LEMMA BaseSlotStep ==
  ASSUME BaseInv, NEW s \in Senders, SlotStep(s)
  PROVE  BaseInv'
<1>1. CASE Prepare(s)
  <2>1. TypeOK'
    BY <1>1 DEF Prepare, BaseInv, Bound, TypeOK, contactVars, jobVars, sendVars
  <2>2. Bound'
    BY <1>1 DEF Prepare, BaseInv, Bound, TypeOK, jobVars
  <2> QED
    BY <2>1, <2>2 DEF BaseInv
<1>2. CASE ThrowNoCredentials(s)
  <2>1. delivered' \in [Jobs -> Nat] /\ failures' \in Nat
    BY <1>2 DEF ThrowNoCredentials, sendVars, BaseInv, TypeOK
  <2> QED
    BY <1>2, <2>1, BaseEnd DEF ThrowNoCredentials, FreeSlot, Endings, sendVars
<1>3. CASE Send(s)
  <2>1. TypeOK'
    BY <1>3 DEF Send, BaseInv, Bound, TypeOK, contactVars, jobVars
  <2>2. Bound'
    BY <1>3 DEF Send, BaseInv, Bound, TypeOK, jobVars
  <2> QED
    BY <2>1, <2>2 DEF BaseInv
<1>4. CASE Record(s)
  <2>1. usage' \in [Jobs -> Nat] /\ transcript' \in [Jobs -> Nat]
    BY <1>4 DEF Record, BaseInv, Bound, TypeOK
  <2>2. TypeOK'
    BY <1>4, <2>1 DEF Record, BaseInv, Bound, TypeOK, contactVars, jobVars
  <2>3. Bound'
    BY <1>4 DEF Record, BaseInv, Bound, TypeOK, jobVars
  <2> QED
    BY <2>2, <2>3 DEF BaseInv
<1>5. CASE Finish(s)
  <2>1. delivered' \in [Jobs -> Nat] /\ failures' \in Nat
    BY <1>5 DEF Finish, sendVars, BaseInv, TypeOK
  <2> QED
    BY <1>5, <2>1, BaseEnd DEF Finish, FreeSlot, Endings, sendVars
<1> QED
  BY <1>1, <1>2, <1>3, <1>4, <1>5 DEF SlotStep

LEMMA BaseAbort ==
  ASSUME BaseInv, NEW s \in Senders, Throw(s) \/ Crash(s)
  PROVE  BaseInv'
<1>1. pc[s] # "idle" /\ Abort(s) /\ (Settle(s, "failed") \/ UNCHANGED <<job, owner>>)
  BY DEF Throw, Crash
<1>2. /\ delivered' \in [Jobs -> Nat] /\ failures' \in Nat
      /\ pc' = [pc EXCEPT ![s] = "idle"] /\ cur' = [cur EXCEPT ![s] = NoJob]
      /\ UNCHANGED <<clock, contactVars, stalls, transcript, usage, blocked>>
  BY <1>1, AbortEffect DEF BaseInv, Bound
<1> QED
  BY <1>1, <1>2, BaseEnd DEF Endings

LEMMA BaseStall ==
  ASSUME BaseInv, NEW j \in Jobs, Stall(j)
  PROVE  BaseInv'
<1>1. TypeOK'
  BY DEF BaseInv, TypeOK, Stall, contactVars, slotVars, sendVars
<1>2. Bound'
  BY DEF BaseInv, TypeOK, Bound, Stall, slotVars
<1> QED
  BY <1>1, <1>2 DEF BaseInv

(* The clock and the customer. *)
Environment == Tick \/ CustomerWrites \/ \E ts \in written : Inbound(ts)

LEMMA BaseEnvironment ==
  ASSUME BaseInv, Environment
  PROVE  BaseInv'
<1>1. CASE Tick
  BY <1>1 DEF Tick, BaseInv, TypeOK, Bound, contactVars, jobVars, slotVars, sendVars
<1>2. CASE CustomerWrites
  BY <1>2 DEF CustomerWrites, BaseInv, TypeOK, Bound, jobVars, slotVars, sendVars
<1>3. CASE \E ts \in written : Inbound(ts)
  BY <1>3 DEF Inbound, BaseInv, TypeOK, Bound, jobVars, slotVars, sendVars
<1> QED
  BY <1>1, <1>2, <1>3 DEF Environment

LEMMA BaseInvariance == Spec => []BaseInv
<1>1. BaseInv /\ [Next]_vars => BaseInv'
  <2>1. ASSUME BaseInv, UNCHANGED vars PROVE BaseInv'
    BY <2>1 DEF vars, BaseInv, TypeOK, Bound, contactVars, jobVars, slotVars, sendVars
  <2> QED
    BY <2>1, BaseTake, BaseSlotStep, BaseAbort, BaseStall, BaseEnvironment DEF Next, Environment
<1> QED
  BY <1>1, BaseInit, PTL DEF Spec

(* Every reachable state is well typed. *)
THEOREM TypeCorrect == Spec => []TypeOK
<1>1. BaseInv => TypeOK
  BY DEF BaseInv
<1> QED
  BY <1>1, BaseInvariance, PTL

-----------------------------------------------------------------------------
(* A slot past Meta's answer has a delivered message, one that is done has a
   job whose work is accounted for, and so has a completed job. *)

Accounted(j) == j \in blocked \/ (delivered[j] > 0 /\ usage[j] > 0)

AccountInv ==
  /\ \A s \in Senders : pc[s] = "record" => delivered[cur[s]] > 0
  /\ \A s \in Senders : pc[s] = "done" => Accounted(cur[s])
  /\ \A j \in Jobs : job[j] = "completed" => Accounted(j)

(* Nothing that is accounted for is taken back. *)
LEMMA StaysAccounted ==
  ASSUME BaseInv, AccountInv, blocked \subseteq blocked',
         \A j \in Jobs : delivered'[j] >= delivered[j] /\ usage'[j] >= usage[j],
         delivered' \in [Jobs -> Nat], usage' \in [Jobs -> Nat]
  PROVE  /\ \A j \in Jobs : Accounted(j) => Accounted(j)'
         /\ \A j \in Jobs : delivered[j] > 0 => delivered'[j] > 0
BY DEF Accounted, BaseInv, TypeOK

(* A step that moves no slot past Meta or to its end keeps the invariant. *)
LEMMA AccountKept ==
  ASSUME BaseInv, AccountInv, blocked \subseteq blocked',
         \A j \in Jobs : delivered'[j] >= delivered[j] /\ usage'[j] >= usage[j],
         delivered' \in [Jobs -> Nat], usage' \in [Jobs -> Nat],
         \A s \in Senders : \/ pc'[s] = pc[s] /\ cur'[s] = cur[s]
                            \/ pc'[s] \notin {"record", "done"},
         \A j \in Jobs : job'[j] = "completed" => Accounted(j)
  PROVE  AccountInv'
<1>1. /\ \A j \in Jobs : Accounted(j) => Accounted(j)'
      /\ \A j \in Jobs : delivered[j] > 0 => delivered'[j] > 0
  BY StaysAccounted
<1>2. ASSUME NEW s \in Senders, pc'[s] = "record" PROVE delivered'[cur'[s]] > 0
  BY <1>1, <1>2 DEF AccountInv, BaseInv, Bound
<1>3. ASSUME NEW s \in Senders, pc'[s] = "done" PROVE Accounted(cur[s])' /\ cur[s] \in Jobs /\ cur'[s] = cur[s]
  BY <1>1, <1>3 DEF AccountInv, BaseInv, Bound
<1>4. ASSUME NEW j \in Jobs, job'[j] = "completed" PROVE Accounted(j)'
  BY <1>1, <1>4
<1> QED
  BY <1>2, <1>3, <1>4 DEF AccountInv

LEMMA AccountSlotStep ==
  ASSUME BaseInv, AccountInv, NEW s \in Senders, SlotStep(s)
  PROVE  AccountInv'
<1>0. delivered \in [Jobs -> Nat] /\ usage \in [Jobs -> Nat] /\ pc \in [Senders -> Steps]
  BY DEF BaseInv, TypeOK, Steps
<1>1. CASE Prepare(s)
  <2>1. cur[s] \in Jobs /\ blocked \subseteq blocked' /\ UNCHANGED <<job, cur, delivered, usage>>
    BY <1>1 DEF Prepare, jobVars, sendVars, BaseInv, Bound
  <2>2. /\ \A j \in Jobs : Accounted(j) => Accounted(j)'
        /\ \A j \in Jobs : delivered[j] > 0 => delivered'[j] > 0
    BY <1>0, <2>1, StaysAccounted
  <2>3. pc'[s] = "send" \/ (pc'[s] = "done" /\ cur[s] \in blocked')
    BY <1>0, <1>1 DEF Prepare
  <2>4. \A q \in Senders \ {s} : pc'[q] = pc[q]
    BY <1>0, <1>1 DEF Prepare
  <2>5. ASSUME NEW q \in Senders, pc'[q] = "record" PROVE delivered'[cur'[q]] > 0
    BY <2>1, <2>3, <2>4, <2>5 DEF AccountInv
  <2>6. ASSUME NEW q \in Senders, pc'[q] = "done" PROVE Accounted(cur[q])'
    <3>1. CASE q = s
      BY <2>1, <2>3, <2>6, <3>1 DEF Accounted
    <3>2. CASE q # s
      BY <2>1, <2>2, <2>4, <2>6, <3>2 DEF AccountInv, BaseInv, Bound, Accounted
    <3> QED
      BY <3>1, <3>2
  <2>7. ASSUME NEW j \in Jobs, job'[j] = "completed" PROVE Accounted(j)'
    BY <2>1, <2>2, <2>7 DEF AccountInv
  <2> QED
    BY <2>5, <2>6, <2>7 DEF AccountInv
<1>2. CASE ThrowNoCredentials(s)
  <2>1. cur[s] \in Jobs /\ UNCHANGED <<blocked, delivered, usage>>
    BY <1>2 DEF ThrowNoCredentials, sendVars, BaseInv, Bound
  <2>2. \A j \in Jobs : job'[j] = job[j] \/ job'[j] = "failed"
    BY <1>2, <2>1, SettleEffect DEF ThrowNoCredentials, BaseInv, Endings
  <2>3. \A q \in Senders : (pc'[q] = pc[q] /\ cur'[q] = cur[q]) \/ pc'[q] = "idle"
    BY <1>0, <1>2 DEF ThrowNoCredentials, FreeSlot, BaseInv, TypeOK
  <2> QED
    BY <1>0, <2>1, <2>2, <2>3, AccountKept DEF AccountInv
<1>3. CASE Send(s)
  <2>1. cur[s] \in Jobs /\ UNCHANGED <<job, cur, blocked, usage>>
    BY <1>3 DEF Send, jobVars, BaseInv, Bound
  <2>2. /\ delivered' \in [Jobs -> Nat] /\ delivered'[cur[s]] > 0
        /\ \A j \in Jobs : delivered'[j] >= delivered[j]
    BY <1>0, <1>3, <2>1 DEF Send
  <2>3. /\ \A j \in Jobs : Accounted(j) => Accounted(j)'
        /\ \A j \in Jobs : delivered[j] > 0 => delivered'[j] > 0
    BY <1>0, <2>1, <2>2, StaysAccounted
  <2>4. pc'[s] = "record" /\ \A q \in Senders \ {s} : pc'[q] = pc[q]
    BY <1>0, <1>3 DEF Send
  <2>5. ASSUME NEW q \in Senders, pc'[q] = "record" PROVE delivered'[cur'[q]] > 0
    <3>1. CASE q = s
      BY <2>1, <2>2, <3>1
    <3>2. CASE q # s
      BY <2>1, <2>3, <2>4, <2>5, <3>2 DEF AccountInv, BaseInv, Bound
    <3> QED
      BY <3>1, <3>2
  <2>6. ASSUME NEW q \in Senders, pc'[q] = "done" PROVE Accounted(cur[q])' /\ cur'[q] = cur[q]
    BY <2>1, <2>3, <2>4, <2>6 DEF AccountInv, BaseInv, Bound
  <2>7. ASSUME NEW j \in Jobs, job'[j] = "completed" PROVE Accounted(j)'
    BY <2>1, <2>3, <2>7 DEF AccountInv
  <2> QED
    BY <2>5, <2>6, <2>7 DEF AccountInv
<1>4. CASE Record(s)
  <2>1. cur[s] \in Jobs /\ UNCHANGED <<job, cur, blocked, delivered>>
    BY <1>4 DEF Record, jobVars, BaseInv, Bound
  <2>2. /\ usage' \in [Jobs -> Nat] /\ usage'[cur[s]] > 0
        /\ \A j \in Jobs : usage'[j] >= usage[j]
    BY <1>0, <1>4, <2>1 DEF Record
  <2>3. /\ \A j \in Jobs : Accounted(j) => Accounted(j)'
        /\ \A j \in Jobs : delivered[j] > 0 => delivered'[j] > 0
    BY <1>0, <2>1, <2>2, StaysAccounted
  <2>4. pc'[s] = "done" /\ \A q \in Senders \ {s} : pc'[q] = pc[q]
    BY <1>0, <1>4 DEF Record
  <2>5. delivered[cur[s]] > 0
    BY <1>4 DEF Record, AccountInv
  <2>6. ASSUME NEW q \in Senders, pc'[q] = "record" PROVE delivered'[cur'[q]] > 0
    BY <2>1, <2>4, <2>6 DEF AccountInv
  <2>7. ASSUME NEW q \in Senders, pc'[q] = "done" PROVE Accounted(cur[q])' /\ cur'[q] = cur[q]
    <3>1. CASE q = s
      BY <2>1, <2>2, <2>5, <3>1 DEF Accounted
    <3>2. CASE q # s
      BY <2>1, <2>3, <2>4, <2>7, <3>2 DEF AccountInv, BaseInv, Bound
    <3> QED
      BY <3>1, <3>2
  <2>8. ASSUME NEW j \in Jobs, job'[j] = "completed" PROVE Accounted(j)'
    BY <2>1, <2>3, <2>8 DEF AccountInv
  <2> QED
    BY <2>6, <2>7, <2>8 DEF AccountInv
<1>5. CASE Finish(s)
  <2>1. cur[s] \in Jobs /\ Accounted(cur[s]) /\ UNCHANGED <<blocked, delivered, usage>>
    BY <1>5 DEF Finish, sendVars, BaseInv, Bound, AccountInv
  <2>2. \A j \in Jobs : job'[j] = job[j] \/ j = cur[s]
    BY <1>5, <2>1, SettleEffect DEF Finish, BaseInv, Endings
  <2>3. \A q \in Senders : (pc'[q] = pc[q] /\ cur'[q] = cur[q]) \/ pc'[q] = "idle"
    BY <1>0, <1>5 DEF Finish, FreeSlot, BaseInv, TypeOK
  <2> QED
    BY <1>0, <2>1, <2>2, <2>3, AccountKept DEF AccountInv
<1> QED
  BY <1>1, <1>2, <1>3, <1>4, <1>5 DEF SlotStep

LEMMA AccountAbort ==
  ASSUME BaseInv, AccountInv, NEW s \in Senders, Throw(s) \/ Crash(s)
  PROVE  AccountInv'
<1>1. pc[s] # "idle" /\ cur[s] \in Jobs /\ Abort(s)
  BY DEF Throw, Crash, BaseInv, Bound
<1>2. \A j \in Jobs : job'[j] = job[j] \/ job'[j] = "failed"
  BY <1>1, SettleEffect DEF Throw, Crash, BaseInv, Endings
<1>3. /\ delivered' \in [Jobs -> Nat] /\ UNCHANGED <<blocked, usage>>
      /\ \A j \in Jobs : delivered'[j] = delivered[j] \/ delivered'[j] = delivered[j] + 1
      /\ pc' = [pc EXCEPT ![s] = "idle"] /\ cur' = [cur EXCEPT ![s] = NoJob]
  BY <1>1, AbortEffect DEF BaseInv
<1>4. \A q \in Senders : (pc'[q] = pc[q] /\ cur'[q] = cur[q]) \/ pc'[q] = "idle"
  BY <1>3 DEF BaseInv, TypeOK
<1>5. /\ \A j \in Jobs : delivered'[j] >= delivered[j] /\ usage'[j] >= usage[j]
      /\ usage' \in [Jobs -> Nat]
  BY <1>3 DEF BaseInv, TypeOK
<1>6. \A j \in Jobs : job'[j] = "completed" => Accounted(j)
  BY <1>2 DEF AccountInv
<1> QED
  BY <1>3, <1>4, <1>5, <1>6, AccountKept

LEMMA AccountInvariance == Spec => [](BaseInv /\ AccountInv)
<1>1. Init => AccountInv
  BY DEF Init, AccountInv
<1>2. BaseInv /\ AccountInv /\ [Next]_vars => AccountInv'
  <2> SUFFICES ASSUME BaseInv, AccountInv, [Next]_vars PROVE AccountInv'
    OBVIOUS
  <2>0. delivered \in [Jobs -> Nat] /\ usage \in [Jobs -> Nat] /\ pc \in [Senders -> Steps]
    BY DEF BaseInv, TypeOK, Steps
  <2>1. ASSUME NEW s \in Senders, NEW j \in Jobs, TakeJob(s, j) PROVE AccountInv'
    <3>1. /\ UNCHANGED <<blocked, delivered, usage>>
          /\ \A q \in Senders : (pc'[q] = pc[q] /\ cur'[q] = cur[q]) \/ pc'[q] = "prepare"
          /\ \A k \in Jobs : job'[k] = job[k] \/ job'[k] = "active"
      BY <2>0, <2>1 DEF TakeJob, sendVars, BaseInv, TypeOK
    <3> QED
      BY <2>0, <3>1, AccountKept DEF AccountInv
  <2>2. ASSUME NEW j \in Jobs, Stall(j) PROVE AccountInv'
    <3>1. /\ UNCHANGED <<blocked, delivered, usage, pc, cur>>
          /\ \A k \in Jobs : job'[k] = job[k] \/ job'[k] # "completed"
      BY <2>2 DEF Stall, slotVars, sendVars, BaseInv, TypeOK
    <3> QED
      BY <2>0, <3>1, AccountKept DEF AccountInv
  <2>3. CASE Environment \/ UNCHANGED vars
    <3>1. UNCHANGED <<job, blocked, delivered, usage, pc, cur>>
      BY <2>3 DEF Environment, Tick, CustomerWrites, Inbound, vars, jobVars, slotVars, sendVars
    <3> QED
      BY <2>0, <3>1, AccountKept DEF AccountInv
  <2> QED
    BY <2>1, <2>2, <2>3, AccountSlotStep, AccountAbort DEF Next, Environment
<1> QED
  BY <1>1, <1>2, BaseInvariance, PTL DEF Spec

(* A completed job was refused by policy, or accepted by Meta and metered. *)
THEOREM CompletedJobsAreAccounted == Spec => []CompletedIsAccounted
<1>1. AccountInv => CompletedIsAccounted
  BY DEF AccountInv, CompletedIsAccounted, Accounted
<1> QED
  BY <1>1, AccountInvariance, PTL

-----------------------------------------------------------------------------
(* last_inbound_at is the time of a message the customer wrote. *)

WindowInv == lastInbound # 0 => lastInbound \in written

LEMMA WindowInvariance == Spec => [](BaseInv /\ WindowInv)
<1>1. Init => WindowInv
  BY DEF Init, WindowInv
<1>2. WindowInv /\ [Next]_vars => WindowInv'
  <2> SUFFICES ASSUME WindowInv, [Next]_vars PROVE WindowInv'
    OBVIOUS
  <2>1. CASE UNCHANGED <<lastInbound, written>>
    BY <2>1 DEF WindowInv
  <2>2. CASE CustomerWrites
    BY <2>2 DEF CustomerWrites, WindowInv
  <2>3. ASSUME NEW ts \in written, Inbound(ts) PROVE WindowInv'
    BY <2>3 DEF Inbound, WindowInv
  <2>4. ASSUME NEW s \in Senders, SlotStep(s) PROVE UNCHANGED <<lastInbound, written>>
    BY <2>4 DEF SlotStep, Prepare, ThrowNoCredentials, Send, Record, Finish, contactVars
  <2>5. ASSUME NEW s \in Senders, Throw(s) \/ Crash(s) PROVE UNCHANGED <<lastInbound, written>>
    BY <2>5 DEF Throw, Crash, Abort, contactVars
  <2>6. ASSUME NEW s \in Senders, NEW j \in Jobs, TakeJob(s, j)
        PROVE  UNCHANGED <<lastInbound, written>>
    BY <2>6 DEF TakeJob, contactVars
  <2>7. ASSUME NEW j \in Jobs, Stall(j) PROVE UNCHANGED <<lastInbound, written>>
    BY <2>7 DEF Stall, contactVars
  <2>8. CASE Tick \/ UNCHANGED vars
    BY <2>1, <2>8 DEF Tick, vars, contactVars
  <2> QED
    BY <2>1, <2>2, <2>3, <2>4, <2>5, <2>6, <2>7, <2>8 DEF Next
<1> QED
  BY <1>1, <1>2, BaseInvariance, PTL DEF Spec

(* Only the policy check moves a slot from preparing to sending. *)
LEMMA OnlyPrepareAllows ==
  ASSUME BaseInv, [Next]_vars, NEW s \in Senders, pc[s] = "prepare", pc'[s] = "send"
  PROVE  Prepare(s) /\ CheckSendPolicy(cur[s])
<1>0. pc \in [Senders -> Steps]
  BY DEF BaseInv, TypeOK, Steps
<1>1. ASSUME NEW q \in Senders, SlotStep(q) PROVE Prepare(s)
  <2>1. CASE Prepare(q)
    BY <1>0, <2>1 DEF Prepare
  <2>2. CASE ThrowNoCredentials(q) \/ Finish(q)
    BY <1>0, <2>2 DEF ThrowNoCredentials, Finish, FreeSlot
  <2>3. CASE Send(q) \/ Record(q)
    BY <1>0, <2>3 DEF Send, Record
  <2> QED
    BY <1>1, <2>1, <2>2, <2>3 DEF SlotStep
<1>2. \A q \in Senders : ~Throw(q) /\ ~Crash(q)
  BY <1>0 DEF Throw, Crash, Abort, FreeSlot
<1>3. \A q \in Senders, j \in Jobs : ~TakeJob(q, j)
  BY <1>0 DEF TakeJob
<1>4. pc' # pc
  OBVIOUS
<1>5. /\ ~(\E j \in Jobs : Stall(j)) /\ ~CustomerWrites /\ ~Tick
      /\ ~(\E ts \in written : Inbound(ts)) /\ ~(UNCHANGED vars)
  BY <1>4 DEF Stall, CustomerWrites, Tick, Inbound, slotVars, vars
<1>6. Prepare(s)
  BY <1>1, <1>2, <1>3, <1>5 DEF Next
<1> QED
  BY <1>0, <1>6 DEF Prepare

(* A free-form message passes the policy only while the customer wrote less
   than a window ago. *)
THEOREM FreeformWindowIsSound == Spec => WindowIsSound
<1> DEFINE Sound ==
      \A s \in Senders :
        pc[s] = "prepare" /\ pc'[s] = "send" /\ KindOf[cur[s]] = "freeform" =>
          \E ts \in written : clock - ts < Window
<1>1. BaseInv /\ WindowInv /\ [Next]_vars => Sound
  <2> SUFFICES ASSUME BaseInv, WindowInv, [Next]_vars, NEW s \in Senders,
                      pc[s] = "prepare", pc'[s] = "send", KindOf[cur[s]] = "freeform"
               PROVE  \E ts \in written : clock - ts < Window
    OBVIOUS
  <2>1. CheckSendPolicy(cur[s])
    BY OnlyPrepareAllows
  <2>2. IsWithinServiceWindow(lastInbound, clock)
    BY <2>1 DEF CheckSendPolicy, Allowed, IsWithinServiceWindow
  <2> QED
    BY <2>2 DEF IsWithinServiceWindow, WindowInv
<1> QED
  BY <1>1, WindowInvariance, PTL DEF Spec, WindowIsSound

-----------------------------------------------------------------------------
(* Every slot between Meta's answer and the record stands for a delivery that
   is not billed yet. *)

Recording(j) == {s \in Senders : pc[s] = "record" /\ cur[s] = j}

BillInv ==
  \A j \in Jobs : /\ usage[j] + Cardinality(Recording(j)) <= delivered[j]
                  /\ transcript[j] <= usage[j]

LEMMA SlotSetType ==
  ASSUME NEW S \in SUBSET Senders
  PROVE  IsFiniteSet(S) /\ Cardinality(S) \in Nat
BY FS_Subset, FS_CardinalityType

(* Fewer slots to record, more deliveries, the same bill. *)
LEMMA BillKept ==
  ASSUME BaseInv, BillInv, UNCHANGED <<usage, transcript>>,
         \A j \in Jobs : delivered'[j] \in Nat /\ delivered'[j] >= delivered[j],
         \A s \in Senders : (pc'[s] = pc[s] /\ cur'[s] = cur[s]) \/ pc'[s] # "record"
  PROVE  BillInv'
<1> SUFFICES ASSUME NEW j \in Jobs
             PROVE  /\ usage'[j] + Cardinality(Recording(j)') <= delivered'[j]
                    /\ transcript'[j] <= usage'[j]
  BY DEF BillInv
<1>1. Recording(j)' \in SUBSET Recording(j) /\ Recording(j) \in SUBSET Senders
  BY DEF Recording
<1>2. /\ Cardinality(Recording(j)') \in Nat /\ Cardinality(Recording(j)) \in Nat
      /\ Cardinality(Recording(j)') <= Cardinality(Recording(j))
  BY <1>1, SlotSetType, FS_Subset
<1>3. usage[j] \in Nat /\ delivered[j] \in Nat
  BY DEF BaseInv, TypeOK
<1> QED
  BY <1>2, <1>3 DEF BillInv

LEMMA BillSend ==
  ASSUME BaseInv, BillInv, NEW s \in Senders, Send(s)
  PROVE  BillInv'
<1>0. /\ delivered \in [Jobs -> Nat] /\ usage \in [Jobs -> Nat] /\ pc \in [Senders -> Steps]
      /\ cur[s] \in Jobs /\ UNCHANGED <<cur, usage, transcript>>
  BY DEF BaseInv, Bound, TypeOK, Steps, Send
<1> SUFFICES ASSUME NEW j \in Jobs
             PROVE  usage[j] + Cardinality(Recording(j)') <= delivered'[j]
  BY <1>0 DEF BillInv
<1>1. Recording(j) \in SUBSET Senders /\ s \notin Recording(j)
  BY DEF Recording, Send
<1>2. IsFiniteSet(Recording(j)) /\ Cardinality(Recording(j)) \in Nat
  BY <1>1, SlotSetType
<1>3. usage[j] + Cardinality(Recording(j)) <= delivered[j]
  BY DEF BillInv
<1>4. CASE j = cur[s]
  <2>1. Recording(j)' = Recording(j) \cup {s}
    BY <1>0, <1>4 DEF Recording, Send
  <2>2. Cardinality(Recording(j)') = Cardinality(Recording(j)) + 1
    BY <1>1, <1>2, <2>1, FS_AddElement
  <2>3. delivered'[j] = delivered[j] + 1
    BY <1>0, <1>4 DEF Send
  <2> QED
    BY <1>0, <1>2, <1>3, <2>2, <2>3
<1>5. CASE j # cur[s]
  <2>1. Recording(j)' = Recording(j)
    BY <1>0, <1>5 DEF Recording, Send
  <2>2. delivered'[j] = delivered[j]
    BY <1>0, <1>5 DEF Send
  <2> QED
    BY <1>3, <2>1, <2>2
<1> QED
  BY <1>4, <1>5

LEMMA BillRecord ==
  ASSUME BaseInv, BillInv, NEW s \in Senders, Record(s)
  PROVE  BillInv'
<1>0. /\ delivered \in [Jobs -> Nat] /\ usage \in [Jobs -> Nat] /\ transcript \in [Jobs -> Nat]
      /\ pc \in [Senders -> Steps] /\ cur[s] \in Jobs /\ UNCHANGED <<cur, delivered>>
  BY DEF BaseInv, Bound, TypeOK, Steps, Record
<1> SUFFICES ASSUME NEW j \in Jobs
             PROVE  /\ usage'[j] + Cardinality(Recording(j)') <= delivered[j]
                    /\ transcript'[j] <= usage'[j]
  BY <1>0 DEF BillInv
<1>1. Recording(j) \in SUBSET Senders
  BY DEF Recording
<1>2. IsFiniteSet(Recording(j)) /\ Cardinality(Recording(j)) \in Nat
  BY <1>1, SlotSetType
<1>3. usage[j] + Cardinality(Recording(j)) <= delivered[j] /\ transcript[j] <= usage[j]
  BY DEF BillInv
<1>4. CASE j = cur[s]
  <2>1. s \in Recording(j) /\ Recording(j)' = Recording(j) \ {s}
    BY <1>0, <1>4 DEF Recording, Record
  <2>2. Cardinality(Recording(j)') = Cardinality(Recording(j)) - 1
    BY <1>2, <2>1, FS_RemoveElement
  <2>3. usage'[j] = usage[j] + 1 /\ transcript'[j] \in {transcript[j], transcript[j] + 1}
    BY <1>0, <1>4 DEF Record
  <2> QED
    BY <1>0, <1>2, <1>3, <2>2, <2>3
<1>5. CASE j # cur[s]
  <2>1. Recording(j)' = Recording(j)
    BY <1>0, <1>5 DEF Recording, Record
  <2>2. usage'[j] = usage[j] /\ transcript'[j] = transcript[j]
    BY <1>0, <1>5 DEF Record
  <2> QED
    BY <1>3, <2>1, <2>2
<1> QED
  BY <1>4, <1>5

LEMMA BillInvariance == Spec => [](BaseInv /\ BillInv)
<1>1. Init => BillInv
  <2> SUFFICES ASSUME Init, NEW j \in Jobs
               PROVE  /\ usage[j] + Cardinality(Recording(j)) <= delivered[j]
                      /\ transcript[j] <= usage[j]
    BY DEF BillInv
  <2>1. Recording(j) = {}
    BY DEF Init, Recording
  <2> QED
    BY <2>1, FS_EmptySet DEF Init
<1>2. BaseInv /\ BillInv /\ [Next]_vars => BillInv'
  <2> SUFFICES ASSUME BaseInv, BillInv, [Next]_vars PROVE BillInv'
    OBVIOUS
  <2>0. delivered \in [Jobs -> Nat] /\ pc \in [Senders -> Steps] /\ cur \in [Senders -> Jobs \cup {NoJob}]
    BY DEF BaseInv, TypeOK, Steps
  <2>1. ASSUME NEW s \in Senders, Prepare(s) \/ ThrowNoCredentials(s) \/ Finish(s) PROVE BillInv'
    <3>1. /\ UNCHANGED <<delivered, usage, transcript>>
          /\ \A q \in Senders : (pc'[q] = pc[q] /\ cur'[q] = cur[q]) \/ pc'[q] # "record"
      BY <2>0, <2>1 DEF Prepare, ThrowNoCredentials, Finish, FreeSlot, sendVars
    <3> QED
      BY <2>0, <3>1, BillKept
  <2>2. ASSUME NEW s \in Senders, Throw(s) \/ Crash(s) PROVE BillInv'
    <3>1. pc[s] # "idle" /\ cur[s] \in Jobs /\ Abort(s)
      BY <2>2 DEF Throw, Crash, BaseInv, Bound
    <3>2. /\ UNCHANGED <<usage, transcript>> /\ pc' = [pc EXCEPT ![s] = "idle"]
          /\ cur' = [cur EXCEPT ![s] = NoJob]
          /\ \A j \in Jobs : /\ delivered'[j] \in Nat
                             /\ delivered'[j] = delivered[j] \/ delivered'[j] = delivered[j] + 1
      BY <3>1, AbortEffect DEF BaseInv
    <3>3. \A q \in Senders : (pc'[q] = pc[q] /\ cur'[q] = cur[q]) \/ pc'[q] # "record"
      BY <2>0, <3>2
    <3> QED
      BY <2>0, <3>2, <3>3, BillKept
  <2>3. ASSUME NEW s \in Senders, NEW j \in Jobs, TakeJob(s, j) PROVE BillInv'
    <3>1. /\ UNCHANGED <<delivered, usage, transcript>>
          /\ \A q \in Senders : (pc'[q] = pc[q] /\ cur'[q] = cur[q]) \/ pc'[q] # "record"
      BY <2>0, <2>3 DEF TakeJob, sendVars
    <3> QED
      BY <2>0, <3>1, BillKept
  <2>4. CASE (\E j \in Jobs : Stall(j)) \/ Environment \/ UNCHANGED vars
    <3>1. UNCHANGED <<delivered, usage, transcript, pc, cur>>
      BY <2>4 DEF Stall, Environment, Tick, CustomerWrites, Inbound, vars, slotVars, sendVars
    <3> QED
      BY <2>0, <3>1, BillKept
  <2> QED
    BY <2>1, <2>2, <2>3, <2>4, BillSend, BillRecord DEF Next, SlotStep, Environment
<1> QED
  BY <1>1, <1>2, BaseInvariance, PTL DEF Spec

(* The bill never exceeds what Meta accepted, nor the transcript the bill. *)
THEOREM BillsAreHonest == Spec => []NeverOverbilled
<1>1. BaseInv /\ BillInv => NeverOverbilled
  <2> SUFFICES ASSUME BaseInv, BillInv, NEW j \in Jobs
               PROVE  usage[j] <= delivered[j] /\ transcript[j] <= usage[j]
    BY DEF NeverOverbilled
  <2>1. Recording(j) \in SUBSET Senders
    BY DEF Recording
  <2>2. Cardinality(Recording(j)) \in Nat /\ usage[j] \in Nat /\ delivered[j] \in Nat
    BY <2>1, SlotSetType DEF BaseInv, TypeOK
  <2> QED
    BY <2>2 DEF BillInv
<1> QED
  BY <1>1, BillInvariance, PTL

-----------------------------------------------------------------------------
(* A job is started once, and once more for each stall BullMQ forgives; every
   slot that has not sent yet still has the delivery of its start ahead. *)

Unsent(j) == {s \in Senders : pc[s] \in {"prepare", "send"} /\ cur[s] = j}

Starts(j) ==
  stalls[j] + (IF job[j] \in {"active", "completed"} \/ (job[j] = "failed" /\ stalls[j] <= MaxStalled)
                 THEN 1 ELSE 0)

StartInv == \A j \in Jobs : delivered[j] + Cardinality(Unsent(j)) <= Starts(j)

LEMMA StartsType ==
  ASSUME BaseInv, NEW j \in Jobs
  PROVE  Starts(j) \in Nat /\ Starts(j) <= MaxStalled + 1
BY DEF Starts, BaseInv, Bound, TypeOK

(* No job is started, and no slot joins those that have not sent. *)
LEMMA StartKept ==
  ASSUME BaseInv, StartInv,
         \A j \in Jobs : Starts(j)' = Starts(j),
         delivered' = delivered,
         \A s \in Senders : \/ pc'[s] = pc[s] /\ cur'[s] = cur[s]
                            \/ cur'[s] = cur[s] /\ pc[s] = "prepare"
                            \/ pc'[s] \notin {"prepare", "send"}
  PROVE  StartInv'
<1> SUFFICES ASSUME NEW j \in Jobs
             PROVE  delivered'[j] + Cardinality(Unsent(j)') <= Starts(j)'
  BY DEF StartInv
<1>1. Unsent(j)' \in SUBSET Unsent(j) /\ Unsent(j) \in SUBSET Senders
  BY DEF Unsent
<1>2. /\ Cardinality(Unsent(j)') \in Nat /\ Cardinality(Unsent(j)) \in Nat
      /\ Cardinality(Unsent(j)') <= Cardinality(Unsent(j))
  BY <1>1, SlotSetType, FS_Subset
<1>3. delivered[j] \in Nat /\ Starts(j) \in Nat
  BY StartsType DEF BaseInv, TypeOK
<1> QED
  BY <1>2, <1>3 DEF StartInv

(* A slot leaves those that have not sent, with at most one delivery. *)
LEMMA StartUsed ==
  ASSUME BaseInv, StartInv, NEW s \in Senders, cur[s] \in Jobs,
         \A j \in Jobs : Starts(j)' = Starts(j),
         \A j \in Jobs : /\ delivered'[j] \in Nat
                         /\ delivered'[j] = delivered[j] \/ delivered'[j] = delivered[j] + 1
                         /\ delivered'[j] # delivered[j] => pc[s] = "send" /\ cur[s] = j,
         pc'[s] \notin {"prepare", "send"},
         \A q \in Senders \ {s} : pc'[q] = pc[q] /\ cur'[q] = cur[q]
  PROVE  StartInv'
<1> SUFFICES ASSUME NEW j \in Jobs
             PROVE  delivered'[j] + Cardinality(Unsent(j)') <= Starts(j)'
  BY DEF StartInv
<1>1. Unsent(j) \in SUBSET Senders /\ Unsent(j)' = Unsent(j) \ {s}
  BY DEF Unsent
<1>2. IsFiniteSet(Unsent(j)) /\ Cardinality(Unsent(j)) \in Nat
  BY <1>1, SlotSetType
<1>3. Cardinality(Unsent(j)') = IF s \in Unsent(j) THEN Cardinality(Unsent(j)) - 1
                                                  ELSE Cardinality(Unsent(j))
  BY <1>1, <1>2, FS_RemoveElement
<1>4. delivered[j] \in Nat /\ Starts(j) \in Nat
  BY StartsType DEF BaseInv, TypeOK
<1>5. delivered'[j] # delivered[j] => s \in Unsent(j)
  BY DEF Unsent
<1>6. delivered[j] + Cardinality(Unsent(j)) <= Starts(j)
  BY DEF StartInv
<1> QED
  BY <1>2, <1>3, <1>4, <1>5, <1>6

LEMMA StartTake ==
  ASSUME BaseInv, StartInv, NEW s \in Senders, NEW j \in Jobs, TakeJob(s, j)
  PROVE  StartInv'
<1>0. /\ pc \in [Senders -> Steps] /\ cur \in [Senders -> Jobs \cup {NoJob}]
      /\ job \in [Jobs -> {"waiting", "active", "completed", "failed"}]
      /\ UNCHANGED <<stalls, delivered>>
  BY DEF BaseInv, TypeOK, Steps, TakeJob, sendVars
<1> SUFFICES ASSUME NEW k \in Jobs
             PROVE  delivered'[k] + Cardinality(Unsent(k)') <= Starts(k)'
  BY DEF StartInv
<1>1. Unsent(k) \in SUBSET Senders /\ s \notin Unsent(k)
  BY DEF Unsent, TakeJob
<1>2. IsFiniteSet(Unsent(k)) /\ Cardinality(Unsent(k)) \in Nat
  BY <1>1, SlotSetType
<1>3. delivered[k] + Cardinality(Unsent(k)) <= Starts(k)
  BY DEF StartInv
<1>4. delivered[k] \in Nat /\ stalls[k] \in Nat
  BY DEF BaseInv, TypeOK
<1>5. CASE k = j
  <2>1. Unsent(k)' = Unsent(k) \cup {s}
    BY <1>0, <1>5 DEF Unsent, TakeJob
  <2>2. Cardinality(Unsent(k)') = Cardinality(Unsent(k)) + 1
    BY <1>1, <1>2, <2>1, FS_AddElement
  <2>3. Starts(k)' = stalls[k] + 1 /\ Starts(k) = stalls[k]
    BY <1>0, <1>4, <1>5 DEF Starts, TakeJob
  <2> QED
    BY <1>0, <1>2, <1>3, <1>4, <2>2, <2>3
<1>6. CASE k # j
  <2>1. Unsent(k)' = Unsent(k)
    BY <1>0, <1>6 DEF Unsent, TakeJob
  <2>2. Starts(k)' = Starts(k)
    BY <1>0, <1>6 DEF Starts, TakeJob
  <2> QED
    BY <1>0, <1>3, <2>1, <2>2
<1> QED
  BY <1>5, <1>6

(* Only its owner settles a job, which is active then: it has been started. *)
LEMMA SettleStarts ==
  ASSUME BaseInv, NEW s \in Senders, cur[s] \in Jobs, NEW state \in Endings,
         Settle(s, state) \/ UNCHANGED <<job, owner>>, UNCHANGED stalls
  PROVE  \A j \in Jobs : Starts(j)' = Starts(j)
<1> SUFFICES ASSUME NEW j \in Jobs PROVE Starts(j)' = Starts(j)
  OBVIOUS
<1>1. job'[j] = job[j] \/ (owner[j] = s /\ job'[j] = state)
  BY SettleEffect DEF BaseInv
<1>2. CASE job'[j] = job[j]
  BY <1>2 DEF Starts
<1>3. CASE owner[j] = s /\ job'[j] = state
  <2>1. job[j] = "active" /\ stalls[j] <= MaxStalled
    BY <1>3 DEF BaseInv, Bound
  <2> QED
    BY <1>3, <2>1 DEF Starts, Endings
<1> QED
  BY <1>1, <1>2, <1>3

LEMMA StallStarts ==
  ASSUME BaseInv, NEW j \in Jobs, Stall(j)
  PROVE  \A k \in Jobs : Starts(k)' = Starts(k)
<1> SUFFICES ASSUME NEW k \in Jobs PROVE Starts(k)' = Starts(k)
  OBVIOUS
<1>1. CASE k = j
  <2>1. job[k] = "active" /\ stalls[k] \in Nat /\ stalls[k] <= MaxStalled
    BY <1>1 DEF Stall, BaseInv, Bound, TypeOK
  <2>2. stalls'[k] = stalls[k] + 1
    BY <1>1 DEF Stall, BaseInv, TypeOK
  <2>3. job'[k] = IF stalls[k] < MaxStalled THEN "waiting" ELSE "failed"
    BY <1>1 DEF Stall, BaseInv, TypeOK
  <2> QED
    BY <2>1, <2>2, <2>3 DEF Starts
<1>2. CASE k # j
  BY <1>2 DEF Stall, Starts, BaseInv, TypeOK
<1> QED
  BY <1>1, <1>2

LEMMA StartInvariance == Spec => [](BaseInv /\ StartInv)
<1>1. Init => StartInv
  <2> SUFFICES ASSUME Init, NEW j \in Jobs
               PROVE  delivered[j] + Cardinality(Unsent(j)) <= Starts(j)
    BY DEF StartInv
  <2>1. Unsent(j) = {}
    BY DEF Init, Unsent
  <2> QED
    BY <2>1, FS_EmptySet DEF Init, Starts
<1>2. BaseInv /\ StartInv /\ [Next]_vars => StartInv'
  <2> SUFFICES ASSUME BaseInv, StartInv, [Next]_vars PROVE StartInv'
    OBVIOUS
  <2>0. /\ delivered \in [Jobs -> Nat] /\ pc \in [Senders -> Steps]
        /\ cur \in [Senders -> Jobs \cup {NoJob}]
    BY DEF BaseInv, TypeOK, Steps
  <2>1. ASSUME NEW s \in Senders, Prepare(s) \/ Record(s) PROVE StartInv'
    <3>1. /\ UNCHANGED <<delivered, cur, job, stalls>>
          /\ \A q \in Senders : \/ pc'[q] = pc[q]
                                \/ pc[q] = "prepare"
                                \/ pc'[q] \notin {"prepare", "send"}
      BY <2>0, <2>1 DEF Prepare, Record, jobVars, sendVars
    <3> QED
      BY <3>1, StartKept DEF Starts
  <2>2. ASSUME NEW s \in Senders, Send(s) PROVE StartInv'
    <3>1. /\ cur[s] \in Jobs /\ UNCHANGED <<cur, job, stalls>> /\ pc[s] = "send"
          /\ pc'[s] = "record" /\ \A q \in Senders \ {s} : pc'[q] = pc[q]
      BY <2>0, <2>2 DEF Send, jobVars, BaseInv, Bound
    <3>2. \A j \in Jobs : /\ delivered'[j] \in Nat
                          /\ delivered'[j] = delivered[j] \/ delivered'[j] = delivered[j] + 1
                          /\ delivered'[j] # delivered[j] => cur[s] = j
      BY <2>0, <2>2, <3>1 DEF Send
    <3> QED
      BY <3>1, <3>2, StartUsed DEF Starts
  <2>3. ASSUME NEW s \in Senders, ThrowNoCredentials(s) \/ Finish(s) PROVE StartInv'
    <3>1. /\ cur[s] \in Jobs /\ UNCHANGED <<delivered, stalls>>
          /\ \E state \in Endings : Settle(s, state)
          /\ \A q \in Senders : (pc'[q] = pc[q] /\ cur'[q] = cur[q]) \/ pc'[q] = "idle"
      BY <2>0, <2>3 DEF ThrowNoCredentials, Finish, FreeSlot, sendVars, Endings, BaseInv, Bound
    <3>2. \A j \in Jobs : Starts(j)' = Starts(j)
      BY <3>1, SettleStarts
    <3> QED
      BY <3>1, <3>2, StartKept
  <2>4. ASSUME NEW s \in Senders, Throw(s) \/ Crash(s) PROVE StartInv'
    <3>1. pc[s] # "idle" /\ cur[s] \in Jobs /\ Abort(s)
      BY <2>4 DEF Throw, Crash, BaseInv, Bound
    <3>2. /\ UNCHANGED stalls /\ pc' = [pc EXCEPT ![s] = "idle"]
          /\ cur' = [cur EXCEPT ![s] = NoJob]
          /\ \A j \in Jobs : /\ delivered'[j] \in Nat
                             /\ delivered'[j] = delivered[j] \/ delivered'[j] = delivered[j] + 1
                             /\ delivered'[j] # delivered[j] => pc[s] = "send" /\ cur[s] = j
      BY <3>1, AbortEffect DEF BaseInv
    <3>3. Settle(s, "failed") \/ UNCHANGED <<job, owner>>
      BY <2>4 DEF Throw, Crash
    <3>4. \A j \in Jobs : Starts(j)' = Starts(j)
      BY <3>1, <3>2, <3>3, SettleStarts DEF Endings
    <3>5. /\ pc'[s] = "idle"
          /\ \A q \in Senders \ {s} : pc'[q] = pc[q] /\ cur'[q] = cur[q]
      BY <2>0, <3>2
    <3> QED
      BY <3>1, <3>2, <3>4, <3>5, StartUsed
  <2>5. ASSUME NEW j \in Jobs, Stall(j) PROVE StartInv'
    <3>1. UNCHANGED <<delivered, pc, cur>>
      BY <2>5 DEF Stall, slotVars, sendVars
    <3> QED
      BY <2>5, <3>1, StallStarts, StartKept
  <2>6. CASE Environment \/ UNCHANGED vars
    <3>1. UNCHANGED <<delivered, pc, cur, job, stalls>>
      BY <2>6 DEF Environment, Tick, CustomerWrites, Inbound, vars, jobVars, slotVars, sendVars
    <3> QED
      BY <3>1, StartKept DEF Starts
  <2> QED
    BY <2>1, <2>2, <2>3, <2>4, <2>5, <2>6, StartTake DEF Next, SlotStep, Environment
<1> QED
  BY <1>1, <1>2, BaseInvariance, PTL DEF Spec

(* Meta accepts a queued message at most once for each start of its job. *)
THEOREM MessagesAreBounded == Spec => []DeliveriesAreBounded
<1>1. BaseInv /\ StartInv => DeliveriesAreBounded
  <2> SUFFICES ASSUME BaseInv, StartInv, NEW j \in Jobs PROVE delivered[j] <= 1 + MaxStalled
    BY DEF DeliveriesAreBounded
  <2>1. Unsent(j) \in SUBSET Senders
    BY DEF Unsent
  <2>2. Cardinality(Unsent(j)) \in Nat /\ delivered[j] \in Nat
    BY <2>1, SlotSetType DEF BaseInv, TypeOK
  <2> QED
    BY <2>2, StartsType DEF StartInv
<1> QED
  BY <1>1, StartInvariance, PTL

=============================================================================
