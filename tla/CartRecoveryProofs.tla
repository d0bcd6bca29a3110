------------------------- MODULE CartRecoveryProofs -------------------------
(***************************************************************************)
(* Abandoned-cart recovery for any number of carts, events, slots, runners, *)
(* stalls and failures: scheduled carts have their job, the queue never     *)
(* runs ahead of the table, and revenue is attributed to messages only.     *)
(* With one stall forgiven, a cart gets one message.                        *)
(***************************************************************************)
EXTENDS CartRecovery, FiniteSetTheorems, TLAPS

USE CartAssumption

RecoveryStates == {"none", "scheduled", "sent", "recovered"}
JobStates == {"none", "delayed", "waiting", "active", "completed", "failed"}

LEMMA CartOfType ==
  ASSUME NEW e \in Events
  PROVE  CartOf(e) \in Carts
BY DEF CartOf, CheckoutEvents, OrderEvents

-----------------------------------------------------------------------------
(* Types, and the binding of slots and runners. *)

Bound ==
  /\ \A w \in Slots : IF pc[w] = "idle" THEN seen[w] = "none" ELSE ev[w] \in Events
  /\ \A r \in Runners : rpc[r] # "idle" => cart[r] \in Carts

BaseInv == TypeOK /\ Bound

LEMMA BaseInit == Init => BaseInv
BY DEF Init, BaseInv, TypeOK, Bound

(* The end of a transaction frees its slot. *)
LEMMA EndTransactionEffect ==
  ASSUME BaseInv, NEW w \in Slots, EndTransaction(w)
  PROVE  /\ pc' \in [Slots -> {"idle", "read", "write", "schedule", "scheduled", "commit", "skip"}]
         /\ ev' \in [Slots -> Events \cup {NoEvent}] /\ seen' \in [Slots -> RecoveryStates]
         /\ notDueBefore' \in [Carts -> SUBSET Slots]
         /\ pc'[w] = "idle" /\ seen'[w] = "none"
         /\ \A v \in Slots \ {w} : pc'[v] = pc[v] /\ ev'[v] = ev[v] /\ seen'[v] = seen[v]
BY DEF EndTransaction, BaseInv, TypeOK, RecoveryStates

(* The end of a run frees its runner, and settles the job only as its owner. *)
LEMMA EndRunEffect ==
  ASSUME BaseInv, NEW r \in Runners, rpc[r] # "idle", EndRun(r),
         NEW state \in {"completed", "failed"}, Settle(r, state) \/ UNCHANGED <<job, owner>>
  PROVE  /\ rpc' \in [Runners -> {"idle", "read", "reset", "mark", "enqueue", "done"}]
         /\ cart' \in [Runners -> Carts \cup {NoCart}] /\ afterOrder' \subseteq Runners
         /\ job' \in [Carts -> JobStates] /\ owner' \in [Carts -> Runners \cup {NoRunner}]
         /\ \A t \in Carts : job[t] # "none" => job'[t] # "none"
         /\ rpc'[r] = "idle"
         /\ \A q \in Runners \ {r} : rpc'[q] = rpc[q] /\ cart'[q] = cart[q]
<1>1. cart[r] \in Carts
  BY DEF BaseInv, Bound
<1>2. /\ job' \in [Carts -> JobStates] /\ owner' \in [Carts -> Runners \cup {NoRunner}]
      /\ \A t \in Carts : job[t] # "none" => job'[t] # "none"
  BY <1>1 DEF Settle, BaseInv, TypeOK, JobStates
<1> QED
  BY <1>2 DEF EndRun, BaseInv, TypeOK

LEMMA BaseEvent ==
  ASSUME BaseInv, NEW w \in Slots,
         EventStep(w) \/ AbortEvent(w) \/ \E e \in Events : BeginEvent(w, e)
  PROVE  BaseInv'
<1> USE DEF BaseInv, RecoveryStates
<1>1. ASSUME NEW e \in Events, BeginEvent(w, e) PROVE BaseInv'
  <2>0. notDueBefore' \in [Carts -> SUBSET Slots]
    <3>1. notDueBefore \in [Carts -> SUBSET Slots] /\ CartOf(e) \in Carts
      BY CartOfType DEF TypeOK
    <3> DEFINE due == IF notDueBefore[CartOf(e)] = {} THEN {} ELSE notDueBefore[CartOf(e)] \cup {w}
    <3>2. due \in SUBSET Slots
      BY <3>1
    <3>3. notDueBefore' = [notDueBefore EXCEPT ![CartOf(e)] = due]
      BY <1>1 DEF BeginEvent
    <3> HIDE DEF due
    <3> QED
      BY <3>1, <3>2, <3>3
  <2>1. TypeOK'
    BY <1>1, <2>0 DEF BeginEvent, TypeOK, dbVars, runVars, runHist
  <2>2. Bound'
    BY <1>1 DEF BeginEvent, Bound, TypeOK, runVars
  <2> QED
    BY <2>1, <2>2
<1>2. CASE ReadCart(w)
  <2>1. ev[w] \in Events /\ CartOf(ev[w]) \in Carts
    BY <1>2, CartOfType DEF ReadCart, Bound
  <2>2. TypeOK'
    BY <1>2, <2>1 DEF ReadCart, TypeOK, dbVars, jobVars, runVars, runHist
  <2>3. Bound'
    BY <1>2, <2>1 DEF ReadCart, Bound, TypeOK, runVars
  <2> QED
    BY <2>2, <2>3
<1>3. CASE WriteCart(w)
  <2>1. TypeOK'
    BY <1>3 DEF WriteCart, TypeOK, dbVars, jobVars, runVars, runHist
  <2>2. Bound'
    BY <1>3 DEF WriteCart, Bound, TypeOK, runVars
  <2> QED
    BY <2>1, <2>2
<1>4. CASE ScheduleRecovery(w)
  <2>1. ev[w] \in Events /\ CartOf(ev[w]) \in Carts
    BY <1>4, CartOfType DEF ScheduleRecovery, Bound
  <2>2. TypeOK'
    BY <1>4, <2>1 DEF ScheduleRecovery, TypeOK, dbVars, runVars, runHist
  <2>3. Bound'
    BY <1>4, <2>1 DEF ScheduleRecovery, Bound, TypeOK, runVars
  <2> QED
    BY <2>2, <2>3
<1>5. CASE CommitCheckout(w)
  <2>1. ev[w] \in Events /\ CartOf(ev[w]) \in Carts
    BY <1>5, CartOfType DEF CommitCheckout, Bound
  <2>2. /\ cartStatus' \in [Carts -> {"absent", "open", "completed"}]
        /\ recoveryState' \in [Carts -> RecoveryStates]
        /\ ledger' \subseteq Events /\ overwritten' \subseteq Carts
    BY <1>5, <2>1 DEF CommitCheckout, TypeOK
  <2>3. TypeOK'
    BY <1>5, <2>2, EndTransactionEffect DEF CommitCheckout, TypeOK, runVars, runHist
  <2>4. Bound'
    BY <1>5, EndTransactionEffect DEF CommitCheckout, Bound, runVars
  <2> QED
    BY <2>3, <2>4
<1>6. CASE CommitOrder(w)
  <2>1. ev[w] \in Events /\ CartOf(ev[w]) \in Carts
    BY <1>6, CartOfType DEF CommitOrder, Bound
  <2>2. /\ cartStatus' \in [Carts -> {"absent", "open", "completed"}]
        /\ recoveryState' \in [Carts -> RecoveryStates]
        /\ recoveredBy' \in [Carts -> Events \cup {NoEvent}]
        /\ ledger' \subseteq Events /\ ordered' \subseteq Carts /\ overwritten' \subseteq Carts
    BY <1>6, <2>1 DEF CommitOrder, TypeOK
  <2>3. TypeOK'
    BY <1>6, <2>2, EndTransactionEffect DEF CommitOrder, TypeOK, runVars, runHist
  <2>4. Bound'
    BY <1>6, EndTransactionEffect DEF CommitOrder, Bound, runVars
  <2> QED
    BY <2>3, <2>4
<1>7. CASE CommitUnknownCart(w)
  <2>1. ev[w] \in Events
    BY <1>7 DEF CommitUnknownCart, Bound
  <2>2. TypeOK'
    BY <1>7, <2>1, EndTransactionEffect DEF CommitUnknownCart, TypeOK, runVars, runHist
  <2>3. Bound'
    BY <1>7, EndTransactionEffect DEF CommitUnknownCart, Bound, runVars
  <2> QED
    BY <2>2, <2>3
<1>8. CASE AbortEvent(w)
  <2>1. CartOf(ev[w]) \in Carts
    BY <1>8, CartOfType DEF AbortEvent, Bound
  <2>2. TypeOK'
    BY <1>8, <2>1, EndTransactionEffect DEF AbortEvent, TypeOK, dbVars, runVars, runHist
  <2>3. Bound'
    BY <1>8, EndTransactionEffect DEF AbortEvent, Bound, runVars
  <2> QED
    BY <2>2, <2>3
<1> QED
  BY <1>1, <1>2, <1>3, <1>4, <1>5, <1>6, <1>7, <1>8 DEF EventStep

LEMMA BaseRun ==
  ASSUME BaseInv, NEW r \in Runners,
         RunStep(r) \/ ThrowJob(r) \/ CrashJob(r) \/ \E t \in Carts : TakeJob(r, t)
  PROVE  BaseInv'
<1> USE DEF BaseInv, RecoveryStates, JobStates
<1>1. ASSUME NEW t \in Carts, TakeJob(r, t) PROVE BaseInv'
  <2>1. TypeOK'
    BY <1>1 DEF TakeJob, TypeOK, dbVars, slotVars
  <2>2. Bound'
    BY <1>1 DEF TakeJob, Bound, TypeOK, slotVars
  <2> QED
    BY <2>1, <2>2
<1>2. CASE ReadJob(r) \/ NoTemplate(r)
  <2>1. TypeOK'
    BY <1>2 DEF ReadJob, NoTemplate, TypeOK, dbVars, slotVars, jobVars, runHist
  <2>2. Bound'
    BY <1>2 DEF ReadJob, NoTemplate, Bound, TypeOK, slotVars
  <2> QED
    BY <2>1, <2>2
<1>3. CASE ResetCompleted(r)
  <2>1. TypeOK'
    BY <1>3 DEF ResetCompleted, TypeOK, slotVars, jobVars, runHist
  <2>2. Bound'
    BY <1>3 DEF ResetCompleted, Bound, TypeOK, slotVars
  <2> QED
    BY <2>1, <2>2
<1>4. CASE MarkSent(r)
  <2>1. cart[r] \in Carts
    BY <1>4 DEF MarkSent, Bound
  <2>2. sentCommits' \in [Carts -> Nat] /\ recoveryState' \in [Carts -> RecoveryStates]
    BY <1>4, <2>1 DEF MarkSent, TypeOK
  <2>3. TypeOK'
    BY <1>4, <2>2 DEF MarkSent, TypeOK, slotVars, jobVars
  <2>4. Bound'
    BY <1>4 DEF MarkSent, Bound, TypeOK, slotVars
  <2> QED
    BY <2>3, <2>4
<1>5. CASE EnqueueMessage(r)
  <2>1. messages' \in [Carts -> Nat]
    BY <1>5 DEF EnqueueMessage, TypeOK, Bound
  <2>2. TypeOK'
    BY <1>5, <2>1 DEF EnqueueMessage, TypeOK, dbVars, slotVars, jobVars, runHist
  <2>3. Bound'
    BY <1>5 DEF EnqueueMessage, Bound, TypeOK, slotVars
  <2> QED
    BY <2>2, <2>3
<1>6. CASE FinishJob(r)
  <2>1. TypeOK'
    BY <1>6, EndRunEffect DEF FinishJob, TypeOK, dbVars, slotVars
  <2>2. Bound'
    BY <1>6, EndRunEffect DEF FinishJob, Bound, slotVars
  <2> QED
    BY <2>1, <2>2
<1>7. CASE ThrowJob(r)
  <2>1. TypeOK'
    BY <1>7, EndRunEffect DEF ThrowJob, TypeOK, dbVars, slotVars
  <2>2. Bound'
    BY <1>7, EndRunEffect DEF ThrowJob, Bound, slotVars
  <2> QED
    BY <2>1, <2>2
<1>8. CASE CrashJob(r)
  <2>1. TypeOK'
    BY <1>8, EndRunEffect DEF CrashJob, TypeOK, dbVars, slotVars, jobVars
  <2>2. Bound'
    BY <1>8, EndRunEffect DEF CrashJob, Bound, slotVars, jobVars
  <2> QED
    BY <2>1, <2>2
<1> QED
  BY <1>1, <1>2, <1>3, <1>4, <1>5, <1>6, <1>7, <1>8 DEF RunStep

(* What happens to a cart's job or customer outside any slot, or nothing. *)
Outside == (\E t \in Carts : StallJob(t) \/ ChangeOptIn(t)) \/ UNCHANGED vars

LEMMA BaseOutside ==
  ASSUME BaseInv, Outside
  PROVE  BaseInv'
<1>1. ASSUME NEW t \in Carts, StallJob(t) PROVE BaseInv'
  <2>1. TypeOK'
    BY <1>1 DEF BaseInv, StallJob, TypeOK, dbVars, slotVars, runVars, runHist
  <2> QED
    BY <1>1, <2>1 DEF BaseInv, StallJob, Bound, slotVars, runVars
<1>2. ASSUME NEW t \in Carts, ChangeOptIn(t) PROVE BaseInv'
  <2>1. TypeOK'
    BY <1>2 DEF BaseInv, ChangeOptIn, TypeOK, slotVars, jobVars, runVars, runHist
  <2> QED
    BY <1>2, <2>1 DEF BaseInv, ChangeOptIn, Bound, slotVars, runVars
<1>3. CASE UNCHANGED vars
  BY <1>3 DEF BaseInv, vars, TypeOK, Bound, dbVars, slotVars, jobVars, runVars, runHist
<1> QED
  BY <1>1, <1>2, <1>3 DEF Outside

LEMMA BaseInvariance == Spec => []BaseInv
<1>1. BaseInv /\ [Next]_vars => BaseInv'
  BY BaseEvent, BaseRun, BaseOutside DEF Next, Outside
<1> QED
  BY <1>1, BaseInit, PTL DEF Spec

(* Every reachable state is well typed. *)
THEOREM TypeCorrect == Spec => []TypeOK
<1>1. BaseInv => TypeOK
  BY DEF BaseInv
<1> QED
  BY <1>1, BaseInvariance, PTL

-----------------------------------------------------------------------------
(* What stands behind a recovery state, in the table or as an event has read
   it: a job behind "scheduled", a commit of "sent" behind "sent" and what
   follows from it.  Neither is ever taken back. *)

Backed(t, state) ==
  /\ state = "scheduled" => job[t] # "none"
  /\ state \in {"sent", "recovered"} => sentCommits[t] > 0

Attributed(t) ==
  recoveredBy[t] # NoEvent =>
    sentCommits[t] > 0 /\ recoveredBy[t] \in ledger /\ CartOf(recoveredBy[t]) = t

TableInv == \A t \in Carts : Backed(t, recoveryState[t]) /\ Attributed(t)

SlotInv ==
  \A w \in Slots : pc[w] # "idle" => /\ Backed(CartOf(ev[w]), seen[w])
                                     /\ pc[w] = "scheduled" => job[CartOf(ev[w])] # "none"

CartInv == BaseInv /\ TableInv /\ SlotInv

Grows ==
  /\ \A t \in Carts : /\ job[t] # "none" => job'[t] # "none"
                      /\ sentCommits[t] > 0 => sentCommits'[t] > 0
  /\ ledger \subseteq ledger'

LEMMA BackedKept ==
  ASSUME Grows, NEW t \in Carts, NEW state, Backed(t, state)
  PROVE  /\ state = "scheduled" => job'[t] # "none"
         /\ state \in {"sent", "recovered"} => sentCommits'[t] > 0
BY DEF Grows, Backed

(* Steps that leave the cart's columns alone. *)
LEMMA TableKept ==
  ASSUME TableInv, Grows, UNCHANGED <<recoveryState, recoveredBy>>
  PROVE  TableInv'
BY DEF TableInv, Grows, Backed, Attributed

(* Steps that leave a slot alone, or free it. *)
LEMMA SlotKept ==
  ASSUME CartInv, Grows,
         \A w \in Slots : \/ pc'[w] = pc[w] /\ ev'[w] = ev[w] /\ seen'[w] = seen[w]
                          \/ pc'[w] = "idle"
  PROVE  SlotInv'
<1> SUFFICES ASSUME NEW w \in Slots, pc'[w] # "idle"
             PROVE  Backed(CartOf(ev[w]), seen[w])' /\ (pc'[w] = "scheduled" => job'[CartOf(ev'[w])] # "none")
  BY DEF SlotInv
<1>1. pc'[w] = pc[w] /\ ev'[w] = ev[w] /\ seen'[w] = seen[w]
  OBVIOUS
<1>2. CartOf(ev[w]) \in Carts /\ CartOf(ev'[w]) = CartOf(ev[w])
  BY <1>1, CartOfType DEF CartInv, BaseInv, Bound
<1> QED
  BY <1>1, <1>2 DEF CartInv, SlotInv, Grows, Backed

LEMMA CartEvent ==
  ASSUME CartInv, NEW w \in Slots,
         EventStep(w) \/ AbortEvent(w) \/ \E e \in Events : BeginEvent(w, e)
  PROVE  TableInv' /\ SlotInv'
<1> USE DEF CartInv
<1>1. ASSUME NEW e \in Events, BeginEvent(w, e) PROVE TableInv' /\ SlotInv'
  <2>1. Grows /\ UNCHANGED <<recoveryState, recoveredBy, job, sentCommits, seen>>
    BY <1>1 DEF BeginEvent, Grows, dbVars, runHist
  <2>2. /\ seen'[w] = "none" /\ pc'[w] = "read"
        /\ \A v \in Slots \ {w} : pc'[v] = pc[v] /\ ev'[v] = ev[v]
    BY <1>1 DEF BeginEvent, BaseInv, Bound, TypeOK
  <2>3. SlotInv'
    BY <2>1, <2>2 DEF SlotInv, Backed, CartOf
  <2> QED
    BY <2>1, <2>3, TableKept
<1>2. CASE ReadCart(w)
  <2>1. ev[w] \in Events /\ CartOf(ev[w]) \in Carts
    BY <1>2, CartOfType DEF ReadCart, BaseInv, Bound
  <2>2. Grows /\ UNCHANGED <<recoveryState, recoveredBy, job, sentCommits, ev>>
    BY <1>2 DEF ReadCart, Grows, dbVars, jobVars, runHist
  <2>3. /\ seen'[w] = recoveryState[CartOf(ev[w])] /\ pc'[w] # "scheduled"
        /\ \A v \in Slots \ {w} : pc'[v] = pc[v] /\ seen'[v] = seen[v]
    BY <1>2 DEF ReadCart, BaseInv, TypeOK
  <2>4. SlotInv'
    BY <2>1, <2>2, <2>3 DEF SlotInv, TableInv, Backed, CartOf
  <2> QED
    BY <2>2, <2>4, TableKept
<1>3. CASE WriteCart(w)
  <2>1. Grows /\ UNCHANGED <<recoveryState, recoveredBy, job, sentCommits, ev, seen>>
    BY <1>3 DEF WriteCart, Grows, dbVars, jobVars, runHist
  <2>2. /\ pc[w] # "idle" /\ pc'[w] # "scheduled"
        /\ \A v \in Slots \ {w} : pc'[v] = pc[v]
    BY <1>3 DEF WriteCart, BaseInv, TypeOK
  <2>3. SlotInv'
    BY <2>1, <2>2 DEF SlotInv, Backed, CartOf
  <2> QED
    BY <2>1, <2>3, TableKept
<1>4. CASE ScheduleRecovery(w)
  <2>1. CartOf(ev[w]) \in Carts
    BY <1>4, CartOfType DEF ScheduleRecovery, BaseInv, Bound
  <2>2. /\ UNCHANGED <<recoveryState, recoveredBy, sentCommits, ledger, ev, seen>>
        /\ job'[CartOf(ev[w])] # "none"
        /\ \A t \in Carts : job[t] # "none" => job'[t] # "none"
    BY <1>4, <2>1 DEF ScheduleRecovery, dbVars, runHist, BaseInv, TypeOK
  <2>3. Grows
    BY <2>2 DEF Grows
  <2>4. pc[w] # "idle" /\ \A v \in Slots \ {w} : pc'[v] = pc[v]
    BY <1>4 DEF ScheduleRecovery, BaseInv, TypeOK
  <2>5. \A v \in Slots : pc[v] # "idle" => CartOf(ev[v]) \in Carts
    BY CartOfType DEF BaseInv, Bound
  <2>6. SlotInv'
    BY <2>2, <2>3, <2>4, <2>5 DEF SlotInv, Backed, CartOf, Grows
  <2> QED
    BY <2>2, <2>3, <2>6, TableKept
<1>5. CASE CommitCheckout(w)
  <2>1. CartOf(ev[w]) \in Carts
    BY <1>5, CartOfType DEF CommitCheckout, BaseInv, Bound
  <2>2. Grows /\ UNCHANGED <<recoveredBy, job, sentCommits>> /\ ledger \subseteq ledger'
    BY <1>5 DEF CommitCheckout, Grows, runHist
  <2>3. \A t \in Carts : \/ recoveryState'[t] = recoveryState[t]
                         \/ recoveryState'[t] = "scheduled" /\ t = CartOf(ev[w]) /\ pc[w] = "scheduled"
    BY <1>5, <2>1 DEF CommitCheckout, BaseInv, TypeOK
  <2>4. \A t \in Carts : t = CartOf(ev[w]) /\ pc[w] = "scheduled" => job[t] # "none"
    BY DEF SlotInv
  <2>5. TableInv'
    BY <2>2, <2>3, <2>4 DEF TableInv, Backed, Attributed
  <2>6. SlotInv'
    BY <1>5, <2>2, EndTransactionEffect, SlotKept DEF CommitCheckout
  <2> QED
    BY <2>5, <2>6
<1>6. CASE CommitOrder(w)
  <2>1. CartOf(ev[w]) \in Carts /\ ev[w] \in Events
    BY <1>6, CartOfType DEF CommitOrder, BaseInv, Bound
  <2>2. Grows /\ UNCHANGED <<job, sentCommits>> /\ ledger \subseteq ledger' /\ ev[w] \in ledger'
    BY <1>6 DEF CommitOrder, Grows, runHist
  <2>3. \A t \in Carts \ {CartOf(ev[w])} :
          recoveryState'[t] = recoveryState[t] /\ recoveredBy'[t] = recoveredBy[t]
    BY <1>6, <2>1 DEF CommitOrder, BaseInv, TypeOK
  <2>4. Backed(CartOf(ev[w]), seen[w])
    BY <1>6 DEF CommitOrder, SlotInv
  <2>5. \A t \in Carts : t = CartOf(ev[w]) =>
          IF seen[w] \in {"sent", "replied"}
            THEN recoveryState'[t] = "recovered" /\ recoveredBy'[t] = ev[w]
            ELSE recoveryState'[t] = seen[w] /\ recoveredBy'[t] = NoEvent
    BY <1>6, <2>1 DEF CommitOrder, Attributes, BaseInv, TypeOK
  <2>6. seen[w] \in RecoveryStates
    BY DEF BaseInv, TypeOK, RecoveryStates
  <2>7. ASSUME NEW t \in Carts PROVE Backed(t, recoveryState[t])' /\ Attributed(t)'
    <3>1. CASE t = CartOf(ev[w])
      BY <2>2, <2>4, <2>5, <2>6, <3>1 DEF Backed, Attributed, RecoveryStates, CartOf
    <3>2. CASE t # CartOf(ev[w])
      BY <2>2, <2>3, <3>2 DEF TableInv, Backed, Attributed, CartOf
    <3> QED
      BY <3>1, <3>2
  <2>8. TableInv'
    BY <2>7 DEF TableInv
  <2>9. SlotInv'
    BY <1>6, <2>2, EndTransactionEffect, SlotKept DEF CommitOrder
  <2> QED
    BY <2>8, <2>9
<1>7. CASE CommitUnknownCart(w) \/ AbortEvent(w)
  <2>1. Grows /\ UNCHANGED <<recoveryState, recoveredBy>> /\ EndTransaction(w)
    BY <1>7 DEF CommitUnknownCart, AbortEvent, Grows, dbVars, runHist
  <2> QED
    BY <2>1, EndTransactionEffect, SlotKept, TableKept
<1> QED
  BY <1>1, <1>2, <1>3, <1>4, <1>5, <1>6, <1>7 DEF EventStep

LEMMA CartRun ==
  ASSUME CartInv, NEW r \in Runners,
         RunStep(r) \/ ThrowJob(r) \/ CrashJob(r) \/ \E t \in Carts : TakeJob(r, t)
  PROVE  TableInv' /\ SlotInv'
<1> USE DEF CartInv
<1>1. ASSUME NEW t \in Carts, TakeJob(r, t) PROVE TableInv' /\ SlotInv'
  <2>1. Grows /\ UNCHANGED <<recoveryState, recoveredBy, pc, ev, seen>>
    BY <1>1 DEF TakeJob, Grows, dbVars, slotVars, BaseInv, TypeOK
  <2> QED
    BY <2>1, SlotKept, TableKept
<1>2. CASE ReadJob(r) \/ NoTemplate(r) \/ EnqueueMessage(r)
  <2>1. Grows /\ UNCHANGED <<recoveryState, recoveredBy, pc, ev, seen>>
    BY <1>2 DEF ReadJob, NoTemplate, EnqueueMessage, Grows, dbVars, slotVars, jobVars, runHist
  <2> QED
    BY <2>1, SlotKept, TableKept
<1>3. CASE ResetCompleted(r)
  <2>1. Grows /\ UNCHANGED <<recoveredBy, pc, ev, seen>>
    BY <1>3 DEF ResetCompleted, Grows, slotVars, jobVars, runHist
  <2>2. \A t \in Carts : recoveryState'[t] \in {recoveryState[t], "none"}
    BY <1>3 DEF ResetCompleted, BaseInv, TypeOK
  <2>3. TableInv'
    BY <2>1, <2>2 DEF TableInv, Grows, Backed, Attributed
  <2> QED
    BY <2>1, <2>3, SlotKept
<1>4. CASE MarkSent(r)
  <2>1. cart[r] \in Carts
    BY <1>4 DEF MarkSent, BaseInv, Bound
  <2>2. /\ sentCommits'[cart[r]] > 0
        /\ \A t \in Carts \ {cart[r]} : /\ recoveryState'[t] = recoveryState[t]
                                        /\ sentCommits'[t] = sentCommits[t]
        /\ recoveryState'[cart[r]] = "sent"
        /\ UNCHANGED <<recoveredBy, ledger, job, pc, ev, seen>>
    BY <1>4, <2>1 DEF MarkSent, slotVars, jobVars, BaseInv, TypeOK
  <2>3. Grows
    BY <2>2 DEF Grows
  <2>4. TableInv'
    BY <2>2, <2>3 DEF TableInv, Grows, Backed, Attributed
  <2> QED
    BY <2>2, <2>3, <2>4, SlotKept
<1>5. CASE FinishJob(r) \/ ThrowJob(r) \/ CrashJob(r)
  <2>1. rpc[r] # "idle" /\ EndRun(r) /\ UNCHANGED <<recoveryState, recoveredBy, ledger, sentCommits, pc, ev, seen>>
    BY <1>5 DEF FinishJob, ThrowJob, CrashJob, dbVars, slotVars
  <2>2. \E state \in {"completed", "failed"} : Settle(r, state) \/ UNCHANGED <<job, owner>>
    BY <1>5 DEF FinishJob, ThrowJob, CrashJob, jobVars
  <2>3. Grows
    BY <2>1, <2>2, EndRunEffect DEF Grows
  <2> QED
    BY <2>1, <2>3, SlotKept, TableKept
<1> QED
  BY <1>1, <1>2, <1>3, <1>4, <1>5 DEF RunStep

LEMMA CartOutside ==
  ASSUME CartInv, Outside
  PROVE  TableInv' /\ SlotInv'
<1>1. UNCHANGED <<recoveryState, recoveredBy, ledger, sentCommits, pc, ev, seen>>
  BY DEF Outside, StallJob, ChangeOptIn, vars, dbVars, slotVars, runHist
<1>2. \A t \in Carts : job[t] # "none" => job'[t] # "none"
  BY DEF Outside, StallJob, ChangeOptIn, vars, jobVars, CartInv, BaseInv, TypeOK
<1>3. Grows
  BY <1>1, <1>2 DEF Grows
<1> QED
  BY <1>1, <1>3, SlotKept, TableKept DEF CartInv

LEMMA CartInvariance == Spec => []CartInv
<1>1. Init => TableInv /\ SlotInv
  BY DEF Init, TableInv, SlotInv, Backed, Attributed
<1>2. CartInv /\ [Next]_vars => TableInv' /\ SlotInv'
  BY CartEvent, CartRun, CartOutside DEF Next, Outside
<1> QED
  BY <1>1, <1>2, BaseInvariance, PTL DEF Spec, CartInv

(* A cart is never committed as "scheduled" without a job. *)
THEOREM ScheduledCartsHaveJobs == Spec => []ScheduledHasJob
<1>1. CartInv => ScheduledHasJob
  BY DEF CartInv, TableInv, Backed, ScheduledHasJob
<1> QED
  BY <1>1, CartInvariance, PTL

(* Revenue is attributed to an order of a cart that was marked "sent". *)
THEOREM RecoveredCartsWereSent == Spec => []RecoveredWasSent
<1>1. CartInv => RecoveredWasSent
  BY DEF CartInv, TableInv, Attributed, RecoveredWasSent
<1> QED
  BY <1>1, CartInvariance, PTL

-----------------------------------------------------------------------------
(* Every runner about to queue a message has a commit of "sent" of its own
   behind it that no message has used. *)

Enqueuing(t) == {r \in Runners : rpc[r] = "enqueue" /\ cart[r] = t}

MessageInv ==
  \A t \in Carts : messages[t] + Cardinality(Enqueuing(t)) <= sentCommits[t]

LEMMA RunnerSetType ==
  ASSUME NEW S \in SUBSET Runners
  PROVE  IsFiniteSet(S) /\ Cardinality(S) \in Nat
BY FS_Subset, FS_CardinalityType

(* No runner joins those that are about to queue. *)
LEMMA MessageKept ==
  ASSUME BaseInv, MessageInv, UNCHANGED <<messages, sentCommits>>,
         \A r \in Runners : (rpc'[r] = rpc[r] /\ cart'[r] = cart[r]) \/ rpc'[r] # "enqueue"
  PROVE  MessageInv'
<1> SUFFICES ASSUME NEW t \in Carts
             PROVE  messages[t] + Cardinality(Enqueuing(t)') <= sentCommits[t]
  BY DEF MessageInv
<1>1. Enqueuing(t)' \in SUBSET Enqueuing(t) /\ Enqueuing(t) \in SUBSET Runners
  BY DEF Enqueuing
<1>2. /\ Cardinality(Enqueuing(t)') \in Nat /\ Cardinality(Enqueuing(t)) \in Nat
      /\ Cardinality(Enqueuing(t)') <= Cardinality(Enqueuing(t))
  BY <1>1, RunnerSetType, FS_Subset
<1>3. messages[t] \in Nat /\ sentCommits[t] \in Nat
  BY DEF BaseInv, TypeOK
<1> QED
  BY <1>2, <1>3 DEF MessageInv

LEMMA MessageMark ==
  ASSUME BaseInv, MessageInv, NEW r \in Runners, MarkSent(r)
  PROVE  MessageInv'
<1>0. /\ sentCommits \in [Carts -> Nat] /\ messages \in [Carts -> Nat]
      /\ cart[r] \in Carts /\ UNCHANGED <<cart, messages>>
      /\ rpc[r] = "mark" /\ rpc'[r] \in {"enqueue", "done"}
      /\ \A q \in Runners \ {r} : rpc'[q] = rpc[q]
  BY DEF BaseInv, Bound, TypeOK, MarkSent
<1> SUFFICES ASSUME NEW t \in Carts
             PROVE  messages[t] + Cardinality(Enqueuing(t)') <= sentCommits'[t]
  BY <1>0 DEF MessageInv
<1>1. /\ Enqueuing(t) \in SUBSET Runners /\ r \notin Enqueuing(t)
      /\ Enqueuing(t)' \in SUBSET (Enqueuing(t) \cup {r})
      /\ t # cart[r] => Enqueuing(t)' = Enqueuing(t)
  BY <1>0 DEF Enqueuing
<1>2. IsFiniteSet(Enqueuing(t)) /\ Cardinality(Enqueuing(t)) \in Nat
  BY <1>1, RunnerSetType
<1>3. IsFiniteSet(Enqueuing(t) \cup {r}) /\ Cardinality(Enqueuing(t) \cup {r}) = Cardinality(Enqueuing(t)) + 1
  BY <1>1, <1>2, FS_AddElement
<1>4. /\ Cardinality(Enqueuing(t)') <= Cardinality(Enqueuing(t)) + 1
      /\ Cardinality(Enqueuing(t)') \in Nat
  BY <1>1, <1>3, FS_Subset, FS_CardinalityType
<1>5. messages[t] + Cardinality(Enqueuing(t)) <= sentCommits[t]
  BY DEF MessageInv
<1>6. sentCommits'[t] = IF t = cart[r] THEN sentCommits[t] + 1 ELSE sentCommits[t]
  BY <1>0 DEF MarkSent
<1> QED
  BY <1>0, <1>1, <1>2, <1>4, <1>5, <1>6

LEMMA MessageEnqueue ==
  ASSUME BaseInv, MessageInv, NEW r \in Runners, EnqueueMessage(r)
  PROVE  MessageInv'
<1>0. /\ sentCommits \in [Carts -> Nat] /\ messages \in [Carts -> Nat]
      /\ cart[r] \in Carts /\ UNCHANGED <<cart, sentCommits>>
      /\ rpc[r] = "enqueue" /\ rpc'[r] = "done"
      /\ \A q \in Runners \ {r} : rpc'[q] = rpc[q]
  BY DEF BaseInv, Bound, TypeOK, EnqueueMessage, runHist
<1> SUFFICES ASSUME NEW t \in Carts
             PROVE  messages'[t] + Cardinality(Enqueuing(t)') <= sentCommits[t]
  BY <1>0 DEF MessageInv
<1>1. Enqueuing(t) \in SUBSET Runners /\ Enqueuing(t)' = Enqueuing(t) \ {r}
  BY <1>0 DEF Enqueuing
<1>2. IsFiniteSet(Enqueuing(t)) /\ Cardinality(Enqueuing(t)) \in Nat
  BY <1>1, RunnerSetType
<1>3. Cardinality(Enqueuing(t)') = IF r \in Enqueuing(t) THEN Cardinality(Enqueuing(t)) - 1
                                                        ELSE Cardinality(Enqueuing(t))
  BY <1>1, <1>2, FS_RemoveElement
<1>4. r \in Enqueuing(t) <=> t = cart[r]
  BY <1>0 DEF Enqueuing
<1>5. messages[t] + Cardinality(Enqueuing(t)) <= sentCommits[t]
  BY DEF MessageInv
<1>6. messages'[t] = IF t = cart[r] THEN messages[t] + 1 ELSE messages[t]
  BY <1>0 DEF EnqueueMessage
<1> QED
  BY <1>0, <1>2, <1>3, <1>4, <1>5, <1>6

LEMMA MessageInvariance == Spec => [](BaseInv /\ MessageInv)
<1>1. Init => MessageInv
  <2> SUFFICES ASSUME Init, NEW t \in Carts
               PROVE  messages[t] + Cardinality(Enqueuing(t)) <= sentCommits[t]
    BY DEF MessageInv
  <2>1. Enqueuing(t) = {}
    BY DEF Init, Enqueuing
  <2> QED
    BY <2>1, FS_EmptySet DEF Init
<1>2. BaseInv /\ MessageInv /\ [Next]_vars => MessageInv'
  <2> SUFFICES ASSUME BaseInv, MessageInv, [Next]_vars PROVE MessageInv'
    OBVIOUS
  <2>1. ASSUME NEW w \in Slots, EventStep(w) \/ AbortEvent(w) \/ \E e \in Events : BeginEvent(w, e)
        PROVE  UNCHANGED <<messages, sentCommits, rpc, cart>>
    <3>1. CASE \E e \in Events : BeginEvent(w, e)
      BY <3>1 DEF BeginEvent, runVars, runHist
    <3>2. CASE EventStep(w)
      BY <3>2 DEF EventStep, ReadCart, WriteCart, ScheduleRecovery, CommitCheckout, CommitOrder,
                  CommitUnknownCart, runVars, runHist
    <3>3. CASE AbortEvent(w)
      BY <3>3 DEF AbortEvent, runVars, runHist
    <3> QED
      BY <2>1, <3>1, <3>2, <3>3
  <2>2. CASE Outside
    <3>1. UNCHANGED <<messages, sentCommits, rpc, cart>>
      BY <2>2 DEF Outside, StallJob, ChangeOptIn, vars, runVars, runHist
    <3> QED
      BY <3>1, MessageKept
  <2>3. ASSUME NEW r \in Runners, ReadJob(r) \/ NoTemplate(r) \/ ResetCompleted(r) PROVE MessageInv'
    <3>1. /\ UNCHANGED <<messages, sentCommits, cart>>
          /\ \A q \in Runners : rpc'[q] = rpc[q] \/ rpc'[q] # "enqueue"
      BY <2>3 DEF ReadJob, NoTemplate, ResetCompleted, runHist, BaseInv, TypeOK
    <3> QED
      BY <3>1, MessageKept
  <2>4. ASSUME NEW r \in Runners, FinishJob(r) \/ ThrowJob(r) \/ CrashJob(r) PROVE MessageInv'
    <3>1. /\ UNCHANGED <<messages, sentCommits>>
          /\ \A q \in Runners : (rpc'[q] = rpc[q] /\ cart'[q] = cart[q]) \/ rpc'[q] # "enqueue"
      BY <2>4 DEF FinishJob, ThrowJob, CrashJob, EndRun, BaseInv, TypeOK
    <3> QED
      BY <3>1, MessageKept
  <2>5. ASSUME NEW r \in Runners, NEW t \in Carts, TakeJob(r, t) PROVE MessageInv'
    <3>1. /\ UNCHANGED <<messages, sentCommits>>
          /\ \A q \in Runners : (rpc'[q] = rpc[q] /\ cart'[q] = cart[q]) \/ rpc'[q] # "enqueue"
      BY <2>5 DEF TakeJob, BaseInv, TypeOK
    <3> QED
      BY <3>1, MessageKept
  <2>6. ASSUME NEW w \in Slots, EventStep(w) \/ AbortEvent(w) \/ \E e \in Events : BeginEvent(w, e)
        PROVE  MessageInv'
    BY <2>1, <2>6, MessageKept
  <2> QED
    BY <2>2, <2>3, <2>4, <2>5, <2>6, MessageMark, MessageEnqueue DEF Next, RunStep, Outside
<1> QED
  BY <1>1, <1>2, BaseInvariance, PTL DEF Spec

(* No more messages are queued for a cart than times it was marked "sent". *)
THEOREM QueuedMessagesAreCommitted == Spec => []MessagesAreCommitted
<1>1. BaseInv /\ MessageInv => MessagesAreCommitted
  <2> SUFFICES ASSUME BaseInv, MessageInv, NEW t \in Carts PROVE messages[t] <= sentCommits[t]
    BY DEF MessagesAreCommitted
  <2>1. Enqueuing(t) \in SUBSET Runners
    BY DEF Enqueuing
  <2>2. Cardinality(Enqueuing(t)) \in Nat /\ messages[t] \in Nat /\ sentCommits[t] \in Nat
    BY <2>1, RunnerSetType DEF BaseInv, TypeOK
  <2> QED
    BY <2>2 DEF MessageInv
<1> QED
  BY <1>1, MessageInvariance, PTL

-----------------------------------------------------------------------------
(* One message per cart.  BullMQ runs a job again when it stalls, as often as
   maxStalledCount allows; the worker leaves the library's default, one. *)

Running(r, t) == rpc[r] # "idle" /\ cart[r] = t

(* No run of the cart's job begins any more. *)
LastRun(t) ==
  /\ job[t] \in {"active", "completed", "failed"}
  /\ job[t] = "active" => stalls[t] >= MaxStalled

Kept(t) == recoveryState[t] \in {"sent", "recovered"}

RunnerOnce(r, t) ==
  Running(r, t) =>
    /\ job[t] \notin {"none", "delayed"}
    /\ \A q \in Runners : Running(q, t) => q = r
    /\ rpc[r] = "mark" => sentCommits[t] = 0
    /\ rpc[r] = "read" /\ sentCommits[t] # 0 => Kept(t)
    /\ rpc[r] \in {"read", "reset"} /\ sentCommits[t] # 0 => LastRun(t)

CartOnce(t) ==
  /\ sentCommits[t] <= 1
  /\ sentCommits[t] # 0 /\ ~Kept(t) => LastRun(t)
  /\ job[t] \in {"none", "delayed"} => sentCommits[t] = 0
  /\ job[t] = "waiting" => stalls[t] > 0
  /\ \A r \in Runners : RunnerOnce(r, t)

OnceInv == \A t \in Carts \ (overlapped \cup overwritten) : CartOnce(t)

LEMMA OnceEvent ==
  ASSUME BaseInv, OnceInv, NEW w \in Slots,
         EventStep(w) \/ AbortEvent(w) \/ \E e \in Events : BeginEvent(w, e)
  PROVE  OnceInv'
<1>1. /\ UNCHANGED <<sentCommits, stalls, rpc, cart, overlapped>>
      /\ overwritten \subseteq overwritten'
  <2>1. CASE \E e \in Events : BeginEvent(w, e)
    BY <2>1 DEF BeginEvent, runVars, runHist
  <2>2. CASE ReadCart(w) \/ WriteCart(w) \/ ScheduleRecovery(w)
    BY <2>2 DEF ReadCart, WriteCart, ScheduleRecovery, jobVars, runVars, runHist
  <2>3. CASE CommitCheckout(w) \/ CommitOrder(w) \/ CommitUnknownCart(w) \/ AbortEvent(w)
    BY <2>3 DEF CommitCheckout, CommitOrder, CommitUnknownCart, AbortEvent, runVars, runHist
  <2> QED
    BY <2>1, <2>2, <2>3 DEF EventStep
<1> SUFFICES ASSUME NEW t \in Carts \ (overlapped' \cup overwritten')
             PROVE  CartOnce(t)'
  BY DEF OnceInv
<1>2. CartOnce(t)
  BY <1>1 DEF OnceInv
<1>3. job'[t] = job[t] \/ (job[t] = "none" /\ job'[t] = "delayed")
  <2>1. CASE ScheduleRecovery(w)
    BY <2>1, CartOfType DEF ScheduleRecovery, BaseInv, Bound, TypeOK
  <2>2. CASE UNCHANGED job
    BY <2>2
  <2> QED
    BY <2>1, <2>2 DEF EventStep, BeginEvent, ReadCart, WriteCart, CommitCheckout, CommitOrder,
                      CommitUnknownCart, AbortEvent, jobVars
<1>4. Kept(t) => Kept(t)'
  <2>1. CASE CommitCheckout(w)
    BY <2>1 DEF CommitCheckout, Kept, BaseInv, TypeOK
  <2>2. CASE CommitOrder(w)
    BY <2>2 DEF CommitOrder, Attributes, Kept, BaseInv, TypeOK
  <2>3. CASE UNCHANGED recoveryState
    BY <2>3 DEF Kept
  <2> QED
    BY <2>1, <2>2, <2>3 DEF EventStep, BeginEvent, ReadCart, WriteCart, ScheduleRecovery,
                            CommitUnknownCart, AbortEvent, dbVars
<1>5. \A r \in Runners : Running(r, t)' <=> Running(r, t)
  BY <1>1 DEF Running
<1>6. LastRun(t) => LastRun(t)'
  BY <1>1, <1>3 DEF LastRun
<1> QED
  BY <1>1, <1>2, <1>3, <1>4, <1>5, <1>6 DEF CartOnce, RunnerOnce

(* Steps of a run that neither take a job nor touch the cart. *)
LEMMA OnceLeft ==
  ASSUME BaseInv, OnceInv,
         UNCHANGED <<recoveryState, sentCommits, stalls, overlapped, overwritten>>,
         \A r \in Runners : \/ rpc'[r] = rpc[r] /\ cart'[r] = cart[r]
                            \/ rpc'[r] = "idle"
                            \/ rpc[r] # "idle" /\ rpc'[r] \in {"enqueue", "done"} /\ cart'[r] = cart[r],
         \A t \in Carts : job'[t] = job[t] \/ job'[t] \in {"completed", "failed"}
  PROVE  OnceInv'
<1> SUFFICES ASSUME NEW t \in Carts \ (overlapped \cup overwritten)
             PROVE  CartOnce(t)'
  BY DEF OnceInv
<1>1. CartOnce(t)
  BY DEF OnceInv
<1>2. \A r \in Runners : Running(r, t)' => Running(r, t)
  BY DEF Running
<1>3. (Kept(t)' <=> Kept(t)) /\ (LastRun(t) => LastRun(t)')
  BY DEF Kept, LastRun
<1>4. \A r \in Runners : Running(r, t)' => rpc'[r] = rpc[r] \/ rpc'[r] \in {"enqueue", "done"}
  BY DEF Running
<1> QED
  BY <1>1, <1>2, <1>3, <1>4 DEF CartOnce, RunnerOnce

LEMMA OnceTake ==
  ASSUME MaxStalled <= 1, BaseInv, OnceInv, NEW r \in Runners, NEW s \in Carts, TakeJob(r, s)
  PROVE  OnceInv'
<1>1. /\ UNCHANGED <<recoveryState, sentCommits, stalls, overwritten>>
      /\ overlapped \subseteq overlapped'
      /\ rpc'[r] = "read" /\ cart'[r] = s /\ job'[s] = "active"
      /\ \A t \in Carts \ {s} : job'[t] = job[t]
      /\ \A q \in Runners \ {r} : rpc'[q] = rpc[q] /\ cart'[q] = cart[q]
  BY DEF TakeJob, dbVars, BaseInv, TypeOK
<1> SUFFICES ASSUME NEW t \in Carts \ (overlapped' \cup overwritten)
             PROVE  CartOnce(t)'
  BY <1>1 DEF OnceInv
<1>2. CartOnce(t)
  BY <1>1 DEF OnceInv
<1>3. Kept(t)' <=> Kept(t)
  BY <1>1 DEF Kept
<1>4. CASE t # s
  <2>1. rpc[r] = "idle"
    BY DEF TakeJob
  <2>2. \A q \in Runners : (Running(q, t)' <=> Running(q, t)) /\ (Running(q, t) => rpc'[q] = rpc[q])
    BY <1>1, <1>4, <2>1 DEF Running
  <2>3. LastRun(t)' <=> LastRun(t)
    BY <1>1, <1>4 DEF LastRun
  <2> QED
    BY <1>1, <1>2, <1>3, <1>4, <2>2, <2>3 DEF CartOnce, RunnerOnce
<1>5. CASE t = s
  <2>1. \A q \in Runners : cart[q] # t
    BY <1>5 DEF TakeJob
  <2>2. \A q \in Runners : Running(q, t)' => q = r
    BY <1>1, <2>1 DEF Running
  <2>3. sentCommits[t] # 0 => Kept(t) /\ LastRun(t)'
    <3> SUFFICES ASSUME sentCommits[t] # 0 PROVE Kept(t) /\ LastRun(t)'
      OBVIOUS
    <3>1. job[t] = "waiting"
      BY <1>2, <1>5 DEF TakeJob, CartOnce
    <3>2. stalls[t] >= MaxStalled
      BY <1>2, <3>1 DEF CartOnce, BaseInv, TypeOK
    <3> QED
      BY <1>1, <1>2, <1>5, <3>1, <3>2 DEF CartOnce, LastRun
  <2> QED
    BY <1>1, <1>2, <1>3, <1>5, <2>2, <2>3 DEF CartOnce, RunnerOnce
<1> QED
  BY <1>4, <1>5

LEMMA OnceRead ==
  ASSUME BaseInv, OnceInv, NEW r \in Runners, ReadJob(r)
  PROVE  OnceInv'
<1>1. /\ UNCHANGED <<recoveryState, sentCommits, stalls, job, cart, overlapped, overwritten>>
      /\ rpc[r] = "read" /\ rpc'[r] \in {"mark", "reset", "done"}
      /\ rpc'[r] = "mark" => recoveryState[cart[r]] = "scheduled"
      /\ \A q \in Runners \ {r} : rpc'[q] = rpc[q]
  BY DEF ReadJob, DecideRecoveryRun, dbVars, jobVars, runHist, BaseInv, TypeOK
<1> SUFFICES ASSUME NEW t \in Carts \ (overlapped \cup overwritten)
             PROVE  CartOnce(t)'
  BY <1>1 DEF OnceInv
<1>2. CartOnce(t)
  BY DEF OnceInv
<1>3. (Kept(t)' <=> Kept(t)) /\ (LastRun(t)' <=> LastRun(t))
  BY <1>1 DEF Kept, LastRun
<1>4. \A q \in Runners : Running(q, t)' <=> Running(q, t)
  BY <1>1 DEF Running
<1>5. ASSUME Running(r, t), rpc'[r] = "mark" PROVE sentCommits[t] = 0
  BY <1>1, <1>2, <1>5 DEF CartOnce, RunnerOnce, Running, Kept
<1>6. ASSUME NEW q \in Runners PROVE RunnerOnce(q, t)'
  <2>1. CASE q = r
    BY <1>1, <1>2, <1>3, <1>4, <1>5, <2>1 DEF CartOnce, RunnerOnce
  <2>2. CASE q # r
    BY <1>1, <1>2, <1>3, <1>4, <2>2 DEF CartOnce, RunnerOnce
  <2> QED
    BY <2>1, <2>2
<1> QED
  BY <1>1, <1>2, <1>3, <1>6 DEF CartOnce

LEMMA OnceReset ==
  ASSUME BaseInv, OnceInv, NEW r \in Runners, ResetCompleted(r)
  PROVE  OnceInv'
<1>1. /\ UNCHANGED <<sentCommits, stalls, job, cart, overlapped, overwritten>>
      /\ rpc[r] = "reset" /\ rpc'[r] = "done" /\ cart[r] \in Carts
      /\ \A q \in Runners \ {r} : rpc'[q] = rpc[q]
      /\ \A t \in Carts \ {cart[r]} : recoveryState'[t] = recoveryState[t]
  BY DEF ResetCompleted, jobVars, runHist, BaseInv, Bound, TypeOK
<1> SUFFICES ASSUME NEW t \in Carts \ (overlapped \cup overwritten)
             PROVE  CartOnce(t)'
  BY <1>1 DEF OnceInv
<1>2. CartOnce(t)
  BY DEF OnceInv
<1>3. LastRun(t)' <=> LastRun(t)
  BY <1>1 DEF LastRun
<1>4. \A q \in Runners : Running(q, t)' <=> Running(q, t)
  BY <1>1 DEF Running
<1>5. CASE t # cart[r]
  BY <1>1, <1>2, <1>3, <1>4, <1>5 DEF CartOnce, RunnerOnce, Kept
<1>6. CASE t = cart[r]
  <2>1. Running(r, t)
    BY <1>1, <1>6 DEF Running
  <2>2. /\ sentCommits[t] # 0 => LastRun(t)
        /\ \A q \in Runners : Running(q, t) => q = r
    BY <1>1, <1>2, <2>1 DEF CartOnce, RunnerOnce
  <2> QED
    BY <1>1, <1>2, <1>3, <1>4, <2>2 DEF CartOnce, RunnerOnce
<1> QED
  BY <1>5, <1>6

LEMMA OnceMark ==
  ASSUME BaseInv, OnceInv, NEW r \in Runners, MarkSent(r)
  PROVE  OnceInv'
<1>1. /\ UNCHANGED <<stalls, job, cart, overlapped, overwritten>>
      /\ rpc[r] = "mark" /\ rpc'[r] \in {"enqueue", "done"} /\ cart[r] \in Carts
      /\ \A q \in Runners \ {r} : rpc'[q] = rpc[q]
      /\ recoveryState'[cart[r]] = "sent" /\ sentCommits'[cart[r]] = sentCommits[cart[r]] + 1
      /\ \A t \in Carts \ {cart[r]} : recoveryState'[t] = recoveryState[t] /\ sentCommits'[t] = sentCommits[t]
  BY DEF MarkSent, jobVars, BaseInv, Bound, TypeOK
<1> SUFFICES ASSUME NEW t \in Carts \ (overlapped \cup overwritten)
             PROVE  CartOnce(t)'
  BY <1>1 DEF OnceInv
<1>2. CartOnce(t)
  BY DEF OnceInv
<1>3. LastRun(t)' <=> LastRun(t)
  BY <1>1 DEF LastRun
<1>4. \A q \in Runners : Running(q, t)' <=> Running(q, t)
  BY <1>1 DEF Running
<1>5. CASE t # cart[r]
  BY <1>1, <1>2, <1>3, <1>4, <1>5 DEF CartOnce, RunnerOnce, Kept
<1>6. CASE t = cart[r]
  <2>1. Running(r, t)
    BY <1>1, <1>6 DEF Running
  <2>2. /\ sentCommits[t] = 0 /\ job[t] \notin {"none", "delayed"}
        /\ \A q \in Runners : Running(q, t) => q = r
    BY <1>1, <1>2, <2>1 DEF CartOnce, RunnerOnce
  <2>3. Kept(t)' /\ sentCommits'[t] = 1
    BY <1>1, <1>6, <2>2 DEF Kept
  <2> QED
    BY <1>1, <1>2, <1>3, <1>4, <2>2, <2>3 DEF CartOnce, RunnerOnce
<1> QED
  BY <1>5, <1>6

LEMMA OnceStall ==
  ASSUME MaxStalled <= 1, BaseInv, OnceInv, NEW s \in Carts, StallJob(s)
  PROVE  OnceInv'
<1>1. /\ UNCHANGED <<recoveryState, sentCommits, rpc, cart, overlapped, overwritten>>
      /\ job[s] = "active" /\ stalls'[s] > stalls[s] /\ stalls'[s] > 0
      /\ job'[s] = IF stalls[s] < MaxStalled THEN "waiting" ELSE "failed"
      /\ \A t \in Carts \ {s} : job'[t] = job[t] /\ stalls'[t] = stalls[t]
  BY DEF StallJob, dbVars, runVars, runHist, BaseInv, TypeOK
<1> SUFFICES ASSUME NEW t \in Carts \ (overlapped \cup overwritten)
             PROVE  CartOnce(t)'
  BY <1>1 DEF OnceInv
<1>2. CartOnce(t)
  BY DEF OnceInv
<1>3. (Kept(t)' <=> Kept(t)) /\ \A q \in Runners : Running(q, t)' <=> Running(q, t)
  BY <1>1 DEF Kept, Running
<1>4. LastRun(t) => LastRun(t)'
  BY <1>1 DEF LastRun, BaseInv, TypeOK
<1>5. /\ job'[t] \in {"none", "delayed"} => job[t] \in {"none", "delayed"}
      /\ job[t] \notin {"none", "delayed"} => job'[t] \notin {"none", "delayed"}
      /\ job'[t] = "waiting" => stalls'[t] > 0
  BY <1>1, <1>2 DEF CartOnce
<1> QED
  BY <1>1, <1>2, <1>3, <1>4, <1>5 DEF CartOnce, RunnerOnce

LEMMA OnceRun ==
  ASSUME MaxStalled <= 1, BaseInv, OnceInv, NEW r \in Runners,
         RunStep(r) \/ ThrowJob(r) \/ CrashJob(r) \/ \E t \in Carts : TakeJob(r, t)
  PROVE  OnceInv'
<1>1. CASE NoTemplate(r) \/ EnqueueMessage(r)
  BY <1>1, OnceLeft DEF NoTemplate, EnqueueMessage, dbVars, jobVars, runHist, BaseInv, TypeOK
<1>2. CASE FinishJob(r) \/ ThrowJob(r) \/ CrashJob(r)
  <2>1. /\ rpc[r] # "idle" /\ EndRun(r)
        /\ UNCHANGED <<recoveryState, sentCommits, stalls, overlapped, overwritten>>
    BY <1>2 DEF FinishJob, ThrowJob, CrashJob, dbVars, jobVars
  <2>2. UNCHANGED job \/ \E state \in {"completed", "failed"} : Settle(r, state)
    BY <1>2 DEF FinishJob, ThrowJob, CrashJob, jobVars
  <2>3. \A q \in Runners : (rpc'[q] = rpc[q] /\ cart'[q] = cart[q]) \/ rpc'[q] = "idle"
    BY <2>1 DEF EndRun, BaseInv, TypeOK
  <2>4. \A t \in Carts : job'[t] = job[t] \/ job'[t] \in {"completed", "failed"}
    BY <2>1, <2>2 DEF Settle, BaseInv, Bound, TypeOK
  <2> QED
    BY <2>1, <2>3, <2>4, OnceLeft
<1> QED
  BY <1>1, <1>2, OnceTake, OnceRead, OnceReset, OnceMark DEF RunStep

LEMMA OnceInvariance ==
  ASSUME MaxStalled <= 1
  PROVE  Spec => [](BaseInv /\ OnceInv)
<1>1. Init => OnceInv
  BY DEF Init, OnceInv, CartOnce, RunnerOnce, Running
<1>2. BaseInv /\ OnceInv /\ [Next]_vars => OnceInv'
  <2> SUFFICES ASSUME BaseInv, OnceInv, [Next]_vars PROVE OnceInv'
    OBVIOUS
  <2>1. ASSUME NEW t \in Carts, ChangeOptIn(t) PROVE OnceInv'
    BY <2>1, OnceLeft DEF ChangeOptIn, jobVars, runVars, runHist
  <2>2. CASE UNCHANGED vars
    BY <2>2, OnceLeft DEF vars, dbVars, jobVars, runVars, runHist
  <2> QED
    BY <2>1, <2>2, OnceEvent, OnceRun, OnceStall DEF Next
<1> QED
  BY <1>1, <1>2, BaseInvariance, PTL DEF Spec

(* One recovery message per cart, but for the two races, when a stalled job is
   run again at most once: more often, a run can take back the "sent" of the
   one before it and the next run finds a cart to remind of. *)
THEOREM CartsGetOneMessage ==
  ASSUME MaxStalled <= 1
  PROVE  Spec => []OneMessagePerCart
<1>1. BaseInv /\ OnceInv /\ MessagesAreCommitted => OneMessagePerCart
  BY DEF BaseInv, TypeOK, OnceInv, CartOnce, MessagesAreCommitted, OneMessagePerCart
<1> QED
  BY <1>1, OnceInvariance, QueuedMessagesAreCommitted, PTL

=============================================================================
