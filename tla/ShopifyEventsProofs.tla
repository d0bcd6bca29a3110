------------------------ MODULE ShopifyEventsProofs ------------------------
(***************************************************************************)
(* Order events and automations for any number of events, slots, messages,  *)
(* deliveries and failures: the run log, its counter and the queue agree,   *)
(* events handled in order leave the newest one's row, and repetition is    *)
(* bounded by the attempts and stalls a job has.                            *)
(***************************************************************************)
EXTENDS ShopifyEvents, FiniteSetTheorems, TLAPS

USE ShopifyAssumption

PcStates == {"idle", "claim", "apply", "workflows", "enqueue", "commit", "finish"}
JobStates == {"none", "waiting", "active", "completed", "failed"}

(* The transaction a slot is in, and what it has done so far. *)
SlotInv ==
  \A w \in Slots :
    /\ pc[w] # "idle" => ev[w] \in Events
    /\ pc[w] \in {"idle", "claim", "apply"} => ~found[w]
    /\ pc[w] \in {"idle", "claim", "apply", "workflows", "commit"} => ~matched[w] /\ sent[w] = 0
    /\ pc[w] = "enqueue" => matched[w]

BaseInv == TypeOK /\ SlotInv

LEMMA BaseInit == Init => BaseInv
<1>1. ASSUME Init PROVE TypeOK
  <2>1. /\ topic \in Scenarios /\ posts \in [Events -> Nat]
        /\ job \in [Events -> JobStates] /\ owner \in [Events -> Slots \cup {NoSlot}]
        /\ attempts \in [Events -> Nat] /\ stalls \in [Events -> Nat]
    BY <1>1 DEF Init, JobStates
  <2>2. /\ pc \in [Slots -> PcStates] /\ ev \in [Slots -> Events \cup {NoEvent}]
        /\ found \in [Slots -> BOOLEAN] /\ matched \in [Slots -> BOOLEAN]
        /\ sent \in [Slots -> Nat]
    BY <1>1 DEF Init, PcStates
  <2>3. /\ ledger \subseteq Events /\ row \in Events \cup {NoEvent}
        /\ runs \in [Events -> Nat] /\ runCount \in Nat /\ queued \in [Events -> Nat]
        /\ exhausted \subseteq Events /\ disordered \in BOOLEAN /\ failures \in Nat
    BY <1>1 DEF Init
  <2> QED
    BY <2>1, <2>2, <2>3 DEF TypeOK, JobStates, PcStates
<1>2. Init => SlotInv
  BY DEF Init, SlotInv
<1> QED
  BY <1>1, <1>2 DEF BaseInv

(* The end of a run frees its slot. *)
LEMMA FreeSlotEffect ==
  ASSUME BaseInv, NEW w \in Slots, FreeSlot(w)
  PROVE  /\ pc' \in [Slots -> PcStates] /\ ev' \in [Slots -> Events \cup {NoEvent}]
         /\ found' \in [Slots -> BOOLEAN] /\ matched' \in [Slots -> BOOLEAN]
         /\ sent' \in [Slots -> Nat] /\ SlotInv' /\ pc'[w] = "idle"
         /\ \A v \in Slots \ {w} : /\ pc'[v] = pc[v] /\ ev'[v] = ev[v] /\ found'[v] = found[v]
                                   /\ matched'[v] = matched[v] /\ sent'[v] = sent[v]
<1>1. /\ pc' \in [Slots -> PcStates] /\ ev' \in [Slots -> Events \cup {NoEvent}]
      /\ found' \in [Slots -> BOOLEAN] /\ matched' \in [Slots -> BOOLEAN]
      /\ sent' \in [Slots -> Nat]
  BY DEF FreeSlot, BaseInv, TypeOK, PcStates
<1>2. /\ pc'[w] = "idle" /\ ~found'[w] /\ ~matched'[w] /\ sent'[w] = 0
      /\ \A v \in Slots \ {w} : /\ pc'[v] = pc[v] /\ ev'[v] = ev[v] /\ found'[v] = found[v]
                                /\ matched'[v] = matched[v] /\ sent'[v] = sent[v]
  BY DEF FreeSlot, BaseInv, TypeOK
<1> QED
  BY <1>1, <1>2 DEF BaseInv, SlotInv

LEMMA BaseTransaction ==
  ASSUME BaseInv, NEW w \in Slots,
         ClaimEvent(w) \/ Apply(w) \/ RunOrderWorkflows(w) \/ EnqueueSend(w) \/ Commit(w)
  PROVE  BaseInv'
<1> USE DEF BaseInv
<1>1. CASE ClaimEvent(w)
  <2>1. TypeOK'
    BY <1>1 DEF ClaimEvent, TypeOK, apiVars, jobVars, dbVars
  <2>2. SlotInv'
    BY <1>1 DEF ClaimEvent, SlotInv, TypeOK
  <2> QED
    BY <2>1, <2>2
<1>2. CASE Apply(w)
  <2>1. Writes(ev[w]) \in BOOLEAN
    BY DEF Writes
  <2>2. TypeOK'
    BY <1>2, <2>1 DEF Apply, TypeOK, apiVars, jobVars, dbVars, histVars
  <2>3. SlotInv'
    BY <1>2 DEF Apply, SlotInv, TypeOK
  <2> QED
    BY <2>2, <2>3
<1>3. CASE RunOrderWorkflows(w)
  <2>1. TypeOK'
    BY <1>3 DEF RunOrderWorkflows, TypeOK, apiVars, jobVars, dbVars, histVars
  <2>2. SlotInv'
    BY <1>3 DEF RunOrderWorkflows, SlotInv, TypeOK
  <2> QED
    BY <2>1, <2>2
<1>4. CASE EnqueueSend(w)
  <2>1. TypeOK'
    BY <1>4 DEF EnqueueSend, TypeOK, SlotInv, apiVars, jobVars, dbVars, histVars
  <2>2. SlotInv'
    BY <1>4 DEF EnqueueSend, SlotInv, TypeOK
  <2> QED
    BY <2>1, <2>2
<1>5. CASE Commit(w)
  <2>1. ev[w] \in Events
    BY <1>5 DEF Commit, Ready, SlotInv
  <2>2. runs' \in [Events -> Nat] /\ runCount' \in Nat
    BY <1>5, <2>1 DEF Commit, RunCountAfter, TypeOK
  <2>3. TypeOK'
    BY <1>5, <2>1, <2>2 DEF Commit, TypeOK, apiVars, jobVars, histVars
  <2>4. SlotInv'
    BY <1>5, <2>1 DEF Commit, SlotInv, TypeOK
  <2> QED
    BY <2>3, <2>4
<1> QED
  BY <1>1, <1>2, <1>3, <1>4, <1>5

LEMMA BaseQueue ==
  ASSUME BaseInv, NEW e \in Events,
         Receive(e) \/ Evict(e) \/ Stall(e) \/ \E w \in Slots : Take(w, e)
  PROVE  BaseInv'
<1> USE DEF BaseInv
<1>1. CASE Receive(e)
  <2>1. TypeOK'
    BY <1>1 DEF Receive, TypeOK, slotVars, dbVars, histVars
  <2> QED
    BY <1>1, <2>1 DEF Receive, SlotInv, slotVars
<1>2. CASE Evict(e)
  <2>1. TypeOK'
    BY <1>2 DEF Evict, TypeOK, apiVars, slotVars, dbVars, histVars
  <2> QED
    BY <1>2, <2>1 DEF Evict, SlotInv, slotVars
<1>3. CASE Stall(e)
  <2>1. TypeOK'
    BY <1>3 DEF Stall, Requeue, TypeOK, apiVars, slotVars, dbVars
  <2> QED
    BY <1>3, <2>1 DEF Stall, SlotInv, slotVars
<1>4. ASSUME NEW w \in Slots, Take(w, e) PROVE BaseInv'
  <2>1. TypeOK'
    BY <1>4 DEF Take, TypeOK, apiVars, dbVars, histVars
  <2>2. SlotInv'
    BY <1>4 DEF Take, SlotInv, TypeOK
  <2> QED
    BY <2>1, <2>2
<1> QED
  BY <1>1, <1>2, <1>3, <1>4

(* A run that finishes, throws or dies leaves the tables alone. *)
Ends(w) == Finish(w) \/ Throw(w) \/ Crash(w)

LEMMA EndsEffect ==
  ASSUME BaseInv, NEW w \in Slots, Ends(w)
  PROVE  FreeSlot(w) /\ UNCHANGED <<topic, ledger, row, runs, runCount, queued, disordered>>
BY DEF Ends, Finish, Throw, Crash, Requeue, apiVars, dbVars, histVars

LEMMA BaseEnds ==
  ASSUME BaseInv, NEW w \in Slots, Ends(w)
  PROVE  BaseInv'
<1>1. ev[w] \in Events
  BY DEF Ends, Finish, Throw, Crash, BaseInv, SlotInv
<1>2. /\ FreeSlot(w) /\ posts' = posts /\ stalls' = stalls /\ failures' \in Nat
      /\ UNCHANGED <<topic, ledger, row, runs, runCount, queued, disordered>>
  BY EndsEffect DEF Ends, Finish, Throw, Crash, apiVars, jobVars, BaseInv, TypeOK
<1>3. /\ job' \in [Events -> JobStates] /\ owner' \in [Events -> Slots \cup {NoSlot}]
      /\ attempts' \in [Events -> Nat] /\ exhausted' \subseteq Events
  BY <1>1 DEF Ends, Finish, Throw, Crash, Requeue, jobVars, histVars, BaseInv, TypeOK, JobStates
<1>4. TypeOK'
  BY <1>2, <1>3, FreeSlotEffect DEF BaseInv, TypeOK, PcStates, JobStates
<1> QED
  BY <1>2, <1>4, FreeSlotEffect DEF BaseInv

LEMMA BaseStep ==
  ASSUME BaseInv, [Next]_vars
  PROVE  BaseInv'
<1>1. CASE UNCHANGED vars
  BY <1>1 DEF vars, BaseInv, TypeOK, SlotInv, apiVars, jobVars, slotVars, dbVars, histVars
<1> QED
  BY <1>1, BaseTransaction, BaseQueue, BaseEnds DEF Next, SlotStep, Ends

LEMMA BaseInvariance == Spec => []BaseInv
BY BaseInit, BaseStep, PTL DEF Spec

(* Every reachable state is well typed. *)
THEOREM TypeCorrect == Spec => []TypeOK
<1>1. BaseInv => TypeOK
  BY DEF BaseInv
<1> QED
  BY <1>1, BaseInvariance, PTL

-----------------------------------------------------------------------------
(* The open claims of an event exclude each other and its commit: what a
   transaction has queued so far stays, and its run is not in the log yet. *)

ClaimInv ==
  /\ \A w \in Slots : HoldsClaim(w) => ev[w] \notin ledger /\ sent[w] <= queued[ev[w]]
  /\ \A v, w \in Slots : HoldsClaim(v) /\ HoldsClaim(w) /\ v # w => ev[v] # ev[w]

LogInv ==
  /\ \A e \in Events : runs[e] \in {0, 1} /\ (runs[e] = 1 => e \in ledger /\ queued[e] >= Sends)
  /\ runCount = Cardinality({e \in Events : runs[e] = 1})

RunInv == BaseInv /\ ClaimInv /\ LogInv

(* Steps that leave the tables and the queue alone and open no claim. *)
LEMMA RunKept ==
  ASSUME RunInv, UNCHANGED <<ledger, runs, runCount, queued>>,
         \A w \in Slots : HoldsClaim(w)' => HoldsClaim(w) /\ ev'[w] = ev[w] /\ sent'[w] = sent[w]
  PROVE  ClaimInv' /\ LogInv'
BY DEF RunInv, ClaimInv, LogInv

LEMMA RunClaim ==
  ASSUME RunInv, NEW w \in Slots, ClaimEvent(w)
  PROVE  ClaimInv' /\ LogInv'
<1>1. UNCHANGED <<ev, sent, ledger, runs, runCount, queued>>
  BY DEF ClaimEvent, dbVars
<1>2. ev[w] \in Events /\ sent[w] = 0
  BY DEF ClaimEvent, RunInv, BaseInv, SlotInv
<1>3. \A v \in Slots : HoldsClaim(v)' => HoldsClaim(v) \/ (v = w /\ ev[w] \notin ledger)
  BY DEF ClaimEvent, HoldsClaim, RunInv, BaseInv, TypeOK
<1>4. \A v \in Slots : HoldsClaim(v) => ev[v] # ev[w]
  BY DEF ClaimEvent
<1>5. ClaimInv'
  BY <1>1, <1>2, <1>3, <1>4 DEF ClaimInv, RunInv, BaseInv, TypeOK
<1>6. LogInv'
  BY <1>1 DEF LogInv, RunInv
<1> QED
  BY <1>5, <1>6

LEMMA RunEnqueue ==
  ASSUME RunInv, NEW w \in Slots, EnqueueSend(w)
  PROVE  ClaimInv' /\ LogInv'
<1>1. /\ UNCHANGED <<pc, ev, ledger, runs, runCount>> /\ ev[w] \in Events /\ HoldsClaim(w)
      /\ queued \in [Events -> Nat] /\ sent \in [Slots -> Nat]
  BY DEF EnqueueSend, HoldsClaim, dbVars, RunInv, BaseInv, SlotInv, TypeOK
<1>2. /\ \A e \in Events : queued'[e] = IF e = ev[w] THEN queued[e] + 1 ELSE queued[e]
      /\ \A v \in Slots : sent'[v] = IF v = w THEN sent[v] + 1 ELSE sent[v]
  BY <1>1 DEF EnqueueSend
<1>3. \A v \in Slots : HoldsClaim(v)' => HoldsClaim(v)
  BY <1>1 DEF HoldsClaim
<1>4. ASSUME NEW v \in Slots, HoldsClaim(v)
      PROVE  ev[v] \notin ledger /\ sent'[v] <= queued'[ev[v]]
  <2>1. ev[v] \in Events /\ sent[v] <= queued[ev[v]] /\ ev[v] \notin ledger
    BY <1>4 DEF HoldsClaim, RunInv, ClaimInv, BaseInv, SlotInv
  <2> QED
    BY <1>1, <1>2, <2>1
<1>5. ClaimInv'
  BY <1>1, <1>3, <1>4 DEF ClaimInv, RunInv
<1>6. LogInv'
  BY <1>1, <1>2 DEF LogInv, RunInv
<1> QED
  BY <1>5, <1>6

LEMMA RunCommit ==
  ASSUME RunInv, NEW w \in Slots, Commit(w)
  PROVE  ClaimInv' /\ LogInv'
<1>1. /\ UNCHANGED <<ev, sent, queued>> /\ ev[w] \in Events /\ HoldsClaim(w)
      /\ ledger' = ledger \cup {ev[w]} /\ runs \in [Events -> Nat]
      /\ ~HoldsClaim(w)' /\ \A v \in Slots \ {w} : pc'[v] = pc[v]
  BY DEF Commit, Ready, HoldsClaim, RunInv, BaseInv, SlotInv, TypeOK
<1>2. ClaimInv'
  BY <1>1 DEF ClaimInv, RunInv, HoldsClaim
<1>3. ev[w] \notin ledger /\ runs[ev[w]] = 0 /\ sent[w] <= queued[ev[w]]
  BY <1>1 DEF RunInv, ClaimInv, LogInv
<1>4. matched[w] => sent[w] = Sends
  BY DEF Commit, Ready, RunInv, BaseInv, SlotInv
<1>5. matched[w] \in BOOLEAN /\ runCount \in Nat
  BY DEF RunInv, BaseInv, TypeOK
<1> DEFINE Logged == {e \in Events : runs[e] = 1}
<1>6. IsFiniteSet(Logged) /\ ev[w] \notin Logged /\ runCount = Cardinality(Logged)
  BY <1>3, FS_Subset DEF RunInv, LogInv
<1>7. CASE matched[w]
  <2>1. \A e \in Events : runs'[e] = IF e = ev[w] THEN 1 ELSE runs[e]
    BY <1>1, <1>3, <1>7 DEF Commit
  <2>2. Logged' = Logged \cup {ev[w]}
    BY <1>1, <2>1
  <2>3. Cardinality(Logged') = Cardinality(Logged) + 1
    BY <1>6, <2>2, FS_AddElement
  <2>4. runCount' = runCount + 1
    BY <1>7 DEF Commit, RunCountAfter
  <2>5. \A e \in Events : runs'[e] \in {0, 1} /\ (runs'[e] = 1 => e \in ledger' /\ queued'[e] >= Sends)
    BY <1>1, <1>3, <1>4, <1>7, <2>1 DEF RunInv, LogInv
  <2> QED
    BY <1>2, <1>6, <2>3, <2>4, <2>5 DEF LogInv
<1>8. CASE ~matched[w]
  <2>1. \A e \in Events : runs'[e] = runs[e]
    BY <1>1, <1>8 DEF Commit
  <2>2. Logged' = Logged
    BY <2>1
  <2>3. runCount' = runCount
    BY <1>8 DEF Commit, RunCountAfter
  <2> QED
    BY <1>1, <1>2, <1>6, <2>1, <2>2, <2>3 DEF LogInv, RunInv
<1> QED
  BY <1>7, <1>8

LEMMA RunStepKeeps ==
  ASSUME RunInv, [Next]_vars
  PROVE  ClaimInv' /\ LogInv'
<1>0. pc \in [Slots -> PcStates]
  BY DEF RunInv, BaseInv, TypeOK, PcStates
<1>1. ASSUME NEW w \in Slots, Apply(w) \/ RunOrderWorkflows(w) PROVE ClaimInv' /\ LogInv'
  <2>1. /\ UNCHANGED <<ev, sent, ledger, runs, runCount, queued>> /\ HoldsClaim(w)
        /\ \A v \in Slots \ {w} : pc'[v] = pc[v]
    BY <1>0, <1>1 DEF Apply, RunOrderWorkflows, HoldsClaim, dbVars
  <2> QED
    BY <2>1, RunKept DEF HoldsClaim
<1>2. ASSUME NEW w \in Slots, Ends(w) PROVE ClaimInv' /\ LogInv'
  <2>1. /\ UNCHANGED <<ledger, runs, runCount, queued>> /\ pc'[w] = "idle"
        /\ \A v \in Slots \ {w} : pc'[v] = pc[v] /\ ev'[v] = ev[v] /\ sent'[v] = sent[v]
    BY <1>2, EndsEffect, FreeSlotEffect DEF RunInv
  <2> QED
    BY <2>1, RunKept DEF HoldsClaim
<1>3. ASSUME NEW e \in Events, NEW w \in Slots, Take(w, e) PROVE ClaimInv' /\ LogInv'
  <2>1. /\ UNCHANGED <<sent, ledger, runs, runCount, queued>> /\ pc'[w] = "claim"
        /\ \A v \in Slots \ {w} : pc'[v] = pc[v] /\ ev'[v] = ev[v]
    BY <1>0, <1>3 DEF Take, dbVars, RunInv, BaseInv, TypeOK
  <2> QED
    BY <2>1, RunKept DEF HoldsClaim
<1>4. CASE (\E e \in Events : Receive(e) \/ Evict(e) \/ Stall(e)) \/ UNCHANGED vars
  <2>1. UNCHANGED <<pc, ev, sent, ledger, runs, runCount, queued>>
    BY <1>4 DEF Receive, Evict, Stall, vars, slotVars, dbVars
  <2> QED
    BY <2>1, RunKept DEF HoldsClaim
<1> QED
  BY <1>1, <1>2, <1>3, <1>4, RunClaim, RunEnqueue, RunCommit DEF Next, SlotStep, Ends

LEMMA RunInvariance == Spec => []RunInv
<1>1. Init => ClaimInv /\ LogInv
  <2> SUFFICES ASSUME Init PROVE ClaimInv /\ LogInv
    OBVIOUS
  <2>1. ClaimInv
    BY DEF Init, ClaimInv, HoldsClaim
  <2>2. {e \in Events : runs[e] = 1} = {}
    BY DEF Init
  <2> QED
    BY <2>1, <2>2, FS_EmptySet DEF Init, LogInv
<1> QED
  BY <1>1, RunStepKeeps, BaseInvariance, PTL DEF Spec, RunInv

(* The run log has an event once, the counter agrees with it, and a run in the
   log has all its messages on the queue. *)
THEOREM LoggedRunsAreQueued == Spec => []RecordedRunsAreQueued
<1>1. RunInv => RecordedRunsAreQueued
  BY DEF RunInv, LogInv, RecordedRunsAreQueued
<1> QED
  BY <1>1, RunInvariance, PTL

-----------------------------------------------------------------------------
(* While events are taken up in order, those older than any event that is open
   or handled are handled, and a row exists once an event of it is handled. *)

OpenOrHandled(e) == e \in ledger \/ \E w \in Slots : HoldsClaim(w) /\ ev[w] = e

OrderInv ==
  ~disordered => \A e, f \in Events : OpenOrHandled(e) /\ Rank[f] < Rank[e] => f \in ledger

RowInv ==
  ~disordered /\ OldestCreates =>
    /\ \A e \in ledger : topic[e] \notin ClaimsOnly => row # NoEvent /\ Rank[e] <= Rank[row]
    /\ \A w \in Slots : pc[w] \in {"workflows", "enqueue", "commit"} =>
         (found[w] <=> topic[ev[w]] \notin ClaimsOnly)

HistoryInv == RunInv /\ OrderInv /\ RowInv

LEMMA HistoryKept ==
  ASSUME HistoryInv, UNCHANGED <<topic, ledger, row, disordered>>,
         \A w \in Slots : \/ pc'[w] = pc[w] /\ ev'[w] = ev[w] /\ found'[w] = found[w]
                          \/ pc'[w] \in {"idle", "claim", "finish"}
  PROVE  OrderInv' /\ RowInv'
<1>1. \A e \in Events : OpenOrHandled(e)' => OpenOrHandled(e)
  BY DEF OpenOrHandled, HoldsClaim
<1>2. OldestCreates' <=> OldestCreates
  BY DEF OldestCreates
<1> QED
  BY <1>1, <1>2 DEF HistoryInv, OrderInv, RowInv

LEMMA HistoryClaim ==
  ASSUME HistoryInv, NEW w \in Slots, ClaimEvent(w)
  PROVE  OrderInv' /\ RowInv'
<1>1. /\ UNCHANGED <<topic, ledger, row, ev, found>> /\ pc'[w] \in {"apply", "finish"}
      /\ \A v \in Slots \ {w} : pc'[v] = pc[v]
      /\ ~disordered' => ~disordered /\ \A f \in Events : Rank[f] < Rank[ev[w]] => f \in ledger
  BY DEF ClaimEvent, apiVars, dbVars, HistoryInv, RunInv, BaseInv, TypeOK
<1>2. \A e \in Events : OpenOrHandled(e)' => OpenOrHandled(e) \/ e = ev[w]
  BY <1>1 DEF OpenOrHandled, HoldsClaim
<1>3. OldestCreates' <=> OldestCreates
  BY <1>1 DEF OldestCreates
<1>4. OrderInv'
  BY <1>1, <1>2 DEF HistoryInv, OrderInv
<1>5. RowInv'
  BY <1>1, <1>3 DEF HistoryInv, RowInv
<1> QED
  BY <1>4, <1>5

(* In order, the statement of an event with a row to write finds that row. *)
LEMMA WritesInOrder ==
  ASSUME HistoryInv, ~disordered, OldestCreates, NEW w \in Slots, pc[w] = "apply"
  PROVE  Writes(ev[w]) <=> topic[ev[w]] \notin ClaimsOnly
<1>1. topic \in [Events -> Topics] /\ ev[w] \in Events /\ HoldsClaim(w)
  BY DEF HistoryInv, RunInv, BaseInv, TypeOK, SlotInv, HoldsClaim
<1>2. CASE topic[ev[w]] \in ClaimsOnly
  BY <1>2 DEF Writes, ClaimsOnly, Upserts, Updates
<1>3. CASE topic[ev[w]] \in Upserts
  BY <1>3 DEF Writes, ClaimsOnly, Upserts
<1>4. CASE topic[ev[w]] \in Updates
  <2>1. PICK c \in Events : /\ topic[c] \in Upserts \cup {"app/uninstalled"}
                            /\ \A f \in Events : Rank[c] <= Rank[f]
    BY DEF OldestCreates
  <2>2. CASE c = ev[w]
    BY <1>4, <2>1, <2>2 DEF Writes, ClaimsOnly, Upserts, Updates
  <2>3. CASE c # ev[w]
    <3>1. Rank[c] < Rank[ev[w]]
      BY <1>1, <2>1, <2>3
    <3>2. c \in ledger
      BY <1>1, <3>1 DEF HistoryInv, OrderInv, OpenOrHandled
    <3>3. topic[c] \notin ClaimsOnly
      BY <2>1 DEF ClaimsOnly, Upserts
    <3>4. row # NoEvent
      BY <3>2, <3>3 DEF HistoryInv, RowInv
    <3> QED
      BY <1>4, <3>4 DEF Writes, ClaimsOnly, Updates
  <2> QED
    BY <2>2, <2>3
<1> QED
  BY <1>1, <1>2, <1>3, <1>4 DEF Topics

LEMMA HistoryApply ==
  ASSUME HistoryInv, NEW w \in Slots, Apply(w)
  PROVE  OrderInv' /\ RowInv'
<1>1. /\ UNCHANGED <<topic, ledger, row, ev, disordered>> /\ pc[w] = "apply"
      /\ \A v \in Slots \ {w} : pc'[v] = pc[v] /\ found'[v] = found[v]
      /\ found'[w] = Writes(ev[w])
  BY DEF Apply, apiVars, dbVars, histVars, HistoryInv, RunInv, BaseInv, TypeOK
<1>2. \A e \in Events : OpenOrHandled(e)' => OpenOrHandled(e)
  BY <1>1 DEF OpenOrHandled, HoldsClaim
<1>3. OldestCreates' <=> OldestCreates
  BY <1>1 DEF OldestCreates
<1>4. OrderInv'
  BY <1>1, <1>2 DEF HistoryInv, OrderInv
<1>5. RowInv'
  BY <1>1, <1>3, WritesInOrder DEF HistoryInv, RowInv
<1> QED
  BY <1>4, <1>5

LEMMA HistoryCommit ==
  ASSUME HistoryInv, NEW w \in Slots, Commit(w)
  PROVE  OrderInv' /\ RowInv'
<1>1. /\ UNCHANGED <<topic, ev, found, disordered>> /\ ev[w] \in Events /\ HoldsClaim(w)
      /\ pc[w] \in {"enqueue", "commit"} /\ pc'[w] = "finish"
      /\ \A v \in Slots \ {w} : pc'[v] = pc[v]
      /\ ledger' = ledger \cup {ev[w]} /\ row' = IF found[w] THEN ev[w] ELSE row
  BY DEF Commit, Ready, HoldsClaim, apiVars, histVars, HistoryInv, RunInv, BaseInv, SlotInv, TypeOK
<1>2. \A e \in Events : OpenOrHandled(e)' => OpenOrHandled(e)
  BY <1>1 DEF OpenOrHandled, HoldsClaim
<1>3. OldestCreates' <=> OldestCreates
  BY <1>1 DEF OldestCreates
<1>4. OrderInv'
  BY <1>1, <1>2 DEF HistoryInv, OrderInv
<1>5. ASSUME ~disordered, OldestCreates, NEW e \in ledger', topic[e] \notin ClaimsOnly
      PROVE  row' # NoEvent /\ Rank[e] <= Rank[row']
  <2>1. e \in Events /\ ledger \subseteq Events
    BY <1>1 DEF HistoryInv, RunInv, BaseInv, TypeOK
  <2>2. found[w] <=> topic[ev[w]] \notin ClaimsOnly
    BY <1>1, <1>5 DEF HistoryInv, RowInv
  <2>3. CASE found[w]
    <3>1. e = ev[w] \/ ~(Rank[ev[w]] < Rank[e])
      BY <1>1, <1>5, <2>1 DEF HistoryInv, OrderInv, OpenOrHandled, RunInv, ClaimInv
    <3> QED
      BY <1>1, <2>1, <2>3, <3>1
  <2>4. CASE ~found[w]
    BY <1>1, <1>5, <2>2, <2>4 DEF HistoryInv, RowInv
  <2> QED
    BY <2>3, <2>4
<1>6. RowInv'
  BY <1>1, <1>3, <1>5 DEF HistoryInv, RowInv
<1> QED
  BY <1>4, <1>6

LEMMA HistoryStepKeeps ==
  ASSUME HistoryInv, [Next]_vars
  PROVE  OrderInv' /\ RowInv'
<1>0. pc \in [Slots -> PcStates]
  BY DEF HistoryInv, RunInv, BaseInv, TypeOK, PcStates
<1>1. ASSUME NEW w \in Slots, RunOrderWorkflows(w) PROVE OrderInv' /\ RowInv'
  <2>1. /\ UNCHANGED <<topic, ledger, row, disordered, ev, found>>
        /\ pc[w] = "workflows" /\ pc'[w] \in {"enqueue", "commit"}
        /\ \A v \in Slots \ {w} : pc'[v] = pc[v]
    BY <1>0, <1>1 DEF RunOrderWorkflows, apiVars, dbVars, histVars
  <2>2. \A e \in Events : OpenOrHandled(e)' => OpenOrHandled(e)
    BY <2>1 DEF OpenOrHandled, HoldsClaim
  <2>3. OldestCreates' <=> OldestCreates
    BY <2>1 DEF OldestCreates
  <2>4. OrderInv'
    BY <2>1, <2>2 DEF HistoryInv, OrderInv
  <2>5. RowInv'
    BY <2>1, <2>3 DEF HistoryInv, RowInv
  <2> QED
    BY <2>4, <2>5
<1>2. ASSUME NEW w \in Slots, Ends(w) PROVE OrderInv' /\ RowInv'
  <2>1. /\ UNCHANGED <<topic, ledger, row, disordered>> /\ pc'[w] = "idle"
        /\ \A v \in Slots \ {w} : pc'[v] = pc[v] /\ ev'[v] = ev[v] /\ found'[v] = found[v]
    BY <1>2, EndsEffect, FreeSlotEffect DEF HistoryInv, RunInv
  <2> QED
    BY <2>1, HistoryKept
<1>3. ASSUME NEW e \in Events, NEW w \in Slots, Take(w, e) PROVE OrderInv' /\ RowInv'
  <2>1. /\ UNCHANGED <<topic, ledger, row, disordered, found>> /\ pc'[w] = "claim"
        /\ \A v \in Slots \ {w} : pc'[v] = pc[v] /\ ev'[v] = ev[v]
    BY <1>0, <1>3 DEF Take, apiVars, dbVars, histVars, HistoryInv, RunInv, BaseInv, TypeOK
  <2> QED
    BY <2>1, HistoryKept
<1>4. CASE \/ \E w \in Slots : EnqueueSend(w)
           \/ \E e \in Events : Receive(e) \/ Evict(e) \/ Stall(e)
           \/ UNCHANGED vars
  <2>1. UNCHANGED <<topic, ledger, row, disordered, pc, ev, found>>
    BY <1>4 DEF EnqueueSend, Receive, Evict, Stall, vars, apiVars, slotVars, dbVars, histVars
  <2> QED
    BY <2>1, HistoryKept
<1> QED
  BY <1>1, <1>2, <1>3, <1>4, HistoryClaim, HistoryApply, HistoryCommit DEF Next, SlotStep, Ends

(* Redeliveries, retries and double runs never take the row back, as long as
   events are taken up in the order in which they happened. *)
THEOREM RowsAreLatest == Spec => []RowIsLatestInOrder
<1>1. Init => OrderInv /\ RowInv
  BY DEF Init, OrderInv, RowInv, OpenOrHandled, HoldsClaim
<1>2. HistoryInv => RowIsLatestInOrder
  BY DEF HistoryInv, RowInv, RowIsLatestInOrder
<1> QED
  BY <1>1, <1>2, HistoryStepKeeps, RunInvariance, PTL DEF Spec, HistoryInv

-----------------------------------------------------------------------------
(* What an automation may still send for an event: a share of Sends messages
   for each run under way and for each start its job has left.  A start is
   paid for by an attempt, a stall or the end of the job. *)

Starts == MaxAttempts + MaxStalled

Open(e) == {w \in Slots : pc[w] \notin {"idle", "finish"} /\ ev[w] = e}

Left(e) ==
  CASE job[e] = "waiting" -> Starts - attempts[e] - stalls[e]
    [] job[e] = "active"  -> Starts - attempts[e] - stalls[e] - 1
    [] OTHER              -> 0

Owed(e) == Cardinality(Open(e)) + Left(e)
Allowed(e) == Sends * Starts * posts[e]

RetryInv ==
  \A e \in Events :
    /\ owner[e] # NoSlot => job[e] = "active"
    /\ job[e] \in {"none", "waiting", "active"} => attempts[e] < MaxAttempts /\ stalls[e] <= MaxStalled
    /\ job[e] = "none" => attempts[e] = 0 /\ stalls[e] = 0

Holder(w, e) == HoldsClaim(w) /\ ev[w] = e

(* What the run that holds the claim has sent already counts towards its share. *)
WithinBudget(e) ==
  /\ (\A w \in Slots : ~Holder(w, e)) => queued[e] + Sends * Owed(e) <= Allowed(e)
  /\ \A w \in Slots : Holder(w, e) =>
       sent[w] <= Sends /\ queued[e] + Sends * Owed(e) <= Allowed(e) + sent[w]

BudgetInv == \A e \in Events : WithinBudget(e)

Typed == BaseInv /\ ClaimInv /\ RetryInv

(* All these are natural numbers; their products are written out where needed. *)
Sized(e) ==
  /\ IsFiniteSet(Open(e)) /\ Cardinality(Open(e)) \in Nat
  /\ Left(e) \in Nat /\ Left(e) <= Starts /\ Owed(e) \in Nat
  /\ posts[e] \in Nat /\ queued[e] \in Nat /\ attempts[e] \in Nat /\ stalls[e] \in Nat

AllSized == \A e \in Events : Sized(e)

LEMMA TypedSized == Typed => AllSized
<1> SUFFICES ASSUME Typed, NEW e \in Events PROVE Sized(e)
  BY DEF AllSized
<1>1. Open(e) \in SUBSET Slots
  BY DEF Open
<1>2. IsFiniteSet(Open(e)) /\ Cardinality(Open(e)) \in Nat
  BY <1>1, FS_Subset, FS_CardinalityType
<1>3. attempts[e] \in Nat /\ stalls[e] \in Nat /\ posts[e] \in Nat /\ queued[e] \in Nat
  BY DEF Typed, BaseInv, TypeOK
<1>4. Left(e) \in Nat /\ Left(e) <= Starts
  BY <1>3 DEF Left, Starts, Typed, RetryInv
<1> QED
  BY <1>2, <1>3, <1>4 DEF Sized, Owed

(* A run that ends, or has nothing more to send, owes nothing. *)
LEMMA OwedFalls ==
  ASSUME Typed, Typed', NEW e \in Events, Left(e)' <= Left(e)
  PROVE  /\ Open(e)' \subseteq Open(e) => Owed(e)' <= Owed(e)
         /\ \A w \in Open(e) : Open(e)' \subseteq Open(e) \ {w} => Owed(e)' <= Owed(e) - 1
<1>1. Sized(e) /\ Sized(e)'
  <2>1. Typed' => AllSized'
    BY TypedSized, PTL
  <2> QED
    BY <2>1, TypedSized DEF AllSized
<1>2. ASSUME Open(e)' \subseteq Open(e) PROVE Owed(e)' <= Owed(e)
  <2>1. Cardinality(Open(e)') <= Cardinality(Open(e))
    BY <1>1, <1>2, FS_Subset DEF Sized
  <2> QED
    BY <1>1, <2>1 DEF Owed, Sized
<1>3. ASSUME NEW w \in Open(e), Open(e)' \subseteq Open(e) \ {w} PROVE Owed(e)' <= Owed(e) - 1
  <2>1. IsFiniteSet(Open(e) \ {w}) /\ Cardinality(Open(e) \ {w}) = Cardinality(Open(e)) - 1
    BY <1>1, FS_RemoveElement DEF Sized
  <2>2. Cardinality(Open(e)') <= Cardinality(Open(e)) - 1
    BY <1>3, <2>1, FS_Subset
  <2> QED
    BY <1>1, <2>2 DEF Owed, Sized
<1> QED
  BY <1>2, <1>3

-----------------------------------------------------------------------------
(* Attempts and stalls stay within what BullMQ allows while a job is alive. *)

LEMMA RetryQueue ==
  ASSUME BaseInv, RetryInv, NEW e \in Events,
         Receive(e) \/ Evict(e) \/ Stall(e) \/ \E w \in Slots : Take(w, e)
  PROVE  RetryInv'
<1> USE DEF BaseInv, TypeOK, RetryInv
<1>1. CASE Receive(e)
  BY <1>1 DEF Receive
<1>2. CASE Evict(e)
  BY <1>2 DEF Evict
<1>3. CASE Stall(e)
  BY <1>3 DEF Stall, Requeue
<1>4. ASSUME NEW w \in Slots, Take(w, e) PROVE RetryInv'
  BY <1>4 DEF Take
<1> QED
  BY <1>1, <1>2, <1>3, <1>4

LEMMA RetryEnds ==
  ASSUME BaseInv, RetryInv, NEW w \in Slots, Ends(w)
  PROVE  RetryInv'
<1>0. ev[w] \in Events
  BY DEF Ends, Finish, Throw, Crash, BaseInv, SlotInv
<1> USE DEF BaseInv, TypeOK, RetryInv
<1>1. CASE Finish(w)
  BY <1>0, <1>1 DEF Finish
<1>2. CASE Throw(w)
  BY <1>0, <1>2 DEF Throw, Requeue
<1>3. CASE Crash(w)
  BY <1>3 DEF Crash, jobVars
<1> QED
  BY <1>1, <1>2, <1>3 DEF Ends

Transaction(w) ==
  ClaimEvent(w) \/ Apply(w) \/ RunOrderWorkflows(w) \/ EnqueueSend(w) \/ Commit(w)

LEMMA RetryInvariance == Spec => [](RunInv /\ RetryInv)
<1>1. Init => RetryInv
  BY DEF Init, RetryInv
<1>2. RunInv /\ RetryInv /\ [Next]_vars => RetryInv'
  <2> SUFFICES ASSUME RunInv, RetryInv, [Next]_vars PROVE RetryInv'
    OBVIOUS
  <2>1. CASE (\E w \in Slots : Transaction(w)) \/ UNCHANGED vars
    <3>1. UNCHANGED <<job, owner, attempts, stalls>>
      BY <2>1 DEF Transaction, ClaimEvent, Apply, RunOrderWorkflows, EnqueueSend, Commit, jobVars, vars
    <3> QED
      BY <3>1 DEF RetryInv
  <2> QED
    BY <2>1, RetryQueue, RetryEnds DEF RunInv, Next, SlotStep, Ends, Transaction
<1> QED
  BY <1>1, <1>2, RunInvariance, PTL DEF Spec

-----------------------------------------------------------------------------
(* The budget. *)

LEMMA Shares ==
  ASSUME NEW m \in Int, NEW n \in Int
  PROVE  /\ Sends * m \in Int
         /\ m <= n => Sends * m <= Sends * n
         /\ Sends * (m + n) = Sends * m + Sends * n
OBVIOUS

(* No message is queued: the holder of the claim stays, ends and gives its
   share back, or is new. *)
LEMMA BudgetKept ==
  ASSUME Typed, Typed', NEW e \in Events, WithinBudget(e),
         queued'[e] = queued[e], posts'[e] = posts[e], Owed(e)' <= Owed(e),
         \A w \in Slots : Holder(w, e)' => \/ Holder(w, e) /\ sent'[w] = sent[w]
                                           \/ sent'[w] = 0 /\ \A v \in Slots : ~Holder(v, e),
         (\E w \in Slots : Holder(w, e)) =>
           (\E w \in Slots : Holder(w, e)') \/ Owed(e)' <= Owed(e) - 1
  PROVE  WithinBudget(e)'
<1>1. Sized(e) /\ Sized(e)'
  <2>1. Typed' => AllSized'
    BY TypedSized, PTL
  <2> QED
    BY <2>1, TypedSized DEF AllSized
<1>2. /\ Owed(e) \in Int /\ Owed(e)' \in Int /\ queued[e] \in Int
      /\ Sends * Owed(e) \in Int /\ Sends * Owed(e)' \in Int
      /\ Sends * Owed(e)' <= Sends * Owed(e)
  BY <1>1, Shares DEF Sized
<1>3. Allowed(e)' = Allowed(e) /\ Allowed(e) \in Int
  BY <1>1 DEF Allowed, Starts, Sized
<1>4. \A w \in Slots : sent[w] \in Int
  BY DEF Typed, BaseInv, TypeOK
<1>5. ASSUME \A w \in Slots : ~Holder(w, e)'
      PROVE  queued[e] + Sends * Owed(e)' <= Allowed(e)
  <2>1. CASE \A w \in Slots : ~Holder(w, e)
    BY <1>2, <1>3, <2>1 DEF WithinBudget
  <2>2. CASE \E w \in Slots : Holder(w, e)
    <3>1. PICK w \in Slots : Holder(w, e)
      BY <2>2
    <3>2. Owed(e)' <= Owed(e) - 1
      BY <1>5, <2>2
    <3>3. Sends * Owed(e)' <= Sends * (Owed(e) - 1)
      BY <1>2, <3>2, Shares
    <3>4. Sends * (Owed(e) - 1) = Sends * Owed(e) - Sends
      BY <1>2
    <3>5. sent[w] <= Sends /\ queued[e] + Sends * Owed(e) <= Allowed(e) + sent[w]
      BY <3>1 DEF WithinBudget
    <3> HIDE DEF Allowed
    <3> QED
      BY <1>2, <1>3, <1>4, <3>3, <3>4, <3>5
  <2> QED
    BY <2>1, <2>2
<1>6. ASSUME NEW w \in Slots, Holder(w, e)'
      PROVE  sent'[w] <= Sends /\ queued[e] + Sends * Owed(e)' <= Allowed(e) + sent'[w]
  <2>1. CASE Holder(w, e) /\ sent'[w] = sent[w]
    BY <1>2, <1>3, <1>4, <2>1 DEF WithinBudget
  <2>2. CASE sent'[w] = 0 /\ \A v \in Slots : ~Holder(v, e)
    BY <1>2, <1>3, <2>2 DEF WithinBudget
  <2> QED
    BY <1>6, <2>1, <2>2
<1> QED
  BY <1>3, <1>5, <1>6 DEF WithinBudget

LEMMA BudgetReceive ==
  ASSUME Typed, Typed', BudgetInv, NEW e \in Events, Receive(e)
  PROVE  BudgetInv'
<1>1. /\ UNCHANGED <<attempts, stalls, pc, ev, sent, queued>>
      /\ posts'[e] = posts[e] + 1 /\ job'[e] = IF job[e] = "none" THEN "waiting" ELSE job[e]
      /\ \A f \in Events \ {e} : posts'[f] = posts[f] /\ job'[f] = job[f]
  BY DEF Receive, slotVars, Typed, BaseInv, TypeOK
<1> SUFFICES ASSUME NEW f \in Events PROVE WithinBudget(f)'
  BY DEF BudgetInv
<1>2. (\A w \in Slots : Holder(w, f)' <=> Holder(w, f)) /\ Open(f)' = Open(f)
  BY <1>1 DEF Holder, HoldsClaim, Open
<1>3. WithinBudget(f) /\ Sized(f)
  BY TypedSized DEF BudgetInv, AllSized
<1>4. CASE f # e
  BY <1>1, <1>2, <1>3, <1>4 DEF WithinBudget, Owed, Left, Allowed
<1>5. CASE f = e
  <2>1. Owed(f)' <= Owed(f) + Starts /\ Owed(f)' \in Int /\ Starts \in Int
    BY <1>1, <1>2, <1>3, <1>5 DEF Owed, Left, Sized, Starts, Typed, RetryInv
  <2>2. Sends * Owed(f)' <= Sends * Owed(f) + Sends * Starts
    BY <1>3, <2>1, Shares DEF Sized
  <2>3. Allowed(f)' = Allowed(f) + Sends * Starts
    <3>1. Sends * Starts \in Int
      BY <2>1
    <3> QED
      BY <1>1, <1>3, <1>5, <3>1 DEF Allowed, Sized
  <2>4. /\ queued'[f] = queued[f] /\ queued[f] \in Int /\ Allowed(f) \in Int
        /\ Sends * Owed(f) \in Int /\ Sends * Owed(f)' \in Int /\ Sends * Starts \in Int
        /\ \A w \in Slots : sent'[w] = sent[w] /\ sent[w] \in Int
    BY <1>1, <1>3, <2>1, Shares DEF Sized, Allowed, Typed, BaseInv, TypeOK
  <2> QED
    BY <1>2, <1>3, <2>2, <2>3, <2>4 DEF WithinBudget
<1> QED
  BY <1>4, <1>5

LEMMA BudgetTake ==
  ASSUME Typed, Typed', BudgetInv, NEW e \in Events, NEW w \in Slots, Take(w, e)
  PROVE  BudgetInv'
<1>1. /\ UNCHANGED <<attempts, stalls, posts, queued, sent>> /\ pc[w] = "idle" /\ pc'[w] = "claim"
      /\ ev'[w] = e /\ \A v \in Slots \ {w} : pc'[v] = pc[v] /\ ev'[v] = ev[v]
      /\ job[e] = "waiting" /\ job'[e] = "active" /\ \A f \in Events \ {e} : job'[f] = job[f]
  BY DEF Take, apiVars, Typed, BaseInv, TypeOK
<1> SUFFICES ASSUME NEW f \in Events PROVE WithinBudget(f)'
  BY DEF BudgetInv
<1>2. WithinBudget(f) /\ Sized(f)
  BY TypedSized DEF BudgetInv, AllSized
<1>3. \A v \in Slots : Holder(v, f)' <=> Holder(v, f)
  BY <1>1 DEF Holder, HoldsClaim
<1>4. Owed(f)' = Owed(f)
  <2>1. CASE f = e
    <3>1. Open(f)' = Open(f) \cup {w} /\ w \notin Open(f)
      BY <1>1, <2>1 DEF Open
    <3>2. Cardinality(Open(f)') = Cardinality(Open(f)) + 1
      BY <1>2, <3>1, FS_AddElement DEF Sized
    <3>3. Left(f)' = Left(f) - 1
      BY <1>1, <1>2, <2>1 DEF Left, Starts, Sized
    <3> QED
      BY <1>2, <3>2, <3>3 DEF Owed, Sized
  <2>2. CASE f # e
    <3>1. Open(f)' = Open(f)
      BY <1>1, <2>2 DEF Open
    <3> QED
      BY <1>1, <2>2, <3>1 DEF Owed, Left
  <2> QED
    BY <2>1, <2>2
<1> QED
  BY <1>1, <1>2, <1>3, <1>4 DEF WithinBudget, Allowed

LEMMA BudgetEnqueue ==
  ASSUME Typed, Typed', BudgetInv, NEW w \in Slots, EnqueueSend(w)
  PROVE  BudgetInv'
<1>1. /\ UNCHANGED <<job, attempts, stalls, posts, pc, ev>> /\ ev[w] \in Events
      /\ Holder(w, ev[w]) /\ sent[w] < Sends
      /\ \A f \in Events : queued'[f] = IF f = ev[w] THEN queued[f] + 1 ELSE queued[f]
      /\ \A v \in Slots : sent'[v] = IF v = w THEN sent[v] + 1 ELSE sent[v]
  BY DEF EnqueueSend, Holder, HoldsClaim, apiVars, jobVars, Typed, BaseInv, SlotInv, TypeOK
<1> SUFFICES ASSUME NEW f \in Events PROVE WithinBudget(f)'
  BY DEF BudgetInv
<1>2. WithinBudget(f) /\ Sized(f)
  BY TypedSized DEF BudgetInv, AllSized
<1>3. /\ \A v \in Slots : Holder(v, f)' <=> Holder(v, f)
      /\ Owed(f)' = Owed(f) /\ Allowed(f)' = Allowed(f)
  BY <1>1 DEF Holder, HoldsClaim, Open, Left, Owed, Allowed
<1>4. \A v \in Slots : Holder(v, f) /\ f = ev[w] => v = w
  BY <1>1 DEF Holder, Typed, ClaimInv
<1>5. /\ queued[f] \in Int /\ Allowed(f) \in Int /\ Sends * Owed(f) \in Int
      /\ \A v \in Slots : sent[v] \in Int
  <2>1. Starts \in Int /\ posts[f] \in Int /\ Owed(f) \in Int
    BY <1>2 DEF Sized, Starts
  <2> QED
    BY <1>2, <2>1, Shares DEF Sized, Allowed, Typed, BaseInv, TypeOK
<1>6. CASE f # ev[w]
  <2>1. \A v \in Slots : Holder(v, f) => sent'[v] = sent[v]
    BY <1>1, <1>6 DEF Holder
  <2> QED
    BY <1>1, <1>2, <1>3, <1>6, <2>1 DEF WithinBudget
<1>7. CASE f = ev[w]
  <2>1. queued'[f] = queued[f] + 1 /\ sent'[w] = sent[w] + 1 /\ sent'[w] <= Sends
    BY <1>1, <1>5, <1>7
  <2>2. queued[f] + Sends * Owed(f) <= Allowed(f) + sent[w]
    BY <1>1, <1>2, <1>7 DEF WithinBudget
  <2>3. queued'[f] + Sends * Owed(f)' <= Allowed(f)' + sent'[w]
    BY <1>3, <1>5, <2>1, <2>2
  <2> QED
    BY <1>1, <1>3, <1>4, <1>7, <2>1, <2>3 DEF WithinBudget
<1> QED
  BY <1>6, <1>7

(* The other steps of a transaction. *)
LEMMA BudgetTransaction ==
  ASSUME Typed, Typed', BudgetInv, NEW w \in Slots,
         ClaimEvent(w) \/ Apply(w) \/ RunOrderWorkflows(w) \/ Commit(w)
  PROVE  BudgetInv'
<1>1. /\ UNCHANGED <<job, attempts, stalls, posts, queued, sent, ev>> /\ pc[w] # "idle"
      /\ pc[w] # "finish" /\ \A v \in Slots \ {w} : pc'[v] = pc[v]
  BY DEF ClaimEvent, Apply, RunOrderWorkflows, Commit, Ready, apiVars, jobVars, Typed, BaseInv, TypeOK
<1>2. CASE ClaimEvent(w)
  <2>1. /\ pc[w] = "claim" /\ sent[w] = 0 /\ \A v \in Slots : HoldsClaim(v) => ev[v] # ev[w]
    BY <1>2 DEF ClaimEvent, Typed, BaseInv, SlotInv
  <2>2. ASSUME NEW f \in Events PROVE WithinBudget(f)'
    <3>1. Left(f)' = Left(f) /\ Open(f)' \subseteq Open(f) /\ WithinBudget(f) /\ Sized(f)
      BY <1>1, TypedSized DEF Left, Open, BudgetInv, AllSized
    <3>2. Owed(f)' <= Owed(f)
      BY <3>1, OwedFalls DEF Sized
    <3>3. \A v \in Slots : /\ Holder(v, f) => Holder(v, f)'
                           /\ Holder(v, f)' => Holder(v, f) \/ (v = w /\ f = ev[w])
      BY <1>1, <2>1 DEF Holder, HoldsClaim
    <3>4. \A v \in Slots : f = ev[w] => ~Holder(v, f)
      BY <2>1 DEF Holder
    <3> QED
      BY <1>1, <2>1, <3>1, <3>2, <3>3, <3>4, BudgetKept
  <2> QED
    BY <2>2 DEF BudgetInv
<1>3. CASE Apply(w) \/ RunOrderWorkflows(w)
  <2>1. HoldsClaim(w) /\ HoldsClaim(w)' /\ pc'[w] \notin {"idle", "finish"}
    BY <1>3 DEF Apply, RunOrderWorkflows, HoldsClaim, Typed, BaseInv, TypeOK
  <2>2. ASSUME NEW f \in Events PROVE WithinBudget(f)'
    <3>1. Owed(f)' = Owed(f) /\ WithinBudget(f)
      BY <1>1, <2>1 DEF Owed, Left, Open, BudgetInv
    <3>2. \A v \in Slots : Holder(v, f)' <=> Holder(v, f)
      BY <1>1, <2>1 DEF Holder, HoldsClaim
    <3> QED
      BY <1>1, <3>1, <3>2 DEF WithinBudget, Allowed
  <2> QED
    BY <2>2 DEF BudgetInv
<1>4. CASE Commit(w)
  <2>1. HoldsClaim(w) /\ pc'[w] = "finish"
    BY <1>4 DEF Commit, Ready, HoldsClaim, Typed, BaseInv, TypeOK
  <2>2. ASSUME NEW f \in Events PROVE WithinBudget(f)'
    <3>1. Left(f)' = Left(f) /\ Open(f)' = Open(f) \ {w} /\ WithinBudget(f) /\ Sized(f)
      BY <1>1, <2>1, TypedSized DEF Left, Open, BudgetInv, AllSized
    <3>2. Owed(f)' <= Owed(f) /\ (ev[w] = f => Owed(f)' <= Owed(f) - 1)
      BY <1>1, <3>1, OwedFalls DEF Sized, Open
    <3>3. \A v \in Slots : Holder(v, f)' <=> Holder(v, f) /\ v # w
      BY <1>1, <2>1 DEF Holder, HoldsClaim
    <3> QED
      BY <1>1, <3>1, <3>2, <3>3, BudgetKept DEF Holder
  <2> QED
    BY <2>2 DEF BudgetInv
<1> QED
  BY <1>2, <1>3, <1>4

LEMMA BudgetEnds ==
  ASSUME Typed, Typed', BudgetInv, NEW w \in Slots, Ends(w)
  PROVE  BudgetInv'
<1>1. /\ pc[w] # "idle" /\ ev[w] \in Events /\ FreeSlot(w) /\ UNCHANGED <<posts, queued, stalls>>
      /\ pc'[w] = "idle" /\ \A v \in Slots \ {w} : pc'[v] = pc[v] /\ ev'[v] = ev[v] /\ sent'[v] = sent[v]
  BY EndsEffect, FreeSlotEffect
     DEF Ends, Finish, Throw, Crash, apiVars, jobVars, Typed, BaseInv, SlotInv
<1> SUFFICES ASSUME NEW f \in Events PROVE WithinBudget(f)'
  BY DEF BudgetInv
<1>2. WithinBudget(f) /\ Sized(f)
  BY TypedSized DEF BudgetInv, AllSized
<1>3. Left(f)' <= Left(f)
  <2>1. UNCHANGED <<job, attempts>> => Left(f)' = Left(f)
    BY <1>1 DEF Left
  <2>2. CASE Finish(w)
    <3>1. attempts' = attempts /\ (job'[f] = job[f] \/ job'[f] = "completed")
      BY <1>1, <2>2 DEF Finish, Typed, BaseInv, TypeOK
    <3> QED
      BY <1>1, <1>2, <3>1 DEF Left, Sized
  <2>3. CASE Throw(w)
    <3>1. \/ job'[f] = job[f] /\ attempts'[f] = attempts[f]
          \/ job'[f] = "failed"
          \/ job[f] = "active" /\ job'[f] = "waiting" /\ attempts'[f] = attempts[f] + 1
      BY <1>1, <2>3 DEF Throw, Requeue, Typed, BaseInv, TypeOK, RetryInv
    <3> QED
      BY <1>1, <1>2, <3>1 DEF Left, Sized, Starts
  <2>4. CASE Crash(w)
    BY <1>2, <2>1, <2>4 DEF Crash, jobVars, Sized
  <2> QED
    BY <2>2, <2>3, <2>4 DEF Ends
<1>4. Open(f)' = Open(f) \ {w}
  BY <1>1 DEF Open
<1>5. Owed(f)' <= Owed(f) /\ (Holder(w, f) => Owed(f)' <= Owed(f) - 1)
  BY <1>3, <1>4, OwedFalls DEF Open, Holder, HoldsClaim
<1>6. \A v \in Slots : Holder(v, f)' <=> Holder(v, f) /\ v # w
  BY <1>1 DEF Holder, HoldsClaim
<1> QED
  BY <1>1, <1>2, <1>5, <1>6, BudgetKept

(* The queue evicts a job or finds it stalled, or nothing happens. *)
LEMMA BudgetQueue ==
  ASSUME Typed, Typed', BudgetInv,
         (\E e \in Events : Evict(e) \/ Stall(e)) \/ UNCHANGED vars
  PROVE  BudgetInv'
<1>1. UNCHANGED <<posts, queued, pc, ev, sent>>
  BY DEF Evict, Stall, vars, apiVars, slotVars
<1> SUFFICES ASSUME NEW f \in Events PROVE WithinBudget(f)'
  BY DEF BudgetInv
<1>2. WithinBudget(f) /\ Sized(f)
  BY TypedSized DEF BudgetInv, AllSized
<1>3. \/ job'[f] = job[f] /\ attempts'[f] = attempts[f] /\ stalls'[f] = stalls[f]
      \/ job'[f] \in {"none", "failed"}
      \/ job[f] = "active" /\ job'[f] = "waiting" /\ attempts'[f] = attempts[f] /\ stalls'[f] = stalls[f] + 1
  BY DEF Evict, Stall, Requeue, vars, jobVars, Typed, BaseInv, TypeOK
<1>4. Left(f)' <= Left(f)
  BY <1>2, <1>3 DEF Left, Sized, Starts
<1>5. Open(f)' = Open(f) /\ \A v \in Slots : Holder(v, f)' <=> Holder(v, f)
  BY <1>1 DEF Open, Holder, HoldsClaim
<1>6. Owed(f)' <= Owed(f)
  BY <1>4, <1>5, OwedFalls
<1> QED
  BY <1>1, <1>2, <1>5, <1>6, BudgetKept

LEMMA BudgetInvariance == Spec => [](Typed /\ BudgetInv)
<1>1. Init => BudgetInv
  <2> SUFFICES ASSUME Init, NEW e \in Events PROVE WithinBudget(e)
    BY DEF BudgetInv
  <2>1. Open(e) = {} /\ Left(e) = 0 /\ \A w \in Slots : ~Holder(w, e)
    BY DEF Init, Open, Left, Holder, HoldsClaim
  <2>2. Owed(e) = 0
    BY <2>1, FS_EmptySet DEF Owed
  <2> QED
    BY <2>1, <2>2 DEF Init, WithinBudget, Allowed, Starts
<1>2. Typed /\ Typed' /\ BudgetInv /\ [Next]_vars => BudgetInv'
  BY BudgetReceive, BudgetTake, BudgetEnqueue, BudgetTransaction, BudgetEnds, BudgetQueue
     DEF Next, SlotStep, Ends
<1>3. RunInv /\ RetryInv => Typed
  BY DEF RunInv, Typed
<1> QED
  BY <1>1, <1>2, <1>3, RetryInvariance, PTL DEF Spec

(* An automation never sends more for an event than one share for each attempt
   and stall of each of its deliveries. *)
THEOREM MessagesAreBounded == Spec => []QueuedMessagesAreBounded
<1>1. Typed /\ BudgetInv => QueuedMessagesAreBounded
  <2> SUFFICES ASSUME Typed, BudgetInv, NEW e \in Events PROVE queued[e] <= Allowed(e)
    BY DEF QueuedMessagesAreBounded, Allowed, Starts
  <2>1. WithinBudget(e) /\ Sized(e)
    BY TypedSized DEF BudgetInv, AllSized
  <2>2. /\ queued[e] \in Int /\ Allowed(e) \in Int /\ Sends * Owed(e) \in Nat
        /\ \A w \in Slots : sent[w] \in Nat
    BY <2>1 DEF Sized, Allowed, Starts, Typed, BaseInv, TypeOK
  <2>3. CASE \A w \in Slots : ~Holder(w, e)
    BY <2>1, <2>2, <2>3 DEF WithinBudget
  <2>4. ASSUME NEW w \in Slots, Holder(w, e) PROVE queued[e] <= Allowed(e)
    <3>1. sent[w] <= Sends /\ queued[e] + Sends * Owed(e) <= Allowed(e) + sent[w]
      BY <2>1, <2>4 DEF WithinBudget
    <3>2. w \in Open(e)
      BY <2>4 DEF Holder, HoldsClaim, Open
    <3>3. Cardinality(Open(e)) # 0
      BY <2>1, <3>2, FS_EmptySet DEF Sized
    <3>4. Owed(e) >= 1
      BY <2>1, <3>3 DEF Owed, Sized
    <3>5. Sends <= Sends * Owed(e)
      BY <2>1, <3>4, Shares DEF Sized
    <3> QED
      BY <2>2, <3>1, <3>5
  <2> QED
    BY <2>3, <2>4
<1> QED
  BY <1>1, BudgetInvariance, PTL

=============================================================================
