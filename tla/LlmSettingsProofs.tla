-------------------------- MODULE LlmSettingsProofs --------------------------
(***************************************************************************)
(* The Brain page and the settings row for any number of pages, tiers,      *)
(* models, catalogs, saves and releases.                                    *)
(***************************************************************************)
EXTENDS LlmSettings, TLAPS

USE SettingsAssumption

LEMMA NoChoiceType == NoChoice \in Settings /\ NoPut \in Puts
BY DEF NoChoice, NoPut, Settings, Puts

LEMMA AnswerType ==
  ASSUME row \in Settings \cup {Garbage}, NEW models
  PROVE  GetLlmSettings(models) \in Settings
BY NoChoiceType DEF GetLlmSettings, Valid

LEMMA WithChoiceType ==
  ASSUME NEW llm \in Settings, NEW t \in Tiers, NEW r \in Routes \cup {Unset}
  PROVE  /\ WithChoice(llm, t, r) \in Settings
         /\ \A u \in Tiers : u # t => WithChoice(llm, t, r)[u] = llm[u]
BY DEF WithChoice, Settings

(* A PUT only moves on: what it carries stays, and so do the others. *)
LEMMA PutMoves ==
  ASSUME TypeOK, NEW n \in 1 .. MaxSaves, NEW s \in {"stored", "refused"},
         put' = [put EXCEPT ![n].state = s]
  PROVE  /\ put' \in [1 .. MaxSaves -> Puts] /\ put'[n].state = s
         /\ \A k \in 1 .. MaxSaves : /\ put'[k].body = put[k].body
                                    /\ put'[k].seen = put[k].seen
                                    /\ put'[k].chosen = put[k].chosen
         /\ \A k \in 1 .. MaxSaves : k # n => put'[k] = put[k]
<1>1. put \in [1 .. MaxSaves -> Puts]
  BY DEF TypeOK
<1>2. put' = [k \in 1 .. MaxSaves |-> IF k = n THEN [put[n] EXCEPT !.state = s] ELSE put[k]]
  BY <1>1
<1>3. /\ [put[n] EXCEPT !.state = s] \in Puts
      /\ [put[n] EXCEPT !.state = s].state = s
      /\ [put[n] EXCEPT !.state = s].body = put[n].body
      /\ [put[n] EXCEPT !.state = s].seen = put[n].seen
      /\ [put[n] EXCEPT !.state = s].chosen = put[n].chosen
  <2>1. put[n] \in Puts
    BY <1>1
  <2> QED
    BY <2>1 DEF Puts
<1> QED
  BY <1>1, <1>2, <1>3

(* The API handles a PUT: it moves on, and the row is what it carries or stays. *)
LEMMA HandlePutEffect ==
  ASSUME TypeOK, NEW n \in 1 .. MaxSaves, HandlePut(n)
  PROVE  /\ put[n].state = "sent" /\ put' \in [1 .. MaxSaves -> Puts]
         /\ \A k \in 1 .. MaxSaves : /\ put'[k].body = put[k].body
                                    /\ put'[k].seen = put[k].seen
                                    /\ put'[k].chosen = put[k].chosen
         /\ \A k \in 1 .. MaxSaves : k # n => put'[k] = put[k]
         /\ \/ put'[n].state = "stored" /\ row' = put[n].body /\ writer' = n
            \/ put'[n].state = "refused" /\ UNCHANGED <<row, writer>>
         /\ UNCHANGED <<apiCatalog, workerVars, pageVars, seen, chosen, boundVars>>
<1>1. CASE Valid(put[n].body, apiCatalog)
  <2>1. put' = [put EXCEPT ![n].state = "stored"] /\ row' = put[n].body /\ writer' = n
    BY <1>1 DEF HandlePut, PutLlmSettings
  <2> QED
    BY <2>1, PutMoves DEF HandlePut
<1>2. CASE ~Valid(put[n].body, apiCatalog)
  <2>1. put' = [put EXCEPT ![n].state = "refused"] /\ UNCHANGED <<row, writer>>
    BY <1>2 DEF HandlePut
  <2> QED
    BY <2>1, PutMoves DEF HandlePut
<1> QED
  BY <1>1, <1>2

(* A click on Save sends the page's copy as the next PUT. *)
LEMMA SaveEffect ==
  ASSUME TypeOK, NEW p \in Pages, Save(p)
  PROVE  /\ saves + 1 \in 1 .. MaxSaves /\ put' \in [1 .. MaxSaves -> Puts]
         /\ put'[saves + 1] = [state |-> "sent", body |-> settings[p],
                               seen |-> seen[p], chosen |-> chosen[p]]
         /\ \A k \in 1 .. MaxSaves : k # saves + 1 => put'[k] = put[k]
<1>1. saves + 1 \in 1 .. MaxSaves
  BY DEF Save, TypeOK
<1>2. [state |-> "sent", body |-> settings[p], seen |-> seen[p], chosen |-> chosen[p]] \in Puts
  BY DEF Puts, TypeOK
<1> QED
  BY <1>1, <1>2 DEF Save, TypeOK

-----------------------------------------------------------------------------
(* Types. *)

LEMMA PageStepType ==
  ASSUME TypeOK, NEW p \in Pages, PageStep(p)
  PROVE  TypeOK'
<1> USE DEF TypeOK
<1>1. CASE Open(p)
  BY <1>1 DEF Open, workerVars, histVars, boundVars
<1>2. CASE AnswerLoad(p)
  <2>1. answer' \in [Pages -> Settings]
    BY <1>2, AnswerType DEF AnswerLoad
  <2>2. catalog' \in [Pages -> SUBSET (Routes \X Tiers)]
    BY <1>2 DEF AnswerLoad
  <2> QED
    BY <1>2, <2>1, <2>2 DEF AnswerLoad, workerVars, histVars, boundVars
<1>3. CASE ReceiveLoad(p)
  <2>1. seen' \in [Pages -> Settings \cup {NotLoaded}] /\ settings' \in [Pages -> Settings]
    BY <1>3 DEF ReceiveLoad
  <2>2. answer' \in [Pages -> Settings]
    BY <1>3, NoChoiceType DEF ReceiveLoad
  <2> QED
    BY <1>3, <2>1, <2>2 DEF ReceiveLoad, workerVars, boundVars
<1>4. CASE FailLoad(p)
  <2>1. answer' \in [Pages -> Settings]
    BY <1>4, NoChoiceType DEF FailLoad
  <2> QED
    BY <1>4, <2>1 DEF FailLoad, workerVars, histVars, boundVars
<1>5. ASSUME NEW t \in Tiers, NEW r \in Routes \cup {Unset}, Choose(p, t, r)
      PROVE  TypeOK'
  <2>1. settings' \in [Pages -> Settings]
    BY <1>5, WithChoiceType DEF Choose
  <2>2. chosen' \in [Pages -> SUBSET Tiers]
    BY <1>5 DEF Choose
  <2> QED
    BY <1>5, <2>1, <2>2 DEF Choose, workerVars
<1>6. CASE Save(p)
  <2>1. put' \in [1 .. MaxSaves -> Puts] /\ saves' \in 0 .. MaxSaves
    <3>1. saves + 1 \in 1 .. MaxSaves /\ put' \in [1 .. MaxSaves -> Puts]
      BY ONLY <1>6, TypeOK, p \in Pages, SaveEffect, Zenon
    <3> QED
      BY <1>6, <3>1 DEF Save
  <2>2. /\ latest' \in [Pages -> 0 .. MaxSaves] /\ saving' \in [Pages -> BOOLEAN]
        /\ status' \in [Pages -> {"loading", "clear", "saving", "saved", "error"}]
    BY <1>6 DEF Save
  <2> QED
    BY <1>6, <2>1, <2>2 DEF Save, workerVars, histVars
<1>7. CASE ReceiveSaved(p)
  <2>1. /\ timers' \in [Pages -> Nat] /\ saving' \in [Pages -> BOOLEAN]
        /\ status' \in [Pages -> {"loading", "clear", "saving", "saved", "error"}]
    BY <1>7 DEF ReceiveSaved
  <2> QED
    BY <1>7, <2>1 DEF ReceiveSaved, workerVars, histVars, boundVars
<1>8. CASE FailSave(p)
  BY <1>8 DEF FailSave, workerVars, histVars, boundVars
<1>9. CASE ClearStatus(p)
  BY <1>9 DEF ClearStatus, workerVars, histVars, boundVars
<1> QED
  BY <1>1, <1>2, <1>3, <1>4, <1>5, <1>6, <1>7, <1>8, <1>9 DEF PageStep

LEMMA HandlePutType ==
  ASSUME TypeOK, NEW n \in 1 .. MaxSaves, HandlePut(n)
  PROVE  TypeOK'
<1>1. put[n].body \in Settings
  BY DEF TypeOK, Puts
<1>2. row' \in Settings \cup {Garbage} /\ writer' \in 0 .. MaxSaves
  <2>1. (row' = put[n].body /\ writer' = n) \/ UNCHANGED <<row, writer>>
    BY HandlePutEffect
  <2> QED
    BY <1>1, <2>1 DEF TypeOK
<1>3. /\ put' \in [1 .. MaxSaves -> Puts]
      /\ UNCHANGED <<apiCatalog, workerVars, pageVars, seen, chosen, boundVars>>
  BY HandlePutEffect
<1> QED
  BY <1>2, <1>3 DEF TypeOK, workerVars, pageVars, boundVars

LEMMA DeployType ==
  ASSUME TypeOK, NEW c \in Catalogs, Deploy(c)
  PROVE  TypeOK'
BY DEF TypeOK, Deploy, workerVars, pageVars, histVars

LEMMA TypeStep ==
  ASSUME TypeOK, [Next]_vars
  PROVE  TypeOK'
<1>1. CASE UNCHANGED vars
  BY <1>1 DEF TypeOK, vars, workerVars, pageVars, histVars, boundVars
<1> QED
  BY <1>1, PageStepType, HandlePutType, DeployType DEF Next

LEMMA TypeInit == Init => TypeOK
BY NoChoiceType DEF Init, TypeOK

(* Every reachable state is well typed. *)
THEOREM TypeCorrect == Spec => []TypeOK
BY TypeInit, TypeStep, PTL DEF Spec

-----------------------------------------------------------------------------
(* PUTs are numbered by their clicks; the row holds what the PUT that wrote it
   last carries, and a page that says "saved" has its last one stored. *)

NumberInv ==
  /\ writer <= saves
  /\ \A p \in Pages : latest[p] <= saves /\ (saving[p] => latest[p] # 0)

SavedInv ==
  /\ writer # 0 => row = put[writer].body
  /\ \A p \in Pages :
       status[p] = "saved" => latest[p] # 0 /\ put[latest[p]].state = "stored"

LEMMA SavedPageStep ==
  ASSUME TypeOK, NumberInv, SavedInv, NEW p \in Pages, PageStep(p)
  PROVE  NumberInv' /\ SavedInv'
<1> USE DEF NumberInv, SavedInv, TypeOK
<1>1. CASE Open(p) \/ AnswerLoad(p)
  BY <1>1 DEF Open, AnswerLoad, histVars, boundVars
<1>2. CASE ReceiveLoad(p) \/ FailLoad(p)
  BY <1>2 DEF ReceiveLoad, FailLoad, histVars, boundVars
<1>3. ASSUME NEW t \in Tiers, NEW r \in Routes \cup {Unset}, Choose(p, t, r)
      PROVE  NumberInv' /\ SavedInv'
  BY <1>3 DEF Choose
<1>4. CASE Save(p)
  <2>1. NumberInv'
    <3>1. saves' = saves + 1 /\ writer' = writer /\ writer <= saves'
      BY <1>4 DEF Save, histVars
    <3>2. latest'[p] = saves'
      BY <1>4 DEF Save
    <3>3. \A q \in Pages \ {p} : latest'[q] = latest[q] /\ saving'[q] = saving[q]
      BY <1>4 DEF Save
    <3>4. \A q \in Pages : latest'[q] <= saves' /\ (saving'[q] => latest'[q] # 0)
      BY <3>1, <3>2, <3>3
    <3> QED
      BY <3>1, <3>4
  <2>2. \A k \in 1 .. MaxSaves : k <= saves => put'[k] = put[k]
    <3>1. \A k \in 1 .. MaxSaves : k # saves + 1 => put'[k] = put[k]
      BY ONLY <1>4, TypeOK, p \in Pages, SaveEffect, Zenon
    <3> QED
      BY <3>1
  <2>3. UNCHANGED <<row, writer>> /\ status'[p] # "saved"
    BY <1>4 DEF Save, histVars
  <2>4. \A q \in Pages \ {p} : status'[q] = status[q] /\ latest'[q] = latest[q]
    BY <1>4 DEF Save
  <2>5. writer # 0 => put'[writer] = put[writer]
    BY <2>2
  <2>6. \A q \in Pages \ {p} : latest[q] # 0 => put'[latest[q]] = put[latest[q]]
    BY <2>2
  <2>7. writer' # 0 => row' = put'[writer'].body
    BY <2>3, <2>5
  <2>8. ASSUME NEW q \in Pages, status'[q] = "saved"
        PROVE  latest'[q] # 0 /\ put'[latest'[q]].state = "stored"
    <3>1. q # p /\ status[q] = "saved" /\ latest'[q] = latest[q]
      BY <2>3, <2>4, <2>8
    <3>2. latest[q] # 0 /\ put[latest[q]].state = "stored"
      BY <3>1
    <3> QED
      BY <2>6, <3>1, <3>2
  <2> QED
    BY <2>1, <2>7, <2>8
<1>5. CASE ReceiveSaved(p)
  <2>1. saving[p] /\ put[latest[p]].state = "stored" /\ latest[p] # 0
    BY <1>5 DEF ReceiveSaved
  <2>2. \A q \in Pages \ {p} : status'[q] = status[q] /\ saving'[q] = saving[q]
    BY <1>5 DEF ReceiveSaved
  <2>3. ~saving'[p] /\ UNCHANGED <<row, latest, put, writer, saves>>
    BY <1>5 DEF ReceiveSaved, histVars, boundVars
  <2>4. NumberInv'
    BY <2>2, <2>3
  <2>5. SavedInv'
    BY <2>1, <2>2, <2>3
  <2> QED
    BY <2>4, <2>5
<1>6. CASE FailSave(p)
  <2>1. \A q \in Pages : (saving'[q] => saving[q]) /\ (status'[q] = "saved" => status[q] = "saved")
    BY <1>6 DEF FailSave
  <2>2. UNCHANGED <<row, latest, put, writer, saves>>
    BY <1>6 DEF FailSave, histVars, boundVars
  <2> QED
    BY <2>1, <2>2
<1>7. CASE ClearStatus(p)
  <2>1. \A q \in Pages : status'[q] = "saved" => status[q] = "saved"
    BY <1>7 DEF ClearStatus
  <2>2. UNCHANGED <<row, saving, latest, put, writer, saves>>
    BY <1>7 DEF ClearStatus, histVars, boundVars
  <2> QED
    BY <2>1, <2>2
<1> QED
  BY <1>1, <1>2, <1>3, <1>4, <1>5, <1>6, <1>7 DEF PageStep

LEMMA SavedHandlePut ==
  ASSUME TypeOK, NumberInv, SavedInv, NEW n \in 1 .. MaxSaves, HandlePut(n), n <= saves
  PROVE  NumberInv' /\ SavedInv'
<1>1. /\ put[n].state = "sent" /\ \A k \in 1 .. MaxSaves : put'[k].body = put[k].body
      /\ \A k \in 1 .. MaxSaves : k # n => put'[k] = put[k]
      /\ \/ row' = put[n].body /\ writer' = n
         \/ UNCHANGED <<row, writer>>
      /\ UNCHANGED <<status, saving, latest, saves>>
  BY HandlePutEffect DEF pageVars, boundVars
<1>2. NumberInv'
  BY <1>1 DEF NumberInv
<1>3. writer' # 0 => row' = put'[writer'].body
  BY <1>1 DEF SavedInv, TypeOK
<1>4. ASSUME NEW q \in Pages, status'[q] = "saved"
      PROVE  latest'[q] # 0 /\ put'[latest'[q]].state = "stored"
  <2>1. latest[q] \in 1 .. MaxSaves /\ put[latest[q]].state = "stored"
    BY <1>1, <1>4 DEF SavedInv, TypeOK
  <2> QED
    BY <1>1, <2>1
<1> QED
  BY <1>2, <1>3, <1>4 DEF SavedInv

(* A number that no click has used yet carries nothing. *)
FreshInv == \A n \in 1 .. MaxSaves : put[n].state # "none" => n <= saves

LEMMA FreshStep ==
  ASSUME TypeOK, FreshInv, [Next]_vars
  PROVE  FreshInv'
<1> USE DEF FreshInv
<1>1. ASSUME NEW p \in Pages, Save(p) PROVE FreshInv'
  BY <1>1, SaveEffect DEF Save, TypeOK
<1>2. ASSUME NEW n \in 1 .. MaxSaves, HandlePut(n) PROVE FreshInv'
  <2>1. put[n].state = "sent" /\ UNCHANGED saves
    BY <1>2, HandlePutEffect DEF boundVars
  <2>2. \A k \in 1 .. MaxSaves : k # n => put'[k] = put[k]
    BY <1>2, HandlePutEffect
  <2> QED
    BY <2>1, <2>2
<1>3. ASSUME NEW p \in Pages, PageStep(p), ~Save(p) PROVE FreshInv'
  <2>1. UNCHANGED <<put, saves>>
    BY <1>3 DEF PageStep, Open, AnswerLoad, ReceiveLoad, FailLoad, Choose, ReceiveSaved,
                FailSave, ClearStatus, boundVars
  <2> QED
    BY <2>1
<1>4. ASSUME NEW c \in Catalogs, Deploy(c) PROVE FreshInv'
  BY <1>4 DEF Deploy
<1>5. CASE UNCHANGED vars
  BY <1>5 DEF vars, boundVars
<1> QED
  BY <1>1, <1>2, <1>3, <1>4, <1>5 DEF Next

LEMMA SavedInvariance == Spec => [](TypeOK /\ NumberInv /\ SavedInv /\ FreshInv)
<1>1. Init => NumberInv /\ SavedInv /\ FreshInv
  BY DEF Init, NumberInv, SavedInv, FreshInv, NoPut
<1>2. TypeOK /\ NumberInv /\ SavedInv /\ FreshInv /\ [Next]_vars => NumberInv' /\ SavedInv'
  <2>1. ASSUME NumberInv, SavedInv, NEW c \in Catalogs, Deploy(c) PROVE NumberInv' /\ SavedInv'
    BY <2>1 DEF NumberInv, SavedInv, Deploy, pageVars, histVars
  <2>2. ASSUME NumberInv, SavedInv, UNCHANGED vars PROVE NumberInv' /\ SavedInv'
    BY <2>2 DEF NumberInv, SavedInv, vars, pageVars, histVars, boundVars
  <2>3. ASSUME TypeOK, NumberInv, SavedInv, FreshInv, NEW n \in 1 .. MaxSaves, HandlePut(n)
        PROVE  NumberInv' /\ SavedInv'
    <3>1. n <= saves
      BY <2>3 DEF FreshInv, HandlePut
    <3> QED
      BY <2>3, <3>1, SavedHandlePut
  <2> QED
    BY <2>1, <2>2, <2>3, SavedPageStep DEF Next
<1> QED
  BY <1>1, <1>2, TypeInit, TypeStep, FreshStep, PTL DEF Spec

(* A page that says "saved" has its last PUT stored; until another PUT is
   handled, the next message is routed by what that one carries, or by the
   defaults when the worker's catalog lacks one of its choices. *)
THEOREM SavedSettingsAreUsed == Spec => []SavedIsUsed
<1>1. TypeOK /\ SavedInv => SavedIsUsed
  <2> SUFFICES ASSUME TypeOK, SavedInv, NEW p \in Pages, status[p] = "saved"
               PROVE  /\ put[latest[p]].state = "stored"
                      /\ writer = latest[p] =>
                           \A t \in Tiers :
                             ResolveRouterConfig(row, workerCatalog)[t] =
                               IF Valid(put[latest[p]].body, workerCatalog) /\ put[latest[p]].body[t] # Unset
                                 THEN put[latest[p]].body[t] ELSE Default[t]
    BY DEF SavedIsUsed
  <2>1. put[latest[p]].state = "stored"
    BY DEF SavedInv
  <2>2. ASSUME writer = latest[p], NEW t \in Tiers
        PROVE  ResolveRouterConfig(row, workerCatalog)[t] =
                 IF Valid(put[latest[p]].body, workerCatalog) /\ put[latest[p]].body[t] # Unset
                   THEN put[latest[p]].body[t] ELSE Default[t]
    <3>1. row = put[latest[p]].body
      BY <2>2 DEF SavedInv
    <3> QED
      BY <3>1 DEF ResolveRouterConfig
  <2> QED
    BY <2>1, <2>2
<1> QED
  BY <1>1, SavedInvariance, PTL

(* Whatever the row, the catalogs and the worker's keys, a tenant's bot fares
   otherwise than that of a tenant without settings only by a choice the
   worker's own catalog offers. *)
THEOREM BotStaysUp == Spec => []BadRowKeepsBotUp
<1>1. TypeOK => BadRowKeepsBotUp
  <2> SUFFICES ASSUME RunFails # DefaultFails
               PROVE  Valid(row, workerCatalog) /\ row["conversation"] = RunRoute
    BY DEF BadRowKeepsBotUp
  <2>1. RunRoute # Default["conversation"]
    BY DEF RunFails, DefaultFails
  <2>2. Valid(row, workerCatalog)
    BY <2>1 DEF RunRoute, ResolveRouterConfig
  <2>3. RunRoute = IF row["conversation"] = Unset THEN Default["conversation"] ELSE row["conversation"]
    BY <2>2 DEF RunRoute, ResolveRouterConfig
  <2> QED
    BY <2>1, <2>2, <2>3
<1> QED
  BY <1>1, TypeCorrect, PTL

-----------------------------------------------------------------------------
(* What a page shows, and what a PUT carries, is what the page was given but
   for the tiers its user chose. *)

KeepsUnchosen(llm, given, touched) ==
  given # NotLoaded => \A t \in Tiers \ touched : llm[t] = given[t]

CopyInv ==
  /\ \A p \in Pages : KeepsUnchosen(settings[p], seen[p], chosen[p])
  /\ \A n \in 1 .. MaxSaves : KeepsUnchosen(put[n].body, put[n].seen, put[n].chosen)

LEMMA CopyPageStep ==
  ASSUME TypeOK, CopyInv, NEW p \in Pages, PageStep(p)
  PROVE  CopyInv'
<1> USE DEF CopyInv, TypeOK
<1>1. CASE Open(p) \/ AnswerLoad(p)
  BY <1>1 DEF Open, AnswerLoad, histVars
<1>2. CASE FailLoad(p) \/ ClearStatus(p) \/ ReceiveSaved(p) \/ FailSave(p)
  BY <1>2 DEF FailLoad, ClearStatus, ReceiveSaved, FailSave, histVars
<1>3. CASE ReceiveLoad(p)
  <2>1. KeepsUnchosen(settings'[p], seen'[p], chosen'[p])
    BY <1>3 DEF ReceiveLoad, KeepsUnchosen
  <2>2. \A q \in Pages \ {p} : settings'[q] = settings[q] /\ seen'[q] = seen[q]
    BY <1>3 DEF ReceiveLoad
  <2> QED
    BY <1>3, <2>1, <2>2 DEF ReceiveLoad
<1>4. ASSUME NEW t \in Tiers, NEW r \in Routes \cup {Unset}, Choose(p, t, r)
      PROVE  CopyInv'
  <2>1. \A u \in Tiers : u # t => settings'[p][u] = settings[p][u]
    <3>1. settings[p] \in Settings
      OBVIOUS
    <3>2. settings'[p] = WithChoice(settings[p], t, r)
      BY <1>4 DEF Choose
    <3>3. \A u \in Tiers : u # t => WithChoice(settings[p], t, r)[u] = settings[p][u]
      BY ONLY <3>1, t \in Tiers, r \in Routes \cup {Unset}, WithChoiceType, Zenon
    <3> QED
      BY <3>2, <3>3
  <2>2. chosen'[p] = chosen[p] \cup {t} /\ UNCHANGED <<seen, put>>
    BY <1>4 DEF Choose
  <2>3. KeepsUnchosen(settings'[p], seen'[p], chosen'[p])
    BY <2>1, <2>2 DEF KeepsUnchosen
  <2>4. \A q \in Pages \ {p} : settings'[q] = settings[q] /\ chosen'[q] = chosen[q]
    BY <1>4 DEF Choose
  <2> QED
    BY <2>2, <2>3, <2>4
<1>5. CASE Save(p)
  <2>1. /\ saves + 1 \in 1 .. MaxSaves
        /\ put'[saves + 1] = [state |-> "sent", body |-> settings[p],
                              seen |-> seen[p], chosen |-> chosen[p]]
        /\ \A k \in 1 .. MaxSaves : k # saves + 1 => put'[k] = put[k]
    BY ONLY <1>5, TypeOK, p \in Pages, SaveEffect, Zenon
  <2>2. KeepsUnchosen(put'[saves + 1].body, put'[saves + 1].seen, put'[saves + 1].chosen)
    BY <2>1
  <2>3. \A k \in 1 .. MaxSaves : k # saves + 1 => put'[k] = put[k]
    BY <2>1
  <2>4. UNCHANGED <<settings, seen, chosen>>
    BY <1>5 DEF Save, histVars
  <2> QED
    BY <2>1, <2>2, <2>3, <2>4
<1> QED
  BY <1>1, <1>2, <1>3, <1>4, <1>5 DEF PageStep

LEMMA CopyInvariance == Spec => [](TypeOK /\ CopyInv)
<1>1. Init => CopyInv
  BY DEF Init, CopyInv, KeepsUnchosen, NoPut
<1>2. TypeOK /\ CopyInv /\ [Next]_vars => CopyInv'
  <2>1. ASSUME CopyInv, NEW c \in Catalogs, Deploy(c) PROVE CopyInv'
    BY <2>1 DEF CopyInv, Deploy, pageVars, histVars
  <2>2. ASSUME CopyInv, UNCHANGED vars PROVE CopyInv'
    BY <2>2 DEF CopyInv, vars, pageVars, histVars
  <2>3. ASSUME TypeOK, CopyInv, NEW n \in 1 .. MaxSaves, HandlePut(n) PROVE CopyInv'
    <3>1. /\ \A k \in 1 .. MaxSaves : /\ put'[k].body = put[k].body
                                     /\ put'[k].seen = put[k].seen
                                     /\ put'[k].chosen = put[k].chosen
          /\ UNCHANGED <<settings, seen, chosen>>
      BY <2>3, HandlePutEffect DEF pageVars
    <3> QED
      BY <2>3, <3>1 DEF CopyInv
  <2> QED
    BY <2>1, <2>2, <2>3, CopyPageStep DEF Next
<1> QED
  BY <1>1, <1>2, TypeInit, TypeStep, PTL DEF Spec

(* Only the API's handling of a PUT stores it. *)
LEMMA OnlyHandlePutStores ==
  ASSUME TypeOK, [Next]_vars, NEW n \in 1 .. MaxSaves,
         put[n].state = "sent", put'[n].state = "stored"
  PROVE  HandlePut(n)
<1>1. ASSUME NEW p \in Pages, PageStep(p) PROVE FALSE
  <2>1. CASE Save(p)
    <3>1. /\ put'[saves + 1] = [state |-> "sent", body |-> settings[p],
                               seen |-> seen[p], chosen |-> chosen[p]]
          /\ \A k \in 1 .. MaxSaves : k # saves + 1 => put'[k] = put[k]
      BY <2>1, SaveEffect
    <3> QED
      BY <3>1
  <2>2. CASE ~Save(p)
    <3>1. UNCHANGED put
      BY <1>1, <2>2 DEF PageStep, Open, AnswerLoad, ReceiveLoad, FailLoad, Choose, ReceiveSaved,
                        FailSave, ClearStatus
    <3> QED
      BY <3>1
  <2> QED
    BY <2>1, <2>2
<1>2. ASSUME NEW k \in 1 .. MaxSaves, HandlePut(k) PROVE k = n
  BY <1>2, HandlePutEffect
<1>3. ~ \E c \in Catalogs : Deploy(c)
  BY DEF Deploy
<1>4. ~ UNCHANGED vars
  BY DEF vars
<1> QED
  BY <1>1, <1>2, <1>3, <1>4 DEF Next

(* A PUT, late or not, never changes a tier its page had been shown as it is
   and its user left alone. *)
THEOREM UntouchedTiersAreKept == Spec => UntouchedTierIsKept
<1> DEFINE Kept == \A n \in 1 .. MaxSaves, t \in Tiers :
                      /\ put[n].state = "sent" /\ put'[n].state = "stored"
                      /\ row # Garbage /\ put[n].seen # NotLoaded
                      /\ put[n].seen[t] = row[t] /\ t \notin put[n].chosen
                      => row'[t] = row[t]
<1>1. TypeOK /\ CopyInv /\ [Next]_vars => Kept
  <2> SUFFICES ASSUME TypeOK, CopyInv, [Next]_vars, NEW n \in 1 .. MaxSaves, NEW t \in Tiers,
                      put[n].state = "sent", put'[n].state = "stored",
                      put[n].seen # NotLoaded, put[n].seen[t] = row[t], t \notin put[n].chosen
               PROVE  row'[t] = row[t]
    OBVIOUS
  <2>1. row' = put[n].body
    BY OnlyHandlePutStores, HandlePutEffect
  <2>2. put[n].body[t] = put[n].seen[t]
    BY DEF CopyInv, KeepsUnchosen
  <2> QED
    BY <2>1, <2>2
<1> QED
  BY <1>1, CopyInvariance, PTL DEF Spec, UntouchedTierIsKept
=============================================================================
