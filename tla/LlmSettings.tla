---------------------------- MODULE LlmSettings ----------------------------
(***************************************************************************)
(* The choice of language models: the dashboard's Brain page (apps/         *)
(* dashboard/app/(dashboard)/brain/page.tsx) loads tenants.settings.llm     *)
(* through the admin API, edits a copy and puts the whole copy back; the    *)
(* worker resolves the row for each message (packages/ai/src/models.ts,     *)
(* router.ts).  Several pages are open, requests fail or take their time    *)
(* and outlive the page's patience, and the catalogs and the worker's API   *)
(* keys change with each deployment.                                        *)
(***************************************************************************)
EXTENDS Integers, FiniteSets

CONSTANTS
  Pages,         \* visits of the Brain page
  Tiers,         \* ModelTier: "conversation", "routing"
  Routes,        \* provider and model pairs
  ProviderOf,    \* [Routes -> provider names]
  Default,       \* [Tiers -> Routes]: DEFAULT_ROUTES
  Deployments,   \* sets of providers a worker may have API keys for
  Catalogs,      \* successive MODEL_CATALOGs, each a set of <<route, tier>>
  FirstCatalog,  \* the one deployed at first
  MaxSaves,      \* bound: clicks on Save
  MaxDeploys,    \* bound: releases of the API or the worker
  MaxChoices,    \* bound: clicks on a model
  Unset,         \* a tier without a choice
  Garbage,       \* a row that is no settings object
  NotLoaded      \* history: a page that got no answer

Settings == [Tiers -> Routes \cup {Unset}]
NoChoice == [t \in Tiers |-> Unset]

ASSUME SettingsAssumption ==
  /\ "conversation" \in Tiers /\ Default \in [Tiers -> Routes]
  /\ DOMAIN ProviderOf = Routes
  /\ Catalogs \subseteq SUBSET (Routes \X Tiers) /\ FirstCatalog \in Catalogs
  /\ MaxSaves \in Nat /\ MaxDeploys \in Nat /\ MaxChoices \in Nat
  /\ Unset \notin Routes /\ Garbage \notin Settings /\ NotLoaded \notin Settings

VARIABLES
  row,           \* tenants.settings.llm
  apiCatalog, workerCatalog,  \* the catalogs of the two processes
  registered,    \* the providers the worker has API keys for
  load, answer,  \* each page's GET: its progress and the answer under way
  catalog, settings, status,  \* each page's state
  timers,        \* each page's pending setTimeout(() => setStatus(""))
  saving, latest,  \* each page: is Save disabled; the PUT of its last click
  put,           \* the PUTs by number, on their way through browser, proxy and
                 \* API: progress and body; history: what the page had seen and
                 \* its user had chosen at the click
  seen,          \* history: the settings a page was given
  chosen,        \* history: tiers its user has chosen
  writer,        \* history: the PUT that wrote the row last, 0 for none
  saves, deploys, choices

workerVars == <<workerCatalog, registered>>
pageVars == <<load, answer, catalog, settings, status, timers, saving, latest>>
histVars == <<seen, chosen, writer>>
boundVars == <<saves, deploys, choices>>
vars == <<row, apiCatalog, workerVars, pageVars, put, histVars, boundVars>>

NoPut == [state |-> "none", body |-> NoChoice, seen |-> NotLoaded, chosen |-> {}]

(* The row is untrusted JSON: it may stem from an older catalog or from hand. *)
Init ==
  /\ row \in Settings \cup {Garbage}
  /\ apiCatalog = FirstCatalog /\ workerCatalog = FirstCatalog
  /\ registered \in Deployments
  /\ load = [p \in Pages |-> "closed"]
  /\ answer = [p \in Pages |-> NoChoice]
  /\ catalog = [p \in Pages |-> {}]
  /\ settings = [p \in Pages |-> NoChoice]
  /\ status = [p \in Pages |-> "loading"]
  /\ timers = [p \in Pages |-> 0]
  /\ saving = [p \in Pages |-> FALSE] /\ latest = [p \in Pages |-> 0]
  /\ put = [n \in 1 .. MaxSaves |-> NoPut]
  /\ seen = [p \in Pages |-> NotLoaded]
  /\ chosen = [p \in Pages |-> {}]
  /\ writer = 0
  /\ saves = 0 /\ deploys = 0 /\ choices = 0

-----------------------------------------------------------------------------
(* packages/ai/src/models.ts. *)

(* llmSettingsSchema: a tier is optional, a choice is in the catalog for it. *)
Valid(llm, models) ==
  llm # Garbage /\ \A t \in Tiers : llm[t] = Unset \/ <<llm[t], t>> \in models

(* Variants no action uses, here and below, are the bugs the mutants put in. *)
ResolveRouterConfigTrusting(llm, models) ==
  [t \in Tiers |-> IF llm = Garbage \/ llm[t] = Unset THEN Default[t] ELSE llm[t]]

ResolveRouterConfig(llm, models) ==
  IF Valid(llm, models) THEN [t \in Tiers |-> IF llm[t] = Unset THEN Default[t] ELSE llm[t]]
                        ELSE Default

-----------------------------------------------------------------------------
(* The page opens and asks for the settings; the API answers with what is
   valid and with its catalog; the answer arrives, or anything on the way
   fails and the page keeps its empty settings. *)

GetLlmSettingsRaw(models) == row

GetLlmSettings(models) == IF Valid(row, models) THEN row ELSE NoChoice

Open(p) ==
  /\ load[p] = "closed"
  /\ load' = [load EXCEPT ![p] = "asked"]
  /\ UNCHANGED <<row, apiCatalog, workerVars, answer, catalog, settings, status, timers, saving, latest, put, histVars,
                 boundVars>>

AnswerLoad(p) ==
  /\ load[p] = "asked"
  /\ load' = [load EXCEPT ![p] = "answered"]
  /\ answer' = [answer EXCEPT ![p] = GetLlmSettings(apiCatalog)]
  /\ catalog' = [catalog EXCEPT ![p] = apiCatalog]
  /\ UNCHANGED <<row, apiCatalog, workerVars, settings, status, timers, saving, latest, put, histVars, boundVars>>

ReceiveLoad(p) ==
  /\ load[p] = "answered"
  /\ load' = [load EXCEPT ![p] = "shown"]
  /\ settings' = [settings EXCEPT ![p] = answer[p]]
  /\ status' = [status EXCEPT ![p] = "clear"]
  /\ answer' = [answer EXCEPT ![p] = NoChoice]
  /\ seen' = [seen EXCEPT ![p] = answer[p]]
  /\ UNCHANGED <<row, apiCatalog, workerVars, catalog, timers, saving, latest, put, chosen, writer, boundVars>>

FailLoad(p) ==
  /\ load[p] \in {"asked", "answered"}
  /\ load' = [load EXCEPT ![p] = "failed"]
  /\ status' = [status EXCEPT ![p] = "error"]
  /\ answer' = [answer EXCEPT ![p] = NoChoice]
  /\ catalog' = [catalog EXCEPT ![p] = {}]
  /\ UNCHANGED <<row, apiCatalog, workerVars, settings, timers, saving, latest, put, histVars, boundVars>>

(* A radio button of a tier: the default, or a model of the catalog the page
   was given.  A button that is already checked does nothing. *)
WithChoiceAlone(llm, t, r) == [NoChoice EXCEPT ![t] = r]

WithChoice(llm, t, r) == [llm EXCEPT ![t] = r]

Choose(p, t, r) ==
  /\ load[p] # "closed" /\ settings[p][t] # r /\ choices < MaxChoices
  /\ r # Unset => load[p] = "shown" /\ <<r, t>> \in catalog[p]
  /\ settings' = [settings EXCEPT ![p] = WithChoice(@, t, r)]
  /\ chosen' = [chosen EXCEPT ![p] = @ \cup {t}]
  /\ choices' = choices + 1
  /\ UNCHANGED <<row, apiCatalog, workerVars, load, answer, catalog, status, timers, saving, latest, put, seen,
                 writer, saves, deploys>>

-----------------------------------------------------------------------------
(* Save is there from the start, whatever became of the load; it is disabled
   until the page's fetch has ended. *)

Save(p) ==
  /\ load[p] # "closed" /\ ~saving[p] /\ saves < MaxSaves
  /\ put' = [put EXCEPT ![saves + 1] = [state |-> "sent", body |-> settings[p],
                                        seen |-> seen[p], chosen |-> chosen[p]]]
  /\ saving' = [saving EXCEPT ![p] = TRUE]
  /\ latest' = [latest EXCEPT ![p] = saves + 1]
  /\ status' = [status EXCEPT ![p] = "saving"]
  /\ saves' = saves + 1
  /\ UNCHANGED <<row, apiCatalog, workerVars, load, answer, catalog, settings, timers, histVars,
                 deploys, choices>>

(* PUT /admin/tenants/:tenantId/llm: 422, or the row is replaced.  The proxy
   and the API handle a PUT whether or not its page still waits for it. *)
HandlePutMerged(n) ==
  /\ put[n].state = "sent" /\ Valid(put[n].body, apiCatalog) /\ row # Garbage
  /\ put' = [put EXCEPT ![n].state = "stored"]
  /\ row' = [t \in Tiers |-> IF put[n].body[t] = Unset THEN row[t] ELSE put[n].body[t]]
  /\ writer' = n
  /\ UNCHANGED <<apiCatalog, workerVars, pageVars, seen, chosen, boundVars>>

PutLlmSettings(n, llm) == row' = llm /\ writer' = n

HandlePut(n) ==
  /\ put[n].state = "sent"
  /\ IF Valid(put[n].body, apiCatalog)
       THEN /\ put' = [put EXCEPT ![n].state = "stored"]
            /\ PutLlmSettings(n, put[n].body)
       ELSE /\ put' = [put EXCEPT ![n].state = "refused"]
            /\ UNCHANGED <<row, writer>>
  /\ UNCHANGED <<apiCatalog, workerVars, pageVars, seen, chosen, boundVars>>

ReceiveSaved(p) ==
  /\ saving[p] /\ put[latest[p]].state = "stored"
  /\ saving' = [saving EXCEPT ![p] = FALSE]
  /\ status' = [status EXCEPT ![p] = "saved"]
  /\ timers' = [timers EXCEPT ![p] = @ + 1]
  /\ UNCHANGED <<row, apiCatalog, workerVars, load, answer, catalog, settings, latest, put,
                 histVars, boundVars>>

(* The page's fetch fails: a refusal, an error on the way, or an answer that is
   lost.  The PUT may have been stored, or be stored later. *)
FailSave(p) ==
  /\ saving[p]
  /\ saving' = [saving EXCEPT ![p] = FALSE]
  /\ status' = [status EXCEPT ![p] = "error"]
  /\ UNCHANGED <<row, apiCatalog, workerVars, load, answer, catalog, settings, timers, latest, put,
                 histVars, boundVars>>

(* The timer of a save clears whatever the page says by then. *)
ClearStatus(p) ==
  /\ timers[p] > 0
  /\ timers' = [timers EXCEPT ![p] = @ - 1]
  /\ status' = [status EXCEPT ![p] = "clear"]
  /\ UNCHANGED <<row, apiCatalog, workerVars, load, answer, catalog, settings, saving, latest, put,
                 histVars, boundVars>>

-----------------------------------------------------------------------------
(* The worker resolves the row it reads for each message; the run fails when
   it is routed to a provider that is not registered.  A tenant without
   settings is routed to the default. *)
RunRoute == ResolveRouterConfig(row, workerCatalog)["conversation"]
RunFails == ProviderOf[RunRoute] \notin registered
DefaultFails == ProviderOf[Default["conversation"]] \notin registered

(* External: a release of the API or of the worker, which starts with the keys
   its environment has. *)
Deploy(c) ==
  /\ deploys < MaxDeploys
  /\ deploys' = deploys + 1
  /\ \/ apiCatalog' = c /\ UNCHANGED workerVars
     \/ workerCatalog' = c /\ registered' \in Deployments /\ UNCHANGED apiCatalog
  /\ UNCHANGED <<row, pageVars, put, histVars, saves, choices>>

PageStep(p) ==
  \/ Open(p) \/ AnswerLoad(p) \/ ReceiveLoad(p) \/ FailLoad(p)
  \/ \E t \in Tiers, r \in Routes \cup {Unset} : Choose(p, t, r)
  \/ Save(p) \/ ReceiveSaved(p) \/ FailSave(p) \/ ClearStatus(p)

Next ==
  \/ \E p \in Pages : PageStep(p)
  \/ \E n \in 1 .. MaxSaves : HandlePut(n)
  \/ \E c \in Catalogs : Deploy(c)

Spec == Init /\ [][Next]_vars

-----------------------------------------------------------------------------
Puts == [state : {"none", "sent", "stored", "refused"}, body : Settings,
         seen : Settings \cup {NotLoaded}, chosen : SUBSET Tiers]

TypeOK ==
  /\ row \in Settings \cup {Garbage}
  /\ apiCatalog \in Catalogs /\ workerCatalog \in Catalogs /\ registered \in Deployments
  /\ load \in [Pages -> {"closed", "asked", "answered", "shown", "failed"}]
  /\ answer \in [Pages -> Settings] /\ settings \in [Pages -> Settings]
  /\ catalog \in [Pages -> SUBSET (Routes \X Tiers)]
  /\ status \in [Pages -> {"loading", "clear", "saving", "saved", "error"}]
  /\ timers \in [Pages -> Nat]
  /\ saving \in [Pages -> BOOLEAN] /\ latest \in [Pages -> 0 .. MaxSaves]
  /\ put \in [1 .. MaxSaves -> Puts]
  /\ seen \in [Pages -> Settings \cup {NotLoaded}] /\ chosen \in [Pages -> SUBSET Tiers]
  /\ writer \in 0 .. MaxSaves
  /\ saves \in 0 .. MaxSaves /\ deploys \in Nat /\ choices \in Nat

(* A PUT replaces both tiers (page.tsx:64-68, adminStore.ts:39-42), and yet,
   even when it is handled late, it does not touch the choice of a tier that
   its page had shown and its user left alone: a choice is lost only to a page
   that was given something else, or nothing yet, because another PUT was
   handled since, its load had failed or was under way at the click on Save,
   or the row was not valid any more. *)
UntouchedTierIsKept ==
  [][\A n \in 1 .. MaxSaves, t \in Tiers :
       /\ put[n].state = "sent" /\ put'[n].state = "stored"
       /\ row # Garbage /\ put[n].seen # NotLoaded
       /\ put[n].seen[t] = row[t] /\ t \notin put[n].chosen
       => row'[t] = row[t]]_vars

(* "Changes apply to the next message" (page.tsx:89): a page says "saved" only
   when the PUT of its last click is stored, and until another PUT is handled
   (one that an earlier click sent and its page gave up on included) the worker
   resolves each tier to what the page sent, the default where it sent none;
   if the worker's own catalog lacks one of the choices, both tiers are the
   defaults. *)
SavedIsUsed ==
  \A p \in Pages : status[p] = "saved" =>
    LET sent == put[latest[p]]
    IN  /\ sent.state = "stored"
        /\ writer = latest[p] =>
             \A t \in Tiers :
               ResolveRouterConfig(row, workerCatalog)[t] =
                 IF Valid(sent.body, workerCatalog) /\ sent.body[t] # Unset
                   THEN sent.body[t] ELSE Default[t]

(* "A bad settings row must never take a tenant's bot down" (models.ts:54-55):
   whatever the row holds, whichever catalogs the two processes have and
   whichever keys the worker was started with, a tenant's runs fare otherwise
   than those of a tenant without settings only by a choice of the row that the
   worker's own catalog offers.  A bad row therefore fails a run exactly when
   the default provider has no key, which the code does not exclude. *)
BadRowKeepsBotUp ==
  RunFails # DefaultFails => Valid(row, workerCatalog) /\ row["conversation"] = RunRoute

=============================================================================
