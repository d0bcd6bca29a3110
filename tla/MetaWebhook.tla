----------------------------- MODULE MetaWebhook -----------------------------
(***************************************************************************)
(* parseInboundWebhook of packages/channels/src/meta.ts: a POST body of     *)
(* Meta flattened into events, in order.  A payload is the sequence of the  *)
(* changes of its entries, each                                             *)
(*   [field, phoneNumberId, messages, statuses]                             *)
(* with the ids of what it carries.  Names, texts, media ids and timestamps *)
(* are data the events pass on; a type the code does not know becomes a     *)
(* message all the same.                                                    *)
(***************************************************************************)
EXTENDS SequencesExt

MessageEvents(change) ==
  [i \in DOMAIN change.messages |->
     [kind |-> "message", phoneNumberId |-> change.phoneNumberId, id |-> change.messages[i]]]

StatusEvents(change) ==
  [i \in DOMAIN change.statuses |->
     [kind |-> "status", phoneNumberId |-> change.phoneNumberId, id |-> change.statuses[i]]]

ParseInboundWebhook(payload) ==
  LET relevant == SelectSeq(payload, LAMBDA change : change.field = "messages")
      events(change) == MessageEvents(change) \o StatusEvents(change)
  IN  FlattenSeq([i \in DOMAIN relevant |-> events(relevant[i])])

(* What a payload carries, for the properties: its messages to one of the
   numbers in `known`, wherever they are in it. *)
MessagesFor(payload, known) ==
  UNION {ToSet(payload[i].messages) :
           i \in {j \in DOMAIN payload : /\ payload[j].field = "messages"
                                         /\ payload[j].phoneNumberId \in known}}
=============================================================================
