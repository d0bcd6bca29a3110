----------------------------- MODULE MCOutbound -----------------------------
(***************************************************************************)
(* Small instances of OutboundDelivery: a reply, and a recovery template,   *)
(* which cartRecovery.ts queues with the trigger "campaign".                *)
(***************************************************************************)
EXTENDS OutboundDelivery

CONSTANTS reply, recovery

MCKindOf == [j \in Jobs |-> IF j = reply THEN "freeform" ELSE "template_marketing"]
=============================================================================
