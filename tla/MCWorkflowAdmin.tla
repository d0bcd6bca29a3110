--------------------------- MODULE MCWorkflowAdmin ---------------------------
(***************************************************************************)
(* A small instance of WorkflowAdmin: one workflow, whose first message is  *)
(* blank, a second one that may be drawn in the builder, and two messages   *)
(* that match both.                                                         *)
(***************************************************************************)
EXTENDS WorkflowAdmin, TLC

Blank == [type |-> "send_message", text |-> "blank"]
Send == [type |-> "send_message", text |-> "words"]

MCInitial ==
  << [enabled |-> TRUE, trigger |-> "message_received", actions |-> <<Blank, Send>>] >>
MCEventType == [e \in Events |-> "message_received"]
MCSymmetry == Permutations(Events) \cup Permutations(Workers)
=============================================================================
