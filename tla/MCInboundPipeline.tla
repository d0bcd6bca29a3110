------------------------- MODULE MCInboundPipeline -------------------------
(***************************************************************************)
(* Small instances of InboundPipeline: one POST of two messages of one      *)
(* contact, delivered once or twice, two job slots.  The bounds on crashes, *)
(* attempts and human steps are in the configurations.                      *)
(***************************************************************************)
EXTENDS InboundPipeline

CONSTANTS m1, m2, m3, s1, n1, n2, c1, c2, w1, w2

(* Two messages of one contact, m2 written after m1, and a third one of
   another contact sent to a number no channel owns. *)
MCFrom == [m \in Msgs |-> IF m = m3 THEN c2 ELSE c1]
MCTs   == [m \in Msgs |-> IF m = m1 THEN 1 ELSE 2]

MCChange(field, number, msgs, statuses) ==
  [field |-> field, phoneNumberId |-> number, messages |-> msgs, statuses |-> statuses]

(* Messages among what the parser and the handler skip: another field, a
   status update, a number without a channel. *)
MCPayloadsWithStatus ==
  {<<MCChange("account_update", n1, <<>>, <<>>), MCChange("messages", n1, <<m1>>, <<s1>>),
     MCChange("messages", n1, <<m2>>, <<>>)>>}
MCPayloadsWithUnknown ==
  {<<MCChange("messages", n1, <<m1>>, <<>>), MCChange("messages", n2, <<m3>>, <<>>),
     MCChange("messages", n1, <<m2>>, <<>>)>>}

(* No match, where the agent answers, and a workflow that sends a message and
   then hands off with a text. *)
MCWorkflows == {<<>>, <<"send_message", "handoff_text">>}
MCHandoffWorkflow == {<<"handoff_text">>}
MCNoWorkflow == {<<>>}

MCSymmetry == Permutations({w1, w2})
=============================================================================
