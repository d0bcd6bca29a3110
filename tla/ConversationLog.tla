--------------------------- MODULE ConversationLog ---------------------------
(***************************************************************************)
(* What the inbound path promises, without transactions, locks, retries or  *)
(* jobs: each message is handled at most once, in one step, on the          *)
(* contact's conversation; a conversation a human owns gets no reply; the   *)
(* replies decided in that step are queued one by one, in order.            *)
(***************************************************************************)
EXTENDS Integers, Sequences

CONSTANTS Msgs, Contacts, FromOf

VARIABLES handled,   \* messages whose handling has taken effect
          convs,     \* conversations in order of creation
          promised,  \* number of replies decided for each message
          queued     \* reply numbers queued for each message

vars == <<handled, convs, promised, queued>>

Init ==
  /\ handled = {} /\ convs = <<>>
  /\ promised = [m \in Msgs |-> 0]
  /\ queued = [m \in Msgs |-> <<>>]

ConvsOf(c) == {i \in 1..Len(convs) : convs[i].contact = c}

(* A first message, or one after the last conversation was closed. *)
OpenConversation(m) ==
  /\ \A i \in ConvsOf(FromOf[m]) : convs[i].status = "closed"
  /\ \E s \in {"bot", "human"} :
       convs' = Append(convs, [contact |-> FromOf[m], status |-> s])
  /\ promised'[m] \in Nat

(* A message in the contact's latest conversation, possibly handed to a
   human.  The conversation may have been closed a moment ago. *)
ContinueConversation(m) ==
  \E i \in ConvsOf(FromOf[m]) :
    /\ \A j \in ConvsOf(FromOf[m]) : j <= i
    /\ convs[i].status # "human"
    /\ convs' \in {convs, [convs EXCEPT ![i].status = "human"]}
    /\ promised'[m] \in Nat

(* A human owns the contact's latest conversation, or owned it a moment ago:
   the message is only recorded. *)
RecordOnly(m) ==
  /\ ConvsOf(FromOf[m]) # {}
  /\ UNCHANGED convs
  /\ promised'[m] = 0

Handle(m) ==
  /\ m \notin handled
  /\ handled' = handled \cup {m}
  /\ OpenConversation(m) \/ ContinueConversation(m) \/ RecordOnly(m)
  /\ promised' = [promised EXCEPT ![m] = promised'[m]]
  /\ UNCHANGED queued

QueueReply(m) ==
  /\ m \in handled /\ Len(queued[m]) < promised[m]
  /\ queued' = [queued EXCEPT ![m] = Append(@, Len(@) + 1)]
  /\ UNCHANGED <<handled, convs, promised>>

HumanStep(i) ==
  /\ \/ convs[i].status # "closed" /\ convs' = [convs EXCEPT ![i].status = "closed"]
     \/ convs[i].status = "human"  /\ convs' = [convs EXCEPT ![i].status = "bot"]
  /\ UNCHANGED <<handled, promised, queued>>

Next ==
  \/ \E m \in Msgs : Handle(m) \/ QueueReply(m)
  \/ \E i \in 1..Len(convs) : HumanStep(i)

Spec == Init /\ [][Next]_vars
=============================================================================
