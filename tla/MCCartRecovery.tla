--------------------------- MODULE MCCartRecovery ---------------------------
(***************************************************************************)
(* One cart (carts, their rows and their jobs are independent of each       *)
(* other) with the events a shop can send for it, in any order.             *)
(***************************************************************************)
EXTENDS CartRecovery, TLC

CONSTANTS t1, created, updated, completed, order1, order2

MCEventOf ==
  [e \in Events |->
     IF e \in {order1, order2} THEN [kind |-> "order", cart |-> t1]
     ELSE [kind |-> "checkout", cart |-> t1, completed |-> e = completed,
           contactable |-> TRUE]]
=============================================================================
