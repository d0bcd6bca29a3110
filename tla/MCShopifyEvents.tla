--------------------------- MODULE MCShopifyEvents ---------------------------
(***************************************************************************)
(* Small instances of ShopifyEvents: two events, the later one called       *)
(* second, in each of the scenarios.                                        *)
(***************************************************************************)
EXTENDS ShopifyEvents

CONSTANTS first, second

MCRank == [e \in Events |-> IF e = first THEN 1 ELSE 2]
MCPosts == [e \in Events |-> IF e = first THEN 2 ELSE 1]
MCTopics(t, u) == [e \in Events |-> IF e = first THEN t ELSE u]

(* An order and its automations; a product that is changed and deleted; the
   rest, which only share the queue. *)
MCScenarios ==
  {MCTopics("orders/create", "orders/fulfilled"), MCTopics("products/create", "products/update"),
   MCTopics("products/update", "products/delete"), MCTopics("app/uninstalled", "other")}
MCOrders == {MCTopics("orders/create", "orders/fulfilled")}
=============================================================================
