--------------------------- MODULE MCLlmSettings ---------------------------
(***************************************************************************)
(* A small instance of LlmSettings: two pages, a model of each provider, a  *)
(* release that takes one of them out of the catalog.  The worker has a key *)
(* of one provider: the default's, or the other's.                          *)
(***************************************************************************)
EXTENDS LlmSettings, TLC

CONSTANTS p1, p2, opus, gpt

MCTiers == {"conversation", "routing"}
MCProviderOf == [r \in Routes |-> IF r = opus THEN "anthropic" ELSE "openai"]
MCDefault == [t \in Tiers |-> opus]
MCFull == {<<opus, "conversation">>, <<gpt, "conversation">>, <<opus, "routing">>}
MCWithoutGpt == {<<opus, "conversation">>, <<opus, "routing">>}
MCCatalogs == {MCFull, MCWithoutGpt}
MCSymmetry == Permutations({p1, p2})
=============================================================================
