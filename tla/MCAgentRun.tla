----------------------------- MODULE MCAgentRun -----------------------------
(* Small instances of AgentRun. *)
EXTENDS AgentRun

CONSTANTS f1, invented

(* A worker with one key: the other provider's routes cannot be resolved. *)
MCDeployments == {{"anthropic"}, {"openai"}}
MCAnthropicOnly == {{"anthropic"}}
(* A tool that reads and may fail, one that is not available, the hand-off. *)
MCTools == {"search_products", "apply_discount", "handoff_to_human"}
=============================================================================
