-------------------------- MODULE MCAgentTransport --------------------------
(* Small instances of AgentTransport for TLC. *)
EXTENDS AgentTransport, TLC

CONSTANTS p1, p2, p3, x, act, stopit, h1, h2

\* The requests of every instance, named for what they carry: three prompts, a
\* message that is none, an action and an interrupt.
MCKind ==
    [a \in Asks |-> CASE a = x      -> "not_a_prompt"
                      [] a = act    -> "action"
                      [] a = stopit -> "interrupt"
                      [] OTHER      -> "prompt"]

=============================================================================
