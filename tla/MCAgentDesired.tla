--------------------------- MODULE MCAgentDesired ---------------------------
(* AgentDesired for TLC: a user that stays, one that comes and goes. *)
EXTENDS AgentDesired

CONSTANTS u1, u2

\* xray with trusttunnel, hysteria with trusttunnel, and one alone.
MCBodies ==
    {[f \in {"xray", "tt"} |-> {u1}], [f \in {"xray", "tt"} |-> {u2}],
     [f \in {"hy2", "tt"} |-> {u1}], [f \in {"hy2", "tt"} |-> {}],
     [f \in {"hy2"} |-> {u2}], [f \in Families |-> {u1, u2}]}
=============================================================================
