----------------------------- MODULE StackSpec -----------------------------
(***************************************************************************)
(* The way of a stack from the admin to the daemons.                       *)
(*                                                                         *)
(* It passes three hands before a daemon binds its ports: the plane        *)
(* validates and saves it (createNode, setNodeStack), an apply turns it    *)
(* into a desired state (applyStoredNode), and the agent builds the        *)
(* configuration of xray from that (xrayconf.Build).  Each checks what it  *)
(* thinks it has to.                                                       *)
(***************************************************************************)
EXTENDS Stack

CONSTANTS Specs             \* the stacks an admin may ask for

ASSUME StackAssumption ==
    Specs \subseteq [families : SUBSET AllFamilies, ports : Ports]

VARIABLES
    spec,                   \* the stack in the request
    hostname,               \* does the node have a hostname?
    stage                   \* "sent", "refused", "saved", "stuck" (saved, but
                            \* no apply takes it), "put", "built" or "failed"

vars == <<spec, hostname, stage>>

-----------------------------------------------------------------------------
(* The plane *)

\* A stack as the admin filled it in, or a preset.
Init ==
    /\ spec \in Specs \cup {Preset(p) : p \in DOMAIN DefaultPorts}
    /\ hostname \in BOOLEAN
    /\ stage = "sent"

SetNodeStack ==
    /\ stage = "sent"
    /\ stage' = IF MaySave(spec, hostname) THEN "saved" ELSE "refused"
    /\ UNCHANGED <<spec, hostname>>

CreateNode ==
    /\ stage = "sent"
    /\ spec \in {Preset(p) : p \in DOMAIN DefaultPorts}
    /\ stage' = IF MayCreate(spec, hostname) THEN "saved" ELSE "refused"
    /\ UNCHANGED <<spec, hostname>>

ApplyStoredNode ==
    /\ stage = "saved"
    /\ stage' = IF MayApply(spec, hostname) THEN "put" ELSE "stuck"
    /\ UNCHANGED <<spec, hostname>>

-----------------------------------------------------------------------------
(* The agent *)

\* streamSettings returns no error; cert and key are those of the hostname.
StreamOk(l, host) ==
    /\ l.security \in {"reality", "tls"}
    /\ l.security = "tls" => host
    /\ l.network \in {"tcp", "ws", "grpc"}

InboundOk(l, host) ==
    \/ l.protocol = "shadowsocks"
    \/ l.protocol \in {"vless", "vmess", "trojan"} /\ StreamOk(l, host)

Build ==
    /\ stage = "put"
    /\ stage' = IF WantXray(spec) =>
                     \A i \in DOMAIN ResolveXray(spec.ports) :
                         InboundOk(ResolveXray(spec.ports)[i], hostname)
                THEN "built" ELSE "failed"
    /\ UNCHANGED <<spec, hostname>>

Next == SetNodeStack \/ CreateNode \/ ApplyStoredNode \/ Build

Spec == Init /\ [][Next]_vars

-----------------------------------------------------------------------------
\* The sockets that each listener of the node binds on its public address:
\* inbound i of xray (shadowsocks takes TCP and UDP), hysteria, trusttunnel.
Sockets(s) ==
    LET listens == ResolveXray(s.ports)
        xray == IF WantXray(s) THEN DOMAIN listens ELSE {}
    IN  {<<i, "tcp", listens[i].port>> : i \in xray}
        \cup {<<i, "udp", listens[i].port>> :
                  i \in {j \in xray : listens[j].protocol = "shadowsocks"}}
        \cup (IF "hy2" \in s.families THEN {<<-1, "udp", s.ports.hy2>>} ELSE {})
        \cup (IF "tt" \in s.families
                THEN {<<-2, "tcp", s.ports.tt>>, <<-2, "udp", s.ports.tt>>}
                ELSE {})

-----------------------------------------------------------------------------
(* Properties *)

\* What the plane validated and sent, the agent can build: the two places that
\* check listens, in two packages, do not contradict each other.
AcceptedIsBuilt == stage # "failed"

\* No two listeners of a stack that was accepted bind the same socket.
SocketsDistinct ==
    stage = "built" =>
        \A a, b \in Sockets(spec) : a[2] = b[2] /\ a[3] = b[3] => a = b

\* Every preset is accepted, applied and built on a node with a hostname.
PresetsWork ==
    hostname /\ (\E p \in DOMAIN DefaultPorts : spec = Preset(p))
        => stage \in {"sent", "saved", "put", "built"}

\* A stack that was saved can be applied.
SavedIsApplied == stage # "stuck"
=============================================================================
