-------------------------------- MODULE Stack --------------------------------
(***************************************************************************)
(* The rules about the stack of a node: the protocol families it runs and  *)
(* the ports they use (stack.go), and what the plane asks of it before it  *)
(* saves or applies it.                                                    *)
(***************************************************************************)
EXTENDS Integers, Sequences

XrayFamilies == {"vless", "vmess", "trojan", "ss"}
AllFamilies == XrayFamilies \cup {"hy2", "tt"}

Listens == [protocol : {"vless", "vmess", "trojan", "shadowsocks", "?"},
            security : {"", "reality", "tls", "?"},
            network : {"", "tcp", "ws", "grpc", "?"},
            vision : BOOLEAN,
            port : Nat]

\* The list "vless" of older drafts and vless_tcp, a single port, stand in when
\* the list "xray" is empty; port 0 is no port.
Ports == [xray : Seq(Listens), vless : Seq(Listens), vlessTcp : Nat, hy2 : Nat,
          tt : Nat]

-----------------------------------------------------------------------------
(* What stack.Validate accepts *)

Listen(protocol, security, network, vision, port) ==
    [protocol |-> protocol, security |-> security, network |-> network,
     vision |-> vision, port |-> port]

VlessRealityGRPC(port) == Listen("vless", "reality", "grpc", FALSE, port)
VlessRealityVision(port) == Listen("vless", "reality", "tcp", TRUE, port)
\* REALITY does not allow WebSocket, so this one is over TLS.
MutantVlessRealityWS(port) == Listen("vless", "reality", "ws", FALSE, port)
VlessTLSWS(port) == Listen("vless", "tls", "ws", FALSE, port)

NormalizeListen(l) ==
    [l EXCEPT !.security = IF l.protocol = "vless" /\ @ = "" THEN "reality" ELSE @,
              !.network = IF @ = "" THEN "tcp" ELSE @]

NormalizeListens(ls) == [i \in DOMAIN ls |-> NormalizeListen(ls[i])]

ResolveXray(ports) ==
    IF ports.xray # <<>> THEN NormalizeListens(ports.xray)
    ELSE IF ports.vless # <<>> THEN NormalizeListens(ports.vless)
    ELSE IF ports.vlessTcp = 0 THEN <<>>
    ELSE <<VlessRealityGRPC(ports.vlessTcp)>>

FamilyForListen(l) == IF l.protocol \in {"vmess", "trojan"} THEN l.protocol
                      ELSE IF l.protocol = "shadowsocks" THEN "ss"
                      ELSE "vless"

NeedsTLSCert(ports) ==
    \E i \in DOMAIN ResolveXray(ports) :
        LET l == ResolveXray(ports)[i]
        IN  l.security = "tls" \/ l.protocol \in {"trojan", "vmess"}

NeedsHostname(families) == families \cap {"hy2", "tt", "vmess", "trojan"} # {}

\* What Validate asks of one listen, its port apart.
MutantListenOkAnyNetwork(l, families) ==
    /\ FamilyForListen(l) \in families
    /\ l.protocol \in {"vless", "vmess", "trojan", "shadowsocks"}
    /\ l.vision => /\ l.protocol = "vless"
                   /\ l.security = "reality" /\ l.network = "tcp"
    /\ ~(l.security = "reality" /\ l.network = "ws")
    /\ l.protocol = "shadowsocks" \/ l.security \in {"reality", "tls"}
ListenOk(l, families) ==
    /\ FamilyForListen(l) \in families
    /\ l.protocol \in {"vless", "vmess", "trojan", "shadowsocks"}
    /\ l.network \in {"tcp", "ws", "grpc"}
    /\ l.vision => /\ l.protocol = "vless"
                   /\ l.security = "reality" /\ l.network = "tcp"
    /\ ~(l.security = "reality" /\ l.network = "ws")
    /\ l.protocol = "shadowsocks" \/ l.security \in {"reality", "tls"}

\* seenPort: every listen has a TCP port of its own, and so has trusttunnel.
MutantPortsDiffer(listens, s) ==
    /\ \A i, j \in DOMAIN listens : i # j => listens[i].port # listens[j].port
    /\ "hy2" \in s.families => s.ports.hy2 > 0
    /\ "tt" \in s.families => s.ports.tt > 0 /\ s.ports.tt # s.ports.hy2
PortsDiffer(listens, s) ==
    /\ \A i \in DOMAIN listens : listens[i].port > 0
    /\ \A i, j \in DOMAIN listens : i # j => listens[i].port # listens[j].port
    /\ "hy2" \in s.families => s.ports.hy2 > 0
    /\ "tt" \in s.families =>
          /\ s.ports.tt > 0
          /\ \A i \in DOMAIN listens : listens[i].port # s.ports.tt
          /\ "hy2" \in s.families => s.ports.hy2 # s.ports.tt

Validate(s) ==
    LET listens == ResolveXray(s.ports)
    IN  /\ s.families # {}
        /\ s.families \cap XrayFamilies # {} => listens # <<>>
        /\ \A i \in DOMAIN listens : ListenOk(listens[i], s.families)
        /\ PortsDiffer(listens, s)

-----------------------------------------------------------------------------
(* Presets: what createNode offers *)

PortsOf(xray, vlessTcp, hy2, tt) ==
    [xray |-> xray, vless |-> <<>>, vlessTcp |-> vlessTcp, hy2 |-> hy2, tt |-> tt]

Dual == <<VlessRealityGRPC(443), VlessRealityVision(9443)>>
Full == <<VlessRealityGRPC(443), VlessRealityVision(9443), VlessTLSWS(2083)>>
Review == <<VlessRealityGRPC(443), VlessRealityVision(9443), VlessTLSWS(2083),
            Listen("vless", "tls", "tcp", FALSE, 10443),
            Listen("vmess", "tls", "ws", FALSE, 2096),
            Listen("trojan", "tls", "tcp", FALSE, 10444),
            Listen("shadowsocks", "", "tcp", FALSE, 8388)>>

DefaultPorts ==
    [max          |-> PortsOf(<<>>, 443, 443, 8443),
     ttFirst      |-> PortsOf(<<>>, 8443, 8443, 443),
     stealth      |-> PortsOf(<<>>, 443, 0, 0),
     hy2          |-> PortsOf(<<>>, 0, 443, 0),
     tt           |-> PortsOf(<<>>, 0, 0, 443),
     stealthDual  |-> PortsOf(Dual, 0, 0, 0),
     stealthFull  |-> PortsOf(Full, 0, 0, 0),
     maxDual      |-> PortsOf(Dual, 0, 443, 8443),
     maxFull      |-> PortsOf(Full, 0, 443, 8443),
     review       |-> PortsOf(Review, 0, 443, 8443)]

FamiliesForPreset(preset) ==
    CASE preset \in {"stealth", "stealthDual", "stealthFull"} -> {"vless"}
      [] preset = "hy2" -> {"hy2"}
      [] preset = "tt" -> {"tt"}
      [] preset = "review" -> AllFamilies
      [] OTHER -> {"vless", "hy2", "tt"}

Preset(preset) == [families |-> FamiliesForPreset(preset),
                   ports |-> DefaultPorts[preset]]

-----------------------------------------------------------------------------
(* What the plane asks of it *)

\* The checks of setNodeStack; those of createNode ask for the hostname of a
\* TLS certificate too.
MaySave(s, host) == Validate(s) /\ (NeedsHostname(s.families) => host)
MayCreate(s, host) ==
    /\ Validate(s)
    /\ NeedsHostname(s.families) \/ NeedsTLSCert(s.ports) => host

\* The blocks of the desired state.
WantXray(s) == s.families \cap XrayFamilies # {} /\ ResolveXray(s.ports) # <<>>
NeedHost(s) ==
    \/ s.families \cap {"hy2", "tt", "vmess", "trojan"} # {}
    \/ NeedsTLSCert(s.ports)

\* applyStoredNode refuses a node whose hostname is missing, and one without
\* any family to run.
MayApply(s, host) ==
    /\ NeedHost(s) => host
    /\ WantXray(s) \/ s.families \cap {"hy2", "tt"} # {}
=============================================================================
