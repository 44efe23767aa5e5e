---------------------------- MODULE MCStackSpec ----------------------------
(* StackSpec for TLC: up to two listens and few ports. *)
EXTENDS StackSpec

Chosen(families, xray, hy2, tt) ==
    [families |-> families,
     ports |-> PortsOf(xray, 0, hy2, tt)]

\* A stack of older drafts, with a single port or the list "vless".
Legacy(families, vless, port, hy2) ==
    [families |-> families,
     ports |-> [PortsOf(<<>>, port, hy2, 0) EXCEPT !.vless = vless]]

First == {Listen(p, s, n, FALSE, 443) : p \in {"vless", "trojan", "?"},
                                        s \in {"", "reality", "tls", "?"},
                                        n \in {"", "ws", "grpc", "?"}}
         \cup {Listen(p, s, "tcp", TRUE, 443) : p \in {"vless", "vmess"},
                                                s \in {"", "tls"}}
Second == {Listen("vmess", "tls", "ws", FALSE, p) : p \in {0, 443, 2096}}
FamilySets == {{"vless"}, {"trojan", "hy2"}, {"vless", "vmess", "tt"},
               {"vless", "trojan", "vmess", "hy2", "tt"}, {"hy2"}, {"tt"}, {}}

\* Everything but shadowsocks.
MCSpecs ==
    {Chosen(f, <<>>, 443, 8443) : f \in FamilySets}
    \cup {Chosen(f, <<l>>, h, t) : f \in FamilySets, l \in First,
                                  h \in {0, 443}, t \in {0, 443, 8443}}
    \cup {Chosen(f, <<k, l>>, 443, t) : f \in FamilySets, k \in First,
                                       l \in Second, t \in {443, 8443}}
    \cup {Legacy(f, <<>>, p, 443) : f \in FamilySets, p \in {0, 443}}
    \cup {Legacy(f, <<l>>, 443, 443) : f \in FamilySets, l \in First}

\* Shadowsocks beside hysteria.
ShadowSpecs ==
    {Chosen({"ss", "hy2"}, <<Listen("shadowsocks", "", "", FALSE, p)>>, h, 0) :
        p \in {443, 8388}, h \in {443, 8388}}

\* VLESS alone, over TLS.
TlsSpecs == {Chosen({"vless"}, <<Listen("vless", "tls", "ws", FALSE, 443)>>, 0, 0)}
=============================================================================
