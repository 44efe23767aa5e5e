-------------------------- MODULE StackSpecProofs --------------------------
(***************************************************************************)
(* What the plane accepts, the agent can build, and no two listeners share *)
(* a socket, for all stacks; and every preset gets through all three hands *)
(* on a node that has a hostname.                                          *)
(***************************************************************************)
EXTENDS StackSpec, TLAPS

\* A stack that was saved passed Validate; one that was sent to the agent, the
\* checks of the apply too.
Inv == /\ stage \in {"saved", "put", "built", "failed"} => Validate(spec)
       /\ stage \in {"put", "built", "failed"} => MayApply(spec, hostname)
       /\ stage # "failed"

\* Every listen that passes the checks of Validate can be built on a node that
\* has the hostname its certificate needs.
LEMMA AcceptedListen ==
    ASSUME Validate(spec), MayApply(spec, hostname),
           NEW i \in DOMAIN ResolveXray(spec.ports)
    PROVE  InboundOk(ResolveXray(spec.ports)[i], hostname)
<1> DEFINE l == ResolveXray(spec.ports)[i]
<1>1. ListenOk(l, spec.families) BY DEF Validate
<1>2. l.security = "tls" => hostname BY DEF MayApply, NeedHost, NeedsTLSCert
<1>3. CASE l.protocol = "shadowsocks" BY <1>3 DEF InboundOk
<1>4. CASE l.protocol # "shadowsocks"
  <2>1. l.protocol \in {"vless", "vmess", "trojan"} BY <1>1, <1>4 DEF ListenOk
  <2>2. l.security \in {"reality", "tls"} /\ l.network \in {"tcp", "ws", "grpc"}
    BY <1>1, <1>4 DEF ListenOk
  <2>3. StreamOk(l, hostname) BY <1>2, <2>2 DEF StreamOk
  <2>. QED BY <2>1, <2>3 DEF InboundOk
<1>. QED BY <1>3, <1>4

LEMMA Invariance == Spec => []Inv
<1>1. Init => Inv BY DEF Init, Inv
<1>2. Inv /\ [Next]_vars => Inv'
  <2> SUFFICES ASSUME Inv, [Next]_vars PROVE Inv' OBVIOUS
  <2>1. CASE SetNodeStack BY <2>1 DEF Inv, SetNodeStack, MaySave
  <2>2. CASE CreateNode BY <2>2 DEF Inv, CreateNode, MayCreate
  <2>3. CASE ApplyStoredNode BY <2>3 DEF Inv, ApplyStoredNode
  <2>4. CASE Build
    <3>1. Validate(spec) /\ MayApply(spec, hostname) BY <2>4 DEF Inv, Build
    <3>2. stage' = "built" BY <2>4, <3>1, AcceptedListen DEF Build
    <3>. QED BY <2>4, <3>1, <3>2 DEF Inv, Build
  <2>5. CASE UNCHANGED vars BY <2>5 DEF Inv, vars
  <2>. QED BY <2>1, <2>2, <2>3, <2>4, <2>5 DEF Next
<1>. QED BY <1>1, <1>2, PTL DEF Spec

-----------------------------------------------------------------------------
\* Whatever stack an admin asks for, a stack that setNodeStack or createNode
\* accepted and applyStoredNode sent is one that xrayconf.Build can build.
THEOREM AcceptedBuilds == Spec => []AcceptedIsBuilt
<1>1. Inv => AcceptedIsBuilt BY DEF Inv, AcceptedIsBuilt
<1>. QED BY <1>1, Invariance, PTL

\* Shadowsocks takes UDP, and Validate does not compare it with hysteria.
Clash(s) == \E i \in DOMAIN ResolveXray(s.ports) :
               /\ ResolveXray(s.ports)[i].protocol = "shadowsocks"
               /\ "hy2" \in s.families
               /\ ResolveXray(s.ports)[i].port = s.ports.hy2

LEMMA ValidatedSockets ==
    ASSUME NEW s, Validate(s), ~Clash(s),
           NEW a \in Sockets(s), NEW b \in Sockets(s), a[2] = b[2], a[3] = b[3]
    PROVE  a = b
<1> DEFINE listens == ResolveXray(s.ports)
           X(c, i) == \/ c = <<i, "tcp", listens[i].port>>
                      \/ /\ c = <<i, "udp", listens[i].port>>
                         /\ listens[i].protocol = "shadowsocks"
           H(c) == "hy2" \in s.families /\ c = <<-1, "udp", s.ports.hy2>>
           T(c) == /\ "tt" \in s.families
                   /\ c \in {<<-2, "tcp", s.ports.tt>>, <<-2, "udp", s.ports.tt>>}
<1>1. \A c \in Sockets(s) : (\E i \in DOMAIN listens : X(c, i)) \/ H(c) \/ T(c)
  BY DEF Sockets
<1>2. /\ \A i, j \in DOMAIN listens : i # j => listens[i].port # listens[j].port
      /\ "tt" \in s.families =>
            /\ \A i \in DOMAIN listens : listens[i].port # s.ports.tt
            /\ "hy2" \in s.families => s.ports.hy2 # s.ports.tt
  BY DEF Validate, PortsDiffer
<1>3. \A i \in DOMAIN listens :
         listens[i].protocol = "shadowsocks" /\ "hy2" \in s.families
            => listens[i].port # s.ports.hy2
  BY DEF Clash
<1>4. ASSUME NEW i \in DOMAIN listens, NEW j \in DOMAIN listens, X(a, i), X(b, j)
      PROVE  a = b
  <2>1. a[3] = listens[i].port /\ b[3] = listens[j].port BY <1>4
  <2>2. i = j BY <1>2, <2>1
  <2>. QED BY <1>4, <2>2
<1>5. ASSUME NEW i \in DOMAIN listens, NEW c, NEW d, X(c, i), H(d) \/ T(d),
             c[2] = d[2], c[3] = d[3]
      PROVE  FALSE
  BY <1>2, <1>3, <1>5
<1>6. ASSUME H(a) \/ T(a), H(b) \/ T(b) PROVE a = b
  BY <1>2, <1>6
<1>. HIDE DEF listens, X, H, T
<1>. QED BY <1>1, <1>4, <1>5, <1>6

\* Leave that one pair apart, and no two listeners of a stack that was built bind
\* the same socket, whatever families and ports it has (Validate's seenPort).
THEOREM SocketsApart ==
    ASSUME \A s \in Specs \cup {Preset(p) : p \in DOMAIN DefaultPorts} : ~Clash(s)
    PROVE  Spec => []SocketsDistinct
<1> DEFINE Known == spec \in Specs \cup {Preset(p) : p \in DOMAIN DefaultPorts}
<1>1. Init => Known BY DEF Init
<1>2. Known /\ [Next]_vars => Known'
  BY DEF Next, SetNodeStack, CreateNode, ApplyStoredNode, Build, vars
<1>3. Known /\ Inv => SocketsDistinct
  <2> SUFFICES ASSUME Known, Inv, stage = "built",
                      NEW a \in Sockets(spec), NEW b \in Sockets(spec),
                      a[2] = b[2], a[3] = b[3]
      PROVE  a = b
    BY DEF SocketsDistinct
  <2>1. Validate(spec) /\ ~Clash(spec) BY DEF Inv
  <2>. QED BY <2>1, ValidatedSockets
<1>. HIDE DEF Known
<1>. QED BY <1>1, <1>2, <1>3, Invariance, PTL DEF Spec
-----------------------------------------------------------------------------
(* The presets *)

\* A listen that Validate takes from a node of these families, on this port.
Fits(l, families, port) ==
    l \in Listens /\ ListenOk(l, families) /\ l.port = port

\* A list of them, each on a port of its own that is not trusttunnel's default.
Inbounds(ls, families) ==
    /\ 1 \in DOMAIN ls
    /\ \A i \in DOMAIN ls : Fits(ls[i], families, ls[i].port)
    /\ \A i \in DOMAIN ls : ls[i].port \notin {0, 8443}
    /\ \A i, j \in DOMAIN ls : i # j => ls[i].port # ls[j].port

LEMMA ListenPort == \A l \in Listens : l.port \in Nat
BY DEF Listens

\* Normalisation only fills what is empty: it changes no listen that passes.
LEMMA NormalizeFits ==
    ASSUME NEW families, NEW l, NEW port, Fits(l, families, port)
    PROVE  NormalizeListen(l) = l
<1>1. l = [protocol |-> l.protocol, security |-> l.security,
           network |-> l.network, vision |-> l.vision, port |-> l.port]
  BY DEF Fits, Listens
<1>. QED BY <1>1 DEF NormalizeListen, ListenOk, Fits

LEMMA NormalizeInbounds ==
    ASSUME NEW families, NEW ls, Inbounds(ls, families)
    PROVE  Inbounds(NormalizeListens(ls), families)
BY NormalizeFits DEF Inbounds, NormalizeListens

LEMMA VlessFits ==
    ASSUME NEW families, "vless" \in families, NEW port \in Nat
    PROVE  /\ Fits(VlessRealityGRPC(port), families, port)
           /\ Fits(VlessRealityVision(port), families, port)
           /\ Fits(VlessTLSWS(port), families, port)
BY DEF Fits, Listens, ListenOk, VlessTLSWS, VlessRealityGRPC,
       VlessRealityVision, Listen, FamilyForListen

\* The lists that presets are made of.
LEMMA DualFits ==
    ASSUME NEW families, "vless" \in families
    PROVE  Inbounds(Dual, families)
<1> DEFINE a == VlessRealityGRPC(443)
           b == VlessRealityVision(9443)
<1>1. Fits(a, families, 443) /\ Fits(b, families, 9443) BY VlessFits
<1>2. Dual = <<a, b>> BY DEF Dual
<1>. HIDE DEF a, b
<1>. QED BY <1>1, <1>2 DEF Inbounds, Fits

LEMMA FullFits ==
    ASSUME NEW families, "vless" \in families
    PROVE  Inbounds(Full, families)
<1> DEFINE a == VlessRealityGRPC(443)
           b == VlessRealityVision(9443)
           c == VlessTLSWS(2083)
<1>1. /\ Fits(a, families, 443)
      /\ Fits(b, families, 9443)
      /\ Fits(c, families, 2083)
  BY VlessFits
<1>2. Full = <<a, b, c>> BY DEF Full
<1>. HIDE DEF a, b, c
<1>. QED BY <1>1, <1>2 DEF Inbounds, Fits

LEMMA ReviewFits == Inbounds(Review, AllFamilies)
<1> DEFINE a == VlessRealityGRPC(443)
           b == VlessRealityVision(9443)
           c == VlessTLSWS(2083)
           d == Listen("vless", "tls", "tcp", FALSE, 10443)
           e == Listen("vmess", "tls", "ws", FALSE, 2096)
           f == Listen("trojan", "tls", "tcp", FALSE, 10444)
           g == Listen("shadowsocks", "", "tcp", FALSE, 8388)
           P == <<443, 9443, 2083, 10443, 2096, 10444, 8388>>
<1>1. /\ Fits(a, AllFamilies, 443)
      /\ Fits(b, AllFamilies, 9443)
      /\ Fits(c, AllFamilies, 2083)
  BY VlessFits DEF AllFamilies, XrayFamilies
<1>2. /\ Fits(d, AllFamilies, 10443)
      /\ Fits(e, AllFamilies, 2096)
      /\ Fits(f, AllFamilies, 10444)
      /\ Fits(g, AllFamilies, 8388)
  BY DEF Fits, Listens, ListenOk, Listen, FamilyForListen, AllFamilies,
         XrayFamilies
<1>3. Review = <<a, b, c, d, e, f, g>> BY DEF Review
<1>4. \A i, j \in 1 .. 7 :
         P[i] \in Nat \ {0, 8443} /\ (i # j => P[i] # P[j])
  OBVIOUS
<1>. HIDE DEF a, b, c, d, e, f, g
<1>5. ASSUME NEW i \in 1 .. 7 PROVE Fits(Review[i], AllFamilies, P[i])
  <2>1. i \in {1, 2, 3, 4, 5, 6, 7} OBVIOUS
  <2>. QED BY <1>1, <1>2, <1>3, <2>1
<1>6. DOMAIN Review = 1 .. 7 BY <1>3
<1>. HIDE DEF P
<1>. QED BY <1>4, <1>5, <1>6 DEF Inbounds, Fits

\* A stack of a list, beside hysteria on 443 and trusttunnel on 8443.
LEMMA ListValid ==
    ASSUME NEW xray, NEW hy2 \in {0, 443}, NEW tt \in {0, 8443}, NEW families,
           Inbounds(xray, families),
           "hy2" \in families => hy2 = 443,
           "tt" \in families => tt = 8443
    PROVE  Validate([families |-> families, ports |-> PortsOf(xray, 0, hy2, tt)])
<1> DEFINE s == [families |-> families, ports |-> PortsOf(xray, 0, hy2, tt)]
           ls == NormalizeListens(xray)
<1>1. Inbounds(ls, families) BY NormalizeInbounds
<1>2. ResolveXray(s.ports) = ls
  <2>1. xray # <<>> BY DEF Inbounds
  <2>. QED BY <2>1 DEF ResolveXray, PortsOf
<1>3. s.families = families /\ s.ports.hy2 = hy2 /\ s.ports.tt = tt
  BY DEF PortsOf
<1>. HIDE DEF s, ls
<1>4. /\ \A i \in DOMAIN ls : ListenOk(ls[i], families)
      /\ \A i \in DOMAIN ls : ls[i].port > 0 /\ ls[i].port # 8443
      /\ \A i, j \in DOMAIN ls : i # j => ls[i].port # ls[j].port
      /\ ls # <<>> /\ families # {}
  <2>1. ASSUME NEW i \in DOMAIN ls PROVE ls[i].port \in Nat
    BY <1>1, ListenPort DEF Inbounds, Fits
  <2>2. families # {} BY <1>1 DEF Inbounds, Fits, ListenOk
  <2>. QED BY <1>1, <2>1, <2>2 DEF Inbounds, Fits
<1>5. PortsDiffer(ls, s) BY <1>3, <1>4 DEF PortsDiffer
<1>6. Validate(s) BY <1>2, <1>3, <1>4, <1>5 DEF Validate
<1>. QED BY <1>6 DEF s

\* A stack of one VLESS listen, given by its port.
LEMMA TcpValid ==
    ASSUME NEW vlessTcp \in {443, 8443}, NEW hy2 \in {0, 443, 8443},
           NEW tt \in {0, 443, 8443}, NEW families, "vless" \in families,
           "hy2" \in families => hy2 # 0,
           "tt" \in families => tt # 0 /\ tt # vlessTcp /\ tt # hy2
    PROVE  Validate([families |-> families,
                     ports |-> PortsOf(<<>>, vlessTcp, hy2, tt)])
<1> DEFINE s == [families |-> families, ports |-> PortsOf(<<>>, vlessTcp, hy2, tt)]
           ls == <<VlessRealityGRPC(vlessTcp)>>
<1>1. DOMAIN ls = {1} /\ ls[1].port = vlessTcp /\ ListenOk(ls[1], families)
  BY VlessFits DEF Fits
<1>2. ResolveXray(s.ports) = ls BY DEF ResolveXray, PortsOf
<1>3. s.families = families /\ s.ports.hy2 = hy2 /\ s.ports.tt = tt
  BY DEF PortsOf
<1>4. ls # <<>> OBVIOUS
<1>. HIDE DEF s, ls
<1>5. PortsDiffer(ls, s) BY <1>1, <1>3 DEF PortsDiffer
<1>6. Validate(s) BY <1>1, <1>2, <1>3, <1>4, <1>5 DEF Validate
<1>. QED BY <1>6 DEF s

\* A stack without xray.
LEMMA UdpValid ==
    ASSUME NEW hy2 \in {0, 443}, NEW tt \in {0, 443}, NEW families,
           families \in {{"hy2"}, {"tt"}},
           "hy2" \in families => hy2 # 0, "tt" \in families => tt # 0
    PROVE  Validate([families |-> families, ports |-> PortsOf(<<>>, 0, hy2, tt)])
<1> DEFINE s == [families |-> families, ports |-> PortsOf(<<>>, 0, hy2, tt)]
<1>1. ResolveXray(s.ports) = <<>> BY DEF ResolveXray, PortsOf
<1>2. s.families = families /\ s.ports.hy2 = hy2 /\ s.ports.tt = tt
  BY DEF PortsOf
<1>. HIDE DEF s
<1>3. DOMAIN <<>> = {} OBVIOUS
<1>4. PortsDiffer(<<>>, s) BY <1>2, <1>3 DEF PortsDiffer
<1>5. families # {} /\ families \cap XrayFamilies = {} BY DEF XrayFamilies
<1>6. Validate(s) BY <1>1, <1>2, <1>3, <1>4, <1>5 DEF Validate
<1>. QED BY <1>6 DEF s

LEMMA PresetsValid == \A p \in DOMAIN DefaultPorts : Validate(Preset(p))
<1> DEFINE three == {"vless", "hy2", "tt"}
<1>. USE DEF Preset, FamiliesForPreset, DefaultPorts
<1>1. Preset("max") =
         [families |-> three, ports |-> PortsOf(<<>>, 443, 443, 8443)]
  OBVIOUS
<1>2. Preset("ttFirst") =
         [families |-> three, ports |-> PortsOf(<<>>, 8443, 8443, 443)]
  OBVIOUS
<1>3. Preset("stealth") =
         [families |-> {"vless"}, ports |-> PortsOf(<<>>, 443, 0, 0)]
  OBVIOUS
<1>4. Preset("hy2") =
         [families |-> {"hy2"}, ports |-> PortsOf(<<>>, 0, 443, 0)]
  OBVIOUS
<1>5. Preset("tt") = [families |-> {"tt"}, ports |-> PortsOf(<<>>, 0, 0, 443)]
  OBVIOUS
<1>6. Preset("stealthDual") =
         [families |-> {"vless"}, ports |-> PortsOf(Dual, 0, 0, 0)]
  OBVIOUS
<1>7. Preset("stealthFull") =
         [families |-> {"vless"}, ports |-> PortsOf(Full, 0, 0, 0)]
  OBVIOUS
<1>8. Preset("maxDual") =
         [families |-> three, ports |-> PortsOf(Dual, 0, 443, 8443)]
  OBVIOUS
<1>9. Preset("maxFull") =
         [families |-> three, ports |-> PortsOf(Full, 0, 443, 8443)]
  OBVIOUS
<1>10. Preset("review") =
         [families |-> AllFamilies, ports |-> PortsOf(Review, 0, 443, 8443)]
  OBVIOUS
<1>11. DOMAIN DefaultPorts =
         {"max", "ttFirst", "stealth", "hy2", "tt", "stealthDual",
          "stealthFull", "maxDual", "maxFull", "review"}
  OBVIOUS
<1>. HIDE DEF Preset, FamiliesForPreset, DefaultPorts
<1>12. /\ Validate(Preset("max"))
       /\ Validate(Preset("ttFirst"))
       /\ Validate(Preset("stealth"))
  BY <1>1, <1>2, <1>3, TcpValid
<1>13. Validate(Preset("hy2")) /\ Validate(Preset("tt"))
  BY <1>4, <1>5, UdpValid
<1>14. Validate(Preset("stealthDual")) /\ Validate(Preset("stealthFull"))
  BY <1>6, <1>7, ListValid, DualFits, FullFits
<1>15. Validate(Preset("maxDual")) /\ Validate(Preset("maxFull"))
  BY <1>8, <1>9, ListValid, DualFits, FullFits
<1>16. Validate(Preset("review"))
  BY <1>10, ListValid, ReviewFits
<1>. QED BY <1>11, <1>12, <1>13, <1>14, <1>15, <1>16

\* A preset has families of the plane only, so that a valid one has something
\* for the apply to run.
LEMMA PresetApplies ==
    ASSUME NEW p \in DOMAIN DefaultPorts, NEW host, host
    PROVE  MayApply(Preset(p), host)
<1> DEFINE s == Preset(p)
<1>1. Validate(s) BY PresetsValid
<1>2. s.families \subseteq AllFamilies
  BY DEF Preset, FamiliesForPreset, AllFamilies, XrayFamilies
<1>. HIDE DEF s
<1>3. WantXray(s) \/ s.families \cap {"hy2", "tt"} # {}
  BY <1>1, <1>2 DEF Validate, WantXray, AllFamilies
<1>4. MayApply(s, host) BY <1>3 DEF MayApply
<1>. QED BY <1>4 DEF s

\* On a node with a hostname every preset of the admin page passes Validate, the
\* checks of createNode, setNodeStack and applyStoredNode, and xrayconf.Build:
\* the defaults of stack.go contradict none of the three.
THEOREM PresetsAlwaysWork == Spec => []PresetsWork
<1> DEFINE PresetSpec == \E p \in DOMAIN DefaultPorts : spec = Preset(p)
<1>1. Init => PresetsWork BY DEF Init, PresetsWork
<1>2. Inv /\ PresetsWork /\ [Next]_vars => PresetsWork'
  <2> SUFFICES ASSUME Inv, PresetsWork, [Next]_vars, hostname', PresetSpec'
               PROVE  stage' \in {"sent", "saved", "put", "built"}
    BY DEF PresetsWork
  <2>1. hostname /\ PresetSpec
    BY DEF Next, SetNodeStack, CreateNode, ApplyStoredNode, Build, vars
  <2>2. stage \in {"sent", "saved", "put", "built"} BY <2>1 DEF PresetsWork
  <2>3. Validate(spec) /\ MayApply(spec, hostname)
    BY <2>1, PresetsValid, PresetApplies
  <2>4. CASE SetNodeStack BY <2>1, <2>3, <2>4 DEF SetNodeStack, MaySave
  <2>5. CASE CreateNode BY <2>1, <2>3, <2>5 DEF CreateNode, MayCreate
  <2>6. CASE ApplyStoredNode BY <2>3, <2>6 DEF ApplyStoredNode
  <2>7. CASE Build BY <2>3, <2>7, AcceptedListen DEF Build
  <2>8. CASE UNCHANGED vars BY <2>2, <2>8 DEF vars
  <2>. QED BY <2>4, <2>5, <2>6, <2>7, <2>8 DEF Next
<1>. QED BY <1>1, <1>2, Invariance, PTL DEF Spec
=============================================================================
