------------------------------ MODULE MCNodeRow ------------------------------
(* NodeRow for TLC: one stack that needs a hostname, one that does not. *)
EXTENDS NodeRow, TLC

CONSTANTS h1, a1, a2, p1, p2

AnyAdmin == Permutations(Admins)

Stealth == Preset("stealth")
Both == [families |-> {"vless", "tt"}, ports |-> PortsOf(<<>>, 443, 0, 8443)]

MCSpecs == {Stealth, Both}

\* ... and another port for trusttunnel.
ThreeSpecs == MCSpecs \cup {Preset("ttFirst")}
=============================================================================
