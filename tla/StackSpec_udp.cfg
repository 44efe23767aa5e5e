\* Shadowsocks takes UDP too.
SPECIFICATION Spec
CONSTANTS
    Specs <- ShadowSpecs
INVARIANTS
    SocketsDistinct
CHECK_DEADLOCK FALSE
