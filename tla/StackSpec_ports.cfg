\* Every way to fill in a listen.  The machine ends when the stack is built or
\* refused.
SPECIFICATION Spec
CONSTANTS
    Specs <- MCSpecs
INVARIANTS
    AcceptedIsBuilt
    SocketsDistinct
    PresetsWork
CHECK_DEADLOCK FALSE
