\* TLS needs a certificate, and so a hostname.
SPECIFICATION Spec
CONSTANTS
    Specs <- TlsSpecs
INVARIANTS
    SavedIsApplied
CHECK_DEADLOCK FALSE
