SPECIFICATION Spec
CONSTANTS
    NodeAlerts <- MCNodeAlerts
    UserAlerts <- MCUserAlerts
    ConfigHook = FALSE
    Every = 1
    Retry = 2
    Resend = 4
    MaxLag = 1
    MaxCrashes = 1
INVARIANTS TypeOK Prompt
PROPERTIES Paced
