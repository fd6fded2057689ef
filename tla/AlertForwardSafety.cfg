\* Two request threads, firing and resolved groups of one name, every path of
\* the handler, one restart or one setback of the clock.
CONSTANTS
    hook = hook
    none = none
    cpu = cpu
    Webhooks = {hook}
    NoWebhook = none
    WebhookUrl = hook
    Names = {cpu}
    Handlers = {h1, h2}
    Requests <- MixedRequests
    DEBOUNCE_SECONDS = 1
    MAX_MERGE_COUNT = 1
    SEND_MAX_ATTEMPTS = 1
    SEND_REQUEUE_MAX_RETRIES = 1
    MaxRequests = 2
    MaxDisturbances = 1
    SilenceLinks = TRUE
    Unnamed = "Unknown"
SYMMETRY HandlerSymmetry
SPECIFICATION Spec
INVARIANTS
    TypeOK
    Conservation
    FlightIsOlder
    OldestWindowFirst
PROPERTIES
    ImplementsOutbox
\* The system really stops: requests are bounded, and an idle forwarder waits.
CHECK_DEADLOCK FALSE
