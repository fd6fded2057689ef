\* Groups of one key, of one to four alerts, in cards of two: chunks, the
\* attempts at a chunk, re-queueing, and that every alert ends.
CONSTANTS
    hook = hook
    none = none
    cpu = cpu
    Webhooks = {hook}
    NoWebhook = none
    WebhookUrl = hook
    Names = {cpu}
    Handlers = {h1}
    Requests <- CardRequests
    DEBOUNCE_SECONDS = 1
    MAX_MERGE_COUNT = 2
    SEND_MAX_ATTEMPTS = 2
    SEND_REQUEUE_MAX_RETRIES = 1
    MaxRequests = 2
    MaxDisturbances = 0
    SilenceLinks = TRUE
    Unnamed = "Unknown"
SPECIFICATION FairSpec
INVARIANTS
    SentWasCarded
    PostsBounded
PROPERTIES
    GroupStaysWhole
    DropsAreExhausted
    CardsContinue
    EveryAlertEndsMC
\* The system really stops: requests are bounded, and an idle forwarder waits.
CHECK_DEADLOCK FALSE
