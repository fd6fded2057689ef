\* A group that is still being appended to is due all the same.
CONSTANTS
    hook = hook
    none = none
    cpu = cpu
    Webhooks = {hook}
    NoWebhook = none
    WebhookUrl = hook
    Names = {cpu}
    Handlers = {h1}
    Requests <- SingleRequests
    DEBOUNCE_SECONDS = 1
    MAX_MERGE_COUNT = 1
    SEND_MAX_ATTEMPTS = 1
    SEND_REQUEUE_MAX_RETRIES = 1
    MaxRequests = 2
    MaxDisturbances = 0
    SilenceLinks = TRUE
    Unnamed = "Unknown"
SPECIFICATION Spec
PROPERTIES
    UpdateRestartsWindow
\* The system really stops: requests are bounded, and an idle forwarder waits.
CHECK_DEADLOCK FALSE
