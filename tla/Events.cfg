SPECIFICATION EventsSpec
CONSTANTS
    registered = registered
    SendMail = SendMail
    audit = audit
    Event = {registered}
    Listener = {SendMail, audit}
    Function = {audit}
    Retries <- Attempts
    ListenMap <- Mapping
    MaxSubscriptions = 2
    MaxDispatches = 2
INVARIANTS
    OnceAndForAll
    SettlesAfterRetries
PROPERTIES
    AllListenersFinish
CHECK_DEADLOCK FALSE
