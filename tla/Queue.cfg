SPECIFICATION Spec
CONSTANTS
    welcome = welcome
    stray = stray
    late = late
    mail = mail
    other = other
    Job = {welcome, stray, late}
    QueueName = {mail, other}
    QueueOf <- Queues
    Tries <- Twice
    Registered = {welcome}
    Slots = 1
    MaxSignals = 1
    MaxDeaths = 1
    Batch <- Attempts
    Size <- Mails
    Continue <- Collecting
    Concurrency = 2
INVARIANTS
    BatchSendsOnce
    FailedAfterAllTries
PROPERTIES
    AddedJobsEnd
CHECK_DEADLOCK FALSE
