CONSTANTS
    ack = ack
    mail = mail
    watcher = watcher
    late = late
    early = early
    ahead = ahead
    None = None
    Torn = Torn
    Obj = {ack, mail, late, early, ahead}
    Bytes = {1, 2}
    Content <- ContentOf
    Kind <- KindOf
    Writers <- WritersOf
    From <- Offerers
    Age <- Ages
    Standing = {}
    Oversized <- HugeMail
    Streams = TRUE
    Linger = FALSE
    QueueCap = 1
    AnswerCap = 1
    MaxSessions = 2
    MaxPuts = 2
    MaxWire = 1
SPECIFICATION FairSpec
PROPERTY
    Converges
CHECK_DEADLOCK FALSE
