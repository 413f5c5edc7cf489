SPECIFICATION Spec
CONSTANTS
    p1 = p1
    p2 = p2
    p3 = p3
    c1 = c1
    Prompts = {p1, p2, p3}
    Commands = {c1}
    AutoCompact = TRUE
    MaxRetries = 2
CHECK_DEADLOCK FALSE
INVARIANTS
    QueueTypeOK
    OutcomeStaysVisible
    BoundedRecovery
PROPERTIES
    SentInTurn
    QueueDrains
