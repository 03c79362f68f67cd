SPECIFICATION FairSpec
CONSTANTS
    j1 = j1
    j2 = j2
    d = d
    e = e
    f = f
    Jobs = {j1, j2}
    Direct = {d}
    Webhook = {j1}
    TicketOf <- TwoTickets
    Workers = 2
    Stop = Stop
    NoWork = NoWork
    MaxFaults = 1
CHECK_DEADLOCK FALSE
INVARIANTS
    JobsAccounted
    FinishedIsAnswered
    RunningIsStreamed
    TicketNamesItsReply
PROPERTIES
    ImplementsLifecycle
    ImplementsDelivery
    JobsSettle
