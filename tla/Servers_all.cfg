SPECIFICATION ServersSpec
CONSTANTS
    c1 = c1
    c2 = c2
    c3 = c3
    Clients <- ThreeClients
    MaxThreads = 2
    RaisesOnClose = TRUE
    MaxStops = 1
    MaxString = 9
    MaxImage = 4
    Messages <- AllMessages
    MaxSent = 2
    Senders = {"tool", "results", "publisher", "camera", "panel"}
INVARIANTS HandlersAreCounted StreamStaysAligned
PROPERTIES HandlersEnd SentIsServed
CHECK_DEADLOCK FALSE
