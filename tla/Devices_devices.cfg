SPECIFICATION Spec

CONSTANTS
    p1 = p1
    p2 = p2
    d1 = d1
    Phones = {p1, p2}
    Devices = {d1}
    DeviceOf <- SameDevice
    Sockets = {"socket"}
    Channels = {"qr"}
    MaxAttempts = 2
    MaxOpenOffers = 2
    Ttl = 2
    MaxOffers = 2
    MaxTime = 2
    MaxCounter = 2
    MaxHellos = 2
    MaxStops = 1

SYMMETRY Interchangeable

\* The clock of the model stops.
CHECK_DEADLOCK FALSE

INVARIANTS
    GrantsAreEarned
    HelloOnce
    ConnectedIsGranted
