\* o's rerouted work request, while b's connection breaks.
CONSTANTS
    Clients <- MCClients
    ClientType <- MCClientType
    Forwards <- MCForwards
    MayDrop = {b}
    Connected = {o, b, l}
    CU = "COMPUTE_UNIT"
    MONITOR = "MONITOR_UNIT"
    NoFwd = NoFwd
    o = o  b = b  l = l
SPECIFICATION Spec
PROPERTY ForwardDelivered
\* After the forward the router only waits for input.
CHECK_DEADLOCK FALSE
