\* Two TCP connections, each with its handler thread.
CONSTANTS
    Handlers  = {h1, h2}
    TcpHandlers = {h1, h2}
    Orders    <- MCOrders
    InitStock <- MCInitStock
    MaxOrders = 2
    NoOrder   = NoOrder
SPECIFICATION Spec
\* The server blocks in read() once the peers stop sending.
CHECK_DEADLOCK FALSE
INVARIANT NoOversell
