\* Two TCP clients with different PIDs connect at once.
CONSTANTS
    UdpPeers = {}
    TcpPids = {0, 101, 102}
    Conns = {c1, c2}
    MaxAccepts = 2
    MAX_CLIENTS_ID = 5
    Timeout = 2
    None = None

SPECIFICATION Spec

INVARIANT UniqueRoutingIds

\* The server blocks in accept() and read() once the clients stop.
CHECK_DEADLOCK FALSE
