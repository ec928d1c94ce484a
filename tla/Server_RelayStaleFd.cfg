\* Two TCP connection slots: a registered client disconnects while a
\* second connection is accepted and relays an order.
CONSTANTS
    UdpPeers = {}
    TcpPids = {0, 101}
    Conns = {c1, c2}
    MaxAccepts = 2
    MAX_CLIENTS_ID = 1
    Timeout = 1
    None = None

SPECIFICATION Spec

INVARIANT ForwardReachesIdHolder

\* The server blocks in accept() and read() once the clients stop.
CHECK_DEADLOCK FALSE
