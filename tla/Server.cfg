\* Two UDP clients, one TCP connection slot reused for two connections,
\* routing ids up to 2: both UDP sessions can be live at once, and a TCP
\* connection can hold either id.
CONSTANTS
    UdpPeers = {201, 202}
    TcpPids = {0, 101}
    Conns = {c1}
    MaxAccepts = 2
    MAX_CLIENTS_ID = 2
    Timeout = 1
    None = None

SPECIFICATION Spec

INVARIANT TypeOK
PROPERTY IdleUdpSessionEvicted RegistryRefinement
