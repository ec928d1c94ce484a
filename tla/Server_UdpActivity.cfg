\* One UDP client keeps sending.
CONSTANTS
    UdpPeers = {201}
    TcpPids = {0}
    Conns = {}
    MaxAccepts = 0
    MAX_CLIENTS_ID = 5
    Timeout = 2
    None = None

SPECIFICATION Spec

PROPERTY ActiveUdpSessionKept

\* The server blocks in accept() and read() once the clients stop.
CHECK_DEADLOCK FALSE
