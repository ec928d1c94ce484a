\* Two UDP clients and one TCP connection.  A command from a client that
\* holds a session must come back to that client.
CONSTANTS
    UdpPeers = {201, 202}
    TcpPids = {0, 101}
    Conns = {c1}
    MaxAccepts = 1
    MAX_CLIENTS_ID = 2
    Timeout = 1
    None = None

SPECIFICATION Spec

INVARIANT CommandAnsweredToSender

\* The server blocks in accept() and read() once the clients stop.
CHECK_DEADLOCK FALSE
