\* A client on either protocol that takes two menu actions (orders or
\* commands); over UDP the network may lose datagrams.
CONSTANTS
    Transports = {"udp", "tcp"}
    MAX_RETRIES = 3
    MaxRequests = 2

SPECIFICATION Spec

INVARIANT TypeOK
PROPERTY CommunicateReturns

\* The client waits in the menu once the user stops.
CHECK_DEADLOCK FALSE
