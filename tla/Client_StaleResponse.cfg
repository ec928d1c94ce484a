\* A TCP client sends two orders.
CONSTANTS
    Transports = {"tcp"}
    MAX_RETRIES = 3
    MaxRequests = 2

SPECIFICATION Spec

INVARIANT ResponseMatchesOrder

\* The client waits in the menu once the user stops.
CHECK_DEADLOCK FALSE
