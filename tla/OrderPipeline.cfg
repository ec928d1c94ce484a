\* One handler thread: the requests of one connection, processed in order.
CONSTANTS
    Handlers  = {h1}
    TcpHandlers = {h1}
    Orders    <- MCOrders
    InitStock <- MCInitStock
    MaxOrders = 5
    NoOrder   = NoOrder
SPECIFICATION Spec
\* The server blocks in read() once the peers stop sending.
CHECK_DEADLOCK FALSE
INVARIANT TypeOK
INVARIANT NoOversell
INVARIANT WarehouseWithinCapacity
INVARIANT LedgerMatchesOrders
INVARIANT TransferMovesQuantity
PROPERTY StoreRefinement
