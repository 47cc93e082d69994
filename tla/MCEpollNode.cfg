SPECIFICATION Spec
CONSTANTS
    NodeTypes = {"SOCKET", "FIFO_R", "FIFO_W", "FIFO_RW", "KQUEUE", "OTHER"}
    Requests <- AllRequests
INVARIANTS NodeAssertions FiltersCurrent NextWaitsReport
