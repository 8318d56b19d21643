SPECIFICATION FairSpec
CONSTANTS
    Requests = {r1, r2}
    Peers <- MCPeers
    NumThreads = 2
    Calls <- MCEveryCall
    Faults <- MCAllFaults
    NoRequest = NoRequest
    NoCall = NoCall
    NoReply = NoReply
INVARIANTS TypeOK UniquePeer RowsAttributed RowMatchesReply OneRowPerRequest
PROPERTIES PersistBeforeReply EventuallyAnswered ImplementsMessageLog
