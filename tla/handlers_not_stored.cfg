SPECIFICATION Spec
CONSTANTS
    Requests = {r1}
    Peers <- MCPeers
    NumThreads = 1
    Calls <- MCEveryCall
    Faults <- MCFileFaults
    NoRequest = NoRequest
    NoCall = NoCall
    NoReply = NoReply
INVARIANT ClaimedIsStored
