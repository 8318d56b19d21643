SPECIFICATION Spec
CONSTANTS
    Requests = {r1, r2}
    Peers <- MCPeers
    NumThreads = 2
    Calls <- MCSendCalls
    Faults <- MCNoFaults
    NoRequest = NoRequest
    NoCall = NoCall
    NoReply = NoReply
INVARIANT AnsweredIsRecorded
