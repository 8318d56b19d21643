SPECIFICATION Spec
CONSTANTS
    Requests = {r1, r2, r3}
    Peers <- MCPeers
    NumThreads = 1
    Calls <- MCEveryCall
    Faults <- MCFileFaults
    NoRequest = NoRequest
    NoCall = NoCall
    NoReply = NoReply
INVARIANTS AnsweredIsRecorded ErrorLeavesNoFile
SYMMETRY MCSymmetry
