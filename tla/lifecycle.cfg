SPECIFICATION FairSpec
CONSTANTS
    Requests = {r1, r2}
    Calls <- MCCalls
    CpuCounts <- MCCpuCounts
    MaxStarts = 2
    Faults <- FaultKinds
    NoCall = NoCall
    NoReply = NoReply
    NoRequest = NoRequest
INVARIANTS TypeOK ResourcesInOrder FilesMatchHistory LoggedTextsWhole
PROPERTIES ListedIsServed StopsOnSignal StartsWithoutAddresses
