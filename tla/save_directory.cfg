SPECIFICATION FairSpec
CONSTANTS
    Requests = {r1, r2}
    Names <- MCNames
    MaxChunks = 2
    Jobs <- MCJobs
    Faults <- MCFaults
    NoRequest = NoRequest
    NoJob = NoJob
    Nobody = Nobody
INVARIANTS TypeOK TextFilesIntact StoredPartsKept NothingLeftOpen
PROPERTY EventuallyDone
