SPECIFICATION Spec
CONSTANTS
    Requests = {r1, r2}
    Names <- MCNames
    MaxChunks = 2
    Jobs <- MCSameName
    Faults <- MCNoFaults
    NoRequest = NoRequest
    NoJob = NoJob
    Nobody = Nobody
INVARIANT FilesIntact
