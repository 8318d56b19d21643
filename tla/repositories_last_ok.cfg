SPECIFICATION Spec
CONSTANTS
    Ips <- MCIps
    EmptyIp <- MCEmptyIp
    NULL = NULL
    Arguments <- MCHistoryArguments
    AskedIds <- MCAskedIds
    MaxId <- MCMaxId
INVARIANT LastSuccessfulSucceeded
