SPECIFICATION Spec
CONSTANTS
    Ips <- MCIps
    EmptyIp <- MCEmptyIp
    NULL = NULL
    Arguments <- MCArguments
    AskedIds <- MCAskedIds
    MaxId <- MCMaxId
INVARIANTS TypeOK ForeignKeysHold
PROPERTIES IdsNeverReused FoundIsReturned RefusedHasNoIp
