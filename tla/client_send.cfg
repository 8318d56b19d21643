SPECIFICATION FairSpec
CONSTANTS
    Screens = {s1, s2}
    home = home
    office = office
    typo = typo
    hello = hello
    photo = photo
    raw = raw
    safe = safe
    Servers <- MCServers
    BadServers = {typo}
    Encrypted = {office}
    Names <- MCNames
    sanitizeFilename <- MCsanitizeFilename
    NoName = NoName
    Configs <- MCConfigs
    MaxSends = 2
INVARIANTS TypeOK ButtonGuardsWorker TransmitsItsForm RowMatchesExchange
    HistoryComplete KnownServerReused RecordNeverRefused
PROPERTIES EventuallyEnabled ImplementsMessageLog
