SPECIFICATION Spec
CONSTANTS
    Screens = {s1, s2}
    home = home
    office = office
    typo = typo
    hello = hello
    photo = photo
    raw = raw
    safe = safe
    Servers <- MCServers
    BadServers = {typo}
    Encrypted = {office}
    Names <- MCNames
    sanitizeFilename <- MCsanitizeFilename
    NoName = NoName
    Configs <- MCConfigs
    MaxSends = 1
INVARIANT SuccessIsWhatWasTold
