\* Tokens through time, restarts and changes of the secret.
CONSTANTS
    TicksPerSecond = 3
    Keys = {k1, k2}
    NoKey = NoKey
    TTLs <- SomeTTLs
    Unset = Unset
    Garbled = Garbled
    DefaultTTL = 6
    Subjects = {member}
    NoToken = NoToken
    MaxTime = 8
    MaxTokens = 2
SPECIFICATION TokenSpec
INVARIANTS
    TokenTypeOK
    LifeWithinASecond
    AdmittedFresh
