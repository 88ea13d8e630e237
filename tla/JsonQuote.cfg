SPECIFICATION FairSpec
CONSTANTS
    MaxAddr = 14
    HashSize = 65536
    NumberWidth = 10
    Precision = 2
    MaxFaults = 0
    StringToken <- MCStringToken
    OtherToken <- MCOtherToken
    Lenient <- MCLenient
    Unread <- MCUnread
    Strings <- MCEscapable
    Keys <- MCKeys
    Numbers <- MCNumbers
    MaxCalls = 1
    Foreign <- MCForeign
    Spelling <- MCSpelling
    Follow <- MCFollow
    TokenMax = 1
INVARIANTS
    EscapesRead
