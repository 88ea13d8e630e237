SPECIFICATION FairSpec
CONSTANTS
    MaxAddr = 14
    HashSize = 65536
    NumberWidth = 10
    Precision = 2
    MaxFaults = 1
    StringToken <- MCStringToken
    OtherToken <- MCOtherToken
    Lenient <- MCLenient
    Unread <- MCUnread
    Strings <- MCStrings
    Keys <- MCKeys
    Numbers <- MCNumbers
    MaxCalls = 5
    Foreign <- MCForeign
    Spelling <- MCSpelling
    Follow <- MCFollow
    TokenMax = 4
INVARIANTS
    TypeOK
    NoDangling
    NothingLost
    EqualsSame
    ReadsBack
    NoHalfValue
    LossShows
    AcceptsJson
PROPERTIES
    CallsReturn
