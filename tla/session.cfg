SPECIFICATION FairSpec
CONSTANTS
    Emails = {a, b}
    Blank = Blank
    NoUser = NoUser
    MaxCalls = 2
INVARIANTS
    TypeOK
    MainUserCurrent
    ProfilesComplete
PROPERTIES
    CallsEnd
