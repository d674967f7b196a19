SPECIFICATION FairSpec
CONSTANTS
    Keys = {a}
    NoToken = NoToken
    NoState = NoState
    NoView = NoView
    MaxChanges = 1
    MaxErrors = 0
    MaxInFlight = 2
PROPERTIES
    CatchesUp
