SPECIFICATION Spec
CONSTANTS
    Keys = {a}
    NoToken = NoToken
    NoState = NoState
    NoView = NoView
    MaxChanges = 2
    MaxErrors = 1
    MaxInFlight = 2
INVARIANTS
    BooksExact
    SyncedIsTrue
    TokenMatchesKeys
