SPECIFICATION FairSpec
CONSTANTS
    Queries = {q1, q2}
    Listeners = {l1, l2, g1}
    Patient = {g1}
    MaxRestarts = 1
    NoView = NoView
    NoListener = NoListener
INVARIANTS
    LayersAgree
    NobodyForgotten
PROPERTIES
    FirstEvent
