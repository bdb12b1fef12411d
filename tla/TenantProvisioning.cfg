SPECIFICATION Spec
CONSTANTS
    Calls = {c1, c2, c3}
    Root = Root
    Slugs = {a, b}
    RootSlug = RootSlug
    NoNet = NoNet
    MaxFaults = 1
    MaxCrashes = 1
SYMMETRY Symmetry
INVARIANTS
    OneRowPerSlug
    NoNetworkForgotten
    RowKeepsNetwork
    AnswerIsTrue
CHECK_DEADLOCK FALSE
