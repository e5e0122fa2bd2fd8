\* Three steps over two recipes, every kind of pagination.
CONSTANTS
    geocode = geocode
    archive = archive
    Recipes <- Book
    Threading <- Walk
    Reads <- WalkReads
    Kinds <- AnyKind
    MaxPages = 2
    RetryLimit = 1
    MaxFaults = 2
    MaxChanges = 1
SPECIFICATION FairSpec
INVARIANTS
    TypeOK
    TableIsWhole
    BindingsAreFirstPages
PROPERTIES
    PullEnds
    SignalledBooksDeliver
