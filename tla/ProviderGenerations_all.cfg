CONSTANTS
    Requests = {request1}
    Admins = {admin1, admin2}
    Closers = {closer1, closer2}
    MaxRuntimes = 3
    None = None
SPECIFICATION FairSpec
INVARIANTS TypeOK NeverClosedInUse RuntimesAreOwned ClosedWhenDue
PROPERTIES NothingStartsAfterClosing ImplementsLeases CloseReturns
