SPECIFICATION Spec
CONSTANTS
    c1 = c1
    Controller = {c1}
    Capacity = 1
    MaxRevision = 3
INVARIANT FeedInOrder
PROPERTIES
    ChangesAreHeard
    AcknowledgedIsShown
