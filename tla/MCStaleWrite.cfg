SPECIFICATION Spec
CONSTANTS
    c1 = c1
    Controller = {c1}
    Capacity = 2
    MaxRevision = 3
PROPERTY StaleWriteIsRefreshed
