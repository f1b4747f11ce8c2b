SPECIFICATION StorageSpec
CONSTANTS
    outer = outer
    inner = inner
    whole = whole
    part = part
    NoOne = NoOne
    Artifacts = {outer, inner}
    Ancestors <- MCAncestors
    Jobs = {part}
    Selection <- MCSelection
    Cancellable = {part}
    MaxEvents = 0
CHECK_DEADLOCK FALSE
PROPERTIES
    CancelledStaysCancelled
