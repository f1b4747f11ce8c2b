SPECIFICATION StorageSpec
CONSTANTS
    outer = outer
    inner = inner
    whole = whole
    part = part
    NoOne = NoOne
    Artifacts = {outer, inner}
    Ancestors <- MCAncestors
    Jobs = {whole, part}
    Selection <- MCSelection
    Cancellable = {part}
    MaxEvents = 2
CHECK_DEADLOCK FALSE
INVARIANTS
    OneRemoverPerTree
    
PROPERTIES
    KeptIsNeverRemoved
    TombstoneIsFinal
