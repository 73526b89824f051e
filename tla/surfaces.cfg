SPECIFICATION Spec
CONSTANTS
    w = w
    c = c
    d = d
    Tops = {w}
    Subs = {c}
    Parent <- ParentOf
    Buffers = {d, m}
    Shm = {m}
    Explicit = {c}
    Jobs = {j1}
    MaxWaits <- Waits
    Nothing = Nothing
INVARIANTS CountsSound NeverGoesBack NoReleaseLost
PROPERTIES NotReleasedInUse
CONSTRAINTS OneAttached OneWaits FewReferences
