SPECIFICATION FairSpec
CONSTANTS
    Publishers = {p1, p2}
    Subs = {s1, s2}
    Stoppers = {c1, c2}
    Topics = {T}
    BufferSize = 1
    MaxBatch = 1
    MaxEvents = 1
    Nil = Nil
CHECK_DEADLOCK FALSE
PROPERTY StopCompletes
PROPERTY ListenersEnd
PROPERTY EventDelivered
