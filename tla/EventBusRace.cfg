SPECIFICATION Spec
CONSTANTS
    Publishers = {p1, p2}
    Subs = {s1, s2}
    Stoppers = {c1, c2}
    Topics = {T, U}
    BufferSize = 2
    MaxBatch = 2
    MaxEvents = 2
    Nil = Nil
SYMMETRY Symmetry
CHECK_DEADLOCK FALSE
INVARIANT TypeOK
INVARIANT NoSendOnClosed
INVARIANT StreamComplete
INVARIANT PublisherOrder
INVARIANT StoppedMeansClosed
