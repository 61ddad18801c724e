SPECIFICATION Spec
CONSTANTS
    Publishers = {p1}
    Subs = {s1, s2}
    Stoppers = {c1}
    Topics = {T}
    BufferSize = 1
    MaxBatch = 1
    MaxEvents = 1
    Nil = Nil
CHECK_DEADLOCK FALSE
INVARIANT NoPanic
