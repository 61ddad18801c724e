SPECIFICATION SpecPerProfileNoFaults
CONSTANTS
    Procs = {p1, p2}
    Faulty = {p1, p2}
    Profiles = {A, B}
    Creds = {c1}
    ListSize = 1
    BitLen = 1
    MaxListID = 5
    MaxIssues = 4
    None = None
INVARIANT WithinCapacity
