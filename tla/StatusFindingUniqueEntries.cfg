SPECIFICATION Spec
CONSTANTS
    Procs = {p1, p2}
    Faulty = {p1, p2}
    Profiles = {A}
    Creds = {c1}
    ListSize = 2
    BitLen = 2
    MaxListID = 4
    MaxIssues = 3
    None = None
INVARIANT UniqueEntries
