SPECIFICATION SpecPerProfile
CONSTANTS
    Procs = {p1, p2}
    Faulty = {p1}
    Profiles = {A, B}
    Creds = {c1}
    ListSize = 1
    BitLen = 2
    MaxListID = 4
    MaxIssues = 3
    None = None
INVARIANT TypeOK
INVARIANT StatusListsSound
INVARIANT NoBitWithoutRequest
INVARIANT UniqueEntries
INVARIANT AckedRevocationHolds
PROPERTY ImplementsRegistry
PROPERTY IssueCompletes
PROPERTY RevocationCompletes
