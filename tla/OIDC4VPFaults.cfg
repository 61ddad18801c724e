SPECIFICATION Spec
CONSTANTS
    Procs = {p1, p2}
    A = A
    B = B
    Profiles = {A, B}
    Orgs = {"orgA", "orgB"}
    OrgOf <- MCOrgOf
    Ready = {B}
    BindSubject = {B}
    Nonces = {n1, n2}
    Claims = {c1, c2}
    LifeTime = 1
    MaxRetries = 2
    MaxTx = 2
    Time = {0, 2}
    MaxFetch = 2
    None = None
SYMMETRY Symmetry
CHECK_DEADLOCK FALSE
INVARIANT TypeOK
INVARIANT OwnPresentation
INVARIANT NonceUsableInTime
INVARIANT EventsInOrder
PROPERTY ImplementsInteraction
PROPERTY ClaimsFinal
