SPECIFICATION Spec
CONSTANTS
    r1 = r1
    r2 = r2
    pA = pA
    pB = pB
    c1 = c1
    c2 = c2
    None = None
    Replicas = {r1, r2}
    ProfileIDs = {pA, pB}
    ClientIDs = {c1, c2}
    ParamSets <- MCParamSets
    MaxStarts <- MCMaxStarts
INVARIANT
    IssuedVerifiable
CHECK_DEADLOCK FALSE
