SPECIFICATION Spec
CONSTANTS
    Procs = {p1}
    DIDs <- MCDIDs
    VMs <- MCVMs
    DidOf <- MCDidOf
    KeyDIDs = {"K", "H"}
    SovDIDs = {}
    InitDocs <- MCInitDocs
    Updates <- MCUpdates
    Bindings = {"b"}
    Lists <- MCLists
    ListInfo <- MCListInfo
    BitLen = 2
    Hubs = {"A"}
    HubReplies <- MCHubReplies
    Issuers <- MCIssuers
    KmsKeys = {"a", "kAlias"}
    Foreign <- MCForeign
    Presentations <- MCPresentations
    Checks <- MCChecks
    MaxIssued = 2
    MaxCreds = 2
    MaxRequests = 1
    None = None
CHECK_DEADLOCK FALSE
INVARIANT TypeOK
INVARIANT IssuerSigned
INVARIANT RevokedReported
INVARIANT IssuedAccepted
