SPECIFICATION Spec
CONSTANTS
    Procs = {p1, p2}
    OpStates = {o1}
    PRC = "PermanentResidentCard"
    TemplateIDs = {"t1", "t2"}
    Scopes = {"openid", "profile"}
    DefaultScope = "openid"
    RespTypes = {"code", "token"}
    DefaultResp = "token"
    TTL = 2
    CodeLife = 1
    MaxTx = 2
    MaxCode = 2
    Time = {0, 1, 2, 3}
    CredTypes <- MCCredTypes
    Profiles <- MCProfiles
    InitRequests <- MCInitRequests
    AuthRequests <- MCAuthRequests
    PushRequests <- MCPushRequests
    None = None
CHECK_DEADLOCK FALSE
INVARIANT StoredCodeHolds
