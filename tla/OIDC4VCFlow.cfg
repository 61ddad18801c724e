SPECIFICATION Spec
CONSTANTS
    Procs = {p1, p2}
    OpStates = {o1, o2}
    PRC = "PermanentResidentCard"
    TemplateIDs = {"t1", "t2"}
    Scopes = {"openid", "profile"}
    DefaultScope = "openid"
    RespTypes = {"code", "token"}
    DefaultResp = "token"
    TTL = 1
    CodeLife = 0
    MaxTx = 2
    MaxCode = 2
    Time = {0, 2}
    CredTypes <- MCCredTypes
    Profiles <- MCProfiles
    InitRequests <- MCInitRequests
    AuthRequests <- MCAuthRequests
    PushRequests <- MCPushRequests
    None = None
SYMMETRY Symmetry
CHECK_DEADLOCK FALSE
INVARIANT TypeOK
INVARIANT TokenAuthorized
INVARIANT SpentCodeGone
INVARIANT OneUsableCode
INVARIANT OneTransactionPerOpState
INVARIANT DetailsMatchTemplate
PROPERTY TransactionFate
