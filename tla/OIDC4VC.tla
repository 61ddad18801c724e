------------------------------- MODULE OIDC4VC -------------------------------
(***************************************************************************)
(* OIDC4VC issuance with the authorization code flow.                      *)
(*                                                                         *)
(* An issuer initiates an issuance: a transaction document keyed by the    *)
(* op_state.  A wallet sends an authorization request to the public        *)
(* endpoint, which has the issuer's interaction API record the             *)
(* authorization details in the transaction, creates an authorization code *)
(* (with its PKCE session), keeps the answer under the op_state and sends  *)
(* the user to the issuer's own OAuth provider.  The provider's redirect   *)
(* brings the provider's code, which is to be stored in the transaction,   *)
(* and releases the kept answer to the wallet, which exchanges its code    *)
(* for an access token.  The redirect endpoint is public: it takes the     *)
(* op_state and the code of whoever calls it, so nothing here depends on a *)
(* user having been at the provider.                                       *)
(*                                                                         *)
(* One action is one call of a store with the local computation around it. *)
(* The public endpoint calls the interaction API of the same server over   *)
(* HTTP; its error answers are kept where the code looks at them.          *)
(***************************************************************************)
EXTENDS Naturals, Sequences

CONSTANTS
    Procs,         \* goroutines that serve requests
    OpStates,      \* op_state values
    CredTypes,     \* credential types, up to letter case
    PRC,           \* "PermanentResidentCard", the type OidcAuthorize asks for
    TemplateIDs,   \* identifiers of credential templates
    Scopes,        \* OAuth scopes
    DefaultScope,  \* "openid"
    RespTypes,     \* OAuth response types
    DefaultResp,   \* defaultResponseType: "token"
    Profiles,      \* issuer profiles
    InitRequests,  \* the initiation requests of issuers
    AuthRequests,  \* the authorization requests of wallets
    PushRequests,  \* the bodies of pushed authorization details
    TTL,           \* defaultExpiration, defaultTTL: 24 hours
    CodeLife,      \* AuthorizeCodeLifespan: 30 minutes
    MaxTx,         \* bound of the model: transactions
    MaxCode,       \* bound of the model: authorization codes
    Time,          \* bound of the model: the times the clock shows, from 0 on
    None

\* Internal format names, and the names the REST API uses for them.
Format == {"jwt", "ldp"}
WireFormat == {"jwt_vc", "ldp_vc"}

Template == [id : TemplateIDs \cup {None}, type : CredTypes]

\* Profile fields the flow depends on: format is None without VC options.
Profile == [active : BOOLEAN, oidc : BOOLEAN, format : Format \cup {None},
            templates : Seq(Template)]

\* A missing op_state, template identifier or response type is None.
InitRequest == [profile : Profile, template : TemplateIDs \cup {None},
                opState : OpStates \cup {None}, rt : RespTypes \cup {None},
                scope : SUBSET Scopes]

AuthRequest == [opState : OpStates, rt : RespTypes, scope : SUBSET Scopes]

\* Authorization details on the wire: openid says whether their type is
\* "openid_credential"; the format may be missing.
WireDetails == [openid : BOOLEAN, type : CredTypes,
                format : WireFormat \cup Format \cup {"", None}]

\* par: the details come through the public PAR endpoint.
PushRequest == [opState : OpStates, par : BOOLEAN, details : WireDetails]

ASSUME VCAssumption ==
    /\ PRC \in CredTypes
    /\ DefaultScope \in Scopes
    /\ DefaultResp \in RespTypes
    /\ Profiles \subseteq Profile
    /\ InitRequests \subseteq InitRequest
    /\ \A r \in InitRequests : r.profile \in Profiles
    /\ AuthRequests \subseteq AuthRequest
    /\ PushRequests \subseteq PushRequest
    /\ TTL \in Nat
    /\ CodeLife \in Nat
    /\ CodeLife < TTL
    /\ MaxTx \in Nat
    /\ MaxCode \in Nat
    /\ Time \subseteq Nat
    /\ 0 \in Time

TxIDs == 1..MaxTx
Codes == 1..MaxCode

Details == [type : CredTypes, format : Format \cup {""}]

ASSUME VCNoneAssumption ==
    /\ None \notin OpStates \cup CredTypes \cup TemplateIDs \cup RespTypes
    /\ None \notin Format \cup WireFormat \cup {""}
    /\ None \notin Details

VARIABLES
    docs,       \* docs[id]: the transaction document, None when there is none
    states,     \* states[o]: the kept answer of the authorization endpoint
    codes,      \* codes[c]: the authorization code session
    pkce,       \* pkce[c]: the PKCE session of the code
    tokens,     \* access token sessions
    now,        \* the clock
    req,        \* the request each process is serving
    created,    \* history: number of transactions created
    coded,      \* history: number of codes created
    initiated,  \* history: what issuers initiated transactions for
    disclosed,  \* history: codes released: <<code, op_state of the redirect>>
    stored      \* history: transactions whose provider code was acknowledged

dbVars == <<docs, states, codes, pkce, tokens, now>>
histVars == <<created, coded, initiated, disclosed, stored>>
vars == <<dbVars, req, histVars>>

\* What an issuer initiates a transaction for.
Terms == [opState : OpStates \cup {None}, type : CredTypes, format : Format,
          rt : RespTypes, scope : SUBSET Scopes]

TermsOf(d) == [opState |-> d.opState, type |-> d.type, format |-> d.format,
               rt |-> d.rt, scope |-> d.scope]

\* oidc4vc.TransactionData: what the service works on.  code says whether it
\* has the provider's code.
Data == [opState : OpStates \cup {None}, type : CredTypes, format : Format,
         rt : RespTypes, scope : SUBSET Scopes,
         ad : Details \cup {None}, code : BOOLEAN]

\* mongoDocument
Document == [opState : OpStates \cup {None}, type : CredTypes, format : Format,
             rt : RespTypes, scope : SUBSET Scopes, ad : Details \cup {None},
             expireAt : Nat]

\* mapTransactionDataToMongoDocument: the document has no field for the
\* provider's code (nor for its token).
ToDocument(d) == [opState |-> d.opState, type |-> d.type, format |-> d.format,
                  rt |-> d.rt, scope |-> d.scope, ad |-> d.ad,
                  expireAt |-> now + TTL]

\* What FindByOpState makes of a document.
FromDocument(d) == [opState |-> d.opState, type |-> d.type, format |-> d.format,
                    rt |-> d.rt, scope |-> d.scope, ad |-> d.ad, code |-> FALSE]

\* A document read after its expiry, before the TTL index removed it, does not
\* count.
Live(d) == d # None /\ now <= d.expireAt

\* Sessions of the OAuth store: at is when the request was made.
Session == [opState : OpStates, at : Time, expireAt : Nat]

NewSession(o) == [opState |-> o, at |-> now, expireAt |-> now + TTL]

AuthorizeState == [code : Codes, expireAt : Nat]

Token == [code : Codes, opState : OpStates]

PC == {"update", "respond", "saveState", "storeFind", "disclose", "pkceGet",
       "pkceDelete", "exchange", "access", "invalidate", "createToken"}

\* The locals of a request: what it does, the op_state, the code, the
\* identifier of the transaction read and the copy of its data.
Kind == {"authorize", "push", "store", "token"}

Request == [kind : Kind, pc : PC, opState : OpStates, code : 0..MaxCode,
            id : 0..MaxTx, data : Data \cup {None}]

Req(k, pc, o, c, id, d) ==
    [kind |-> k, pc |-> pc, opState |-> o, code |-> c, id |-> id, data |-> d]

Idle == [kind |-> "none", pc |-> "idle", opState |-> None, code |-> 0, id |-> 0,
         data |-> None]

TypeOK ==
    /\ docs \in [TxIDs -> Document \cup {None}]
    /\ states \in [OpStates -> AuthorizeState \cup {None}]
    /\ codes \in [Codes -> Session \cup {None}]
    /\ pkce \in [Codes -> Session \cup {None}]
    /\ tokens \subseteq Token
    /\ now \in Time
    /\ req \in [Procs -> Request \cup {Idle}]
    /\ created \in 0..MaxTx
    /\ coded \in 0..MaxCode
    /\ initiated \subseteq Terms
    /\ disclosed \subseteq Codes \X OpStates
    /\ stored \subseteq TxIDs

Init ==
    /\ docs = [i \in TxIDs |-> None]
    /\ states = [o \in OpStates |-> None]
    /\ codes = [c \in Codes |-> None]
    /\ pkce = [c \in Codes |-> None]
    /\ tokens = {}
    /\ now = 0
    /\ req = [p \in Procs |-> Idle]
    /\ created = 0
    /\ coded = 0
    /\ initiated = {}
    /\ disclosed = {}
    /\ stored = {}

Become(p, r) == req' = [req EXCEPT ![p] = r]
Finish(p) == Become(p, Idle)

-----------------------------------------------------------------------------
\* The transactions of an op_state that count (the index on opState is unique).
Found(o) == {i \in TxIDs : Live(docs[i]) /\ docs[i].opState = o}

\* The template with the requested identifier; None when the profile has none,
\* when a choice is needed and not made, and when no identifier matches.
findCredentialTemplate(ts, id) ==
    LET matches == {i \in DOMAIN ts : ts[i].id = id}
    IN IF \/ Len(ts) = 0
          \/ ts[1].id = None
          \/ Len(ts) > 1 /\ id = None
          \/ matches = {}
       THEN None
       ELSE ts[CHOOSE i \in matches : \A j \in matches : i <= j]

\* Mutant of UniqueOpState: only documents that count are compared.
UniqueOpStateLive(o) == Found(o) = {}

\* The unique index: no document, expired or not, has the op_state; documents
\* without one are equal to it.
UniqueOpState(o) == \A i \in TxIDs : docs[i] # None => docs[i].opState # o

\* Mutant of ResponseType: no default.
ResponseTypeAsGiven(r) == r.rt

\* Defaults of InitiateIssuance.
ResponseType(r) == IF r.rt = None THEN DefaultResp ELSE r.rt
Scope(r) == IF r.scope = {} THEN {DefaultScope} ELSE r.scope

\* Create: the document is inserted unless the op_state is taken.
Create(d) ==
    /\ UniqueOpState(d.opState)
    /\ created < MaxTx
    /\ created' = created + 1
    /\ initiated' = initiated \cup {TermsOf(d)}
    /\ docs' = [docs EXCEPT ![created + 1] = ToDocument(d)]

\* InitiateIssuance of the service: defaults are filled in and the transaction
\* is created.
InitiateIssuance(r) ==
    LET t == findCredentialTemplate(r.profile.templates, r.template)
    IN /\ r.profile.active
       /\ r.profile.oidc
       /\ r.profile.format # None
       /\ t # None
       /\ Create([opState |-> r.opState, type |-> t.type, format |-> r.profile.format,
                  rt |-> ResponseType(r), scope |-> Scope(r), ad |-> None])

\* POST /issuer/profiles/{profileID}/interactions/initiate-oidc by a user of
\* the profile's organization.  Any other call ends without an effect.
InitiateCredentialIssuance(r) ==
    /\ InitiateIssuance(r)
    /\ UNCHANGED <<states, codes, pkce, tokens, now, req, coded, disclosed, stored>>

-----------------------------------------------------------------------------
\* ValidateVCFormat: the internal name of a format of the REST API.
ValidateVCFormat(f) == IF f = "jwt_vc" THEN "jwt" ELSE "ldp"

\* ValidateAuthorizationDetails: which details are refused, and what is made
\* of the others.
ValidDetails(d) == d.openid /\ d.format \in WireFormat \cup {None}

MappedDetails(d) ==
    [type |-> d.type,
     format |-> IF d.format = None THEN "" ELSE ValidateVCFormat(d.format)]

\* What the PAR endpoint sends on: the internal name of the format.
Forwarded(d) == [openid |-> d.openid, type |-> d.type, format |-> MappedDetails(d).format]

Received(r) == IF r.par THEN Forwarded(r.details) ELSE r.details

\* The checks of updateAuthorizationDetails.
AcceptDetails(ad, i) ==
    /\ ad.type = docs[i].type
    /\ ad.format = docs[i].format

\* The transaction read, with new details.
WithDetails(ad, i) == [FromDocument(docs[i]) EXCEPT !.ad = ad]

\* PushAuthorizationDetails of the service: the transaction is read and takes
\* the details.
PushAuthorizationDetails(p, o, ad) ==
    \E i \in Found(o) :
        /\ AcceptDetails(ad, i)
        /\ Become(p, Req("push", "update", o, 0, i, WithDetails(ad, i)))

\* POST /issuer/interactions/push-authorization-request, called directly or by
\* POST /oidc/par, which has validated the details itself.
PushedAuthorization(p, r) ==
    /\ req[p] = Idle
    /\ ValidDetails(r.details)
    /\ ValidDetails(Received(r))
    /\ PushAuthorizationDetails(p, r.opState, MappedDetails(Received(r)))
    /\ UNCHANGED <<dbVars, histVars>>

\* The details of an authorization request are not the wallet's: the endpoint
\* makes them up.
AuthorizeDetails == [openid |-> TRUE, type |-> PRC, format |-> "ldp_vc"]

\* PrepareClaimDataAuthorizationRequest: the response type is the
\* transaction's, the scopes are among its scopes, and the details match.
PrepareClaimDataAuthorizationRequest(p, r, ad) ==
    \E i \in Found(r.opState) :
        /\ r.rt = docs[i].rt
        /\ r.scope \subseteq docs[i].scope
        /\ AcceptDetails(ad, i)
        /\ Become(p, Req("authorize", "update", r.opState, 0, i, WithDetails(ad, i)))

\* POST /issuer/interactions/prepare-claim-data-authz-request
PrepareAuthorizationRequest(p, r, d) ==
    /\ ValidDetails(d)
    /\ PrepareClaimDataAuthorizationRequest(p, r, MappedDetails(d))

\* GET /oidc/authorize up to the read of the transaction.
OidcAuthorize(p, r) ==
    /\ req[p] = Idle
    /\ PrepareAuthorizationRequest(p, r, AuthorizeDetails)
    /\ UNCHANGED <<dbVars, histVars>>

\* Mutant of UpdateDocument: a missing document is created again.
UpdateDocumentUpsert(i, d) == docs' = [docs EXCEPT ![i] = ToDocument(d)]

\* Mutant of UpdateDocument: the details are set in the transaction that has
\* the op_state now.
UpdateDocumentByOpState(i, d) ==
    docs' = [j \in TxIDs |-> IF docs[j] = None \/ docs[j].opState # d.opState THEN docs[j]
                             ELSE [docs[j] EXCEPT !.ad = d.ad]]

\* UpdateByID with $set: the whole document is replaced and its expiry renewed;
\* a document that is gone stays gone, without an error.
UpdateDocument(i, d) ==
    docs' = IF docs[i] = None THEN docs ELSE [docs EXCEPT ![i] = ToDocument(d)]

\* What follows the update of the transaction.
AfterUpdate(r) ==
    IF r.kind = "push" THEN Idle
    ELSE Req(r.kind,
             CASE r.kind = "authorize" -> "respond"
               [] r.kind = "store" -> "disclose"
               [] r.kind = "token" -> "access",
             r.opState, r.code, 0, None)

UpdateTx(p) ==
    /\ req[p].pc = "update"
    /\ UpdateDocument(req[p].id, req[p].data)
    /\ stored' = IF req[p].kind = "store" THEN stored \cup {req[p].id} ELSE stored
    /\ Become(p, AfterUpdate(req[p]))
    /\ UNCHANGED <<states, codes, pkce, tokens, now, created, coded, initiated, disclosed>>

\* NewAuthorizeResponse (fosite): a new code, with the op_state in its session.
NewAuthorizeResponse(p) ==
    /\ req[p].pc = "respond"
    /\ coded < MaxCode
    /\ coded' = coded + 1
    /\ codes' = [codes EXCEPT ![coded + 1] = NewSession(req[p].opState)]
    /\ pkce' = [pkce EXCEPT ![coded + 1] = NewSession(req[p].opState)]
    /\ Become(p, Req("authorize", "saveState", req[p].opState, coded + 1, 0, None))
    /\ UNCHANGED <<docs, states, tokens, now, created, initiated, disclosed,
                   stored>>

\* The kept answer of op_state o.
KeepAnswer(o, c) ==
    states' = [states EXCEPT ![o] = [code |-> c, expireAt |-> now + TTL]]

\* Mutant of SaveAuthorizeState: an earlier answer is replaced.
SaveAuthorizeStateUpsert(p) ==
    /\ req[p].pc = "saveState"
    /\ KeepAnswer(req[p].opState, req[p].code)
    /\ Finish(p)
    /\ UNCHANGED <<docs, codes, pkce, tokens, now, histVars>>

\* SaveAuthorizeState: the insert fails while an answer of the op_state is
\* there.  Then the user is sent to the issuer's provider.
SaveAuthorizeState(p) ==
    /\ req[p].pc = "saveState"
    /\ \/ /\ states[req[p].opState] = None
          /\ KeepAnswer(req[p].opState, req[p].code)
       \/ /\ states[req[p].opState] # None
          /\ UNCHANGED states
    /\ Finish(p)
    /\ UNCHANGED <<docs, codes, pkce, tokens, now, histVars>>

-----------------------------------------------------------------------------
\* GetAuthorizeState: the answer kept for the op_state counts.
GetAuthorizeState(o) == Live(states[o])

\* Mutant of OidcRedirect: an answer kept under another op_state is taken.
OidcRedirectAny(p, o) ==
    /\ req[p] = Idle
    /\ \E u \in OpStates :
          /\ GetAuthorizeState(u)
          /\ Become(p, Req("store", "storeFind", o, states[u].code, 0, None))
    /\ UNCHANGED <<dbVars, histVars>>

\* GET /oidc/redirect, with any op_state and code, by anyone, as often as they
\* like: the answer kept for the op_state is read.
OidcRedirect(p, o) ==
    /\ req[p] = Idle
    /\ GetAuthorizeState(o)
    /\ Become(p, Req("store", "storeFind", o, states[o].code, 0, None))
    /\ UNCHANGED <<dbVars, histVars>>

\* StoreAuthorizationCode reads the transaction and adds the code; an error of
\* the interaction API is not looked at.
StoreAuthorizationCode(p) ==
    LET o == req[p].opState
    IN /\ req[p].pc = "storeFind"
       /\ \/ \E i \in Found(o) :
                Become(p, Req("store", "update", o, req[p].code, i,
                              [FromDocument(docs[i]) EXCEPT !.code = TRUE]))
          \/ /\ Found(o) = {}
             /\ Become(p, Req("store", "disclose", o, req[p].code, 0, None))
       /\ UNCHANGED <<dbVars, histVars>>

\* The kept answer is released: the wallet has its code.
WriteAuthorizeResponse(p) ==
    /\ req[p].pc = "disclose"
    /\ disclosed' = disclosed \cup {<<req[p].code, req[p].opState>>}
    /\ Finish(p)
    /\ UNCHANGED <<dbVars, created, coded, initiated, stored>>

\* The code has a session and is young enough.
Usable(c) == Live(codes[c]) /\ now <= codes[c].at + CodeLife

\* POST /oidc/token: NewAccessRequest reads the session of the code.
OidcToken(p, c) ==
    /\ req[p] = Idle
    /\ \E o \in OpStates : <<c, o>> \in disclosed
    /\ Usable(c)
    /\ Become(p, Req("token", "pkceGet", codes[c].opState, c, 0, None))
    /\ UNCHANGED <<dbVars, histVars>>

\* NewAccessRequest then reads the PKCE session ...
GetPKCERequestSession(p) ==
    /\ req[p].pc = "pkceGet"
    /\ \/ /\ Live(pkce[req[p].code])
          /\ Become(p, Req("token", "pkceDelete", req[p].opState, req[p].code, 0, None))
       \/ /\ ~Live(pkce[req[p].code])
          /\ Finish(p)
    /\ UNCHANGED <<dbVars, histVars>>

\* ... and deletes it; a session that is gone is not an error.
DeletePKCERequestSession(p) ==
    /\ req[p].pc = "pkceDelete"
    /\ pkce' = [pkce EXCEPT ![req[p].code] = None]
    /\ Become(p, Req("token", "exchange", req[p].opState, req[p].code, 0, None))
    /\ UNCHANGED <<docs, states, codes, tokens, now, histVars>>

\* ExchangeAuthorizationCode: the provider gives a token for its code, which
\* the transaction is updated with; an error is not looked at.
ExchangeAuthorizationCode(p) ==
    LET r == req[p]
    IN /\ r.pc = "exchange"
       /\ \/ \E i \in Found(r.opState) :
                LET d == FromDocument(docs[i])
                IN Become(p, IF d.code
                             THEN Req("token", "update", r.opState, r.code, i, d)
                             ELSE Req("token", "access", r.opState, r.code, 0, None))
          \/ /\ Found(r.opState) = {}
             /\ Become(p, Req("token", "access", r.opState, r.code, 0, None))
       /\ UNCHANGED <<dbVars, histVars>>

\* NewAccessResponse (fosite): the session of the code is read again ...
GetAuthorizeCodeSession(p) ==
    /\ req[p].pc = "access"
    /\ \/ /\ Usable(req[p].code)
          /\ Become(p, Req("token", "invalidate", req[p].opState, req[p].code, 0, None))
       \/ /\ ~Usable(req[p].code)
          /\ Finish(p)
    /\ UNCHANGED <<dbVars, histVars>>

\* Mutant of InvalidateAuthorizeCodeSession: the session stays.
InvalidateAuthorizeCodeSessionNot(p) ==
    /\ req[p].pc = "invalidate"
    /\ Become(p, Req("token", "createToken", req[p].opState, req[p].code, 0, None))
    /\ UNCHANGED <<dbVars, histVars>>

\* ... deleted ...
InvalidateAuthorizeCodeSession(p) ==
    /\ req[p].pc = "invalidate"
    /\ codes' = [codes EXCEPT ![req[p].code] = None]
    /\ Become(p, Req("token", "createToken", req[p].opState, req[p].code, 0, None))
    /\ UNCHANGED <<docs, states, pkce, tokens, now, histVars>>

\* ... and the access token is stored and returned.
CreateAccessTokenSession(p) ==
    /\ req[p].pc = "createToken"
    /\ tokens' = tokens \cup {[code |-> req[p].code, opState |-> req[p].opState]}
    /\ Finish(p)
    /\ UNCHANGED <<docs, states, codes, pkce, now, histVars>>

-----------------------------------------------------------------------------
\* MongoDB's TTL monitor removes a document some time after it expired.  (That
\* of a session makes no difference: an expired session does not count and a
\* code is not made twice.)
Expired(d) == d # None /\ d.expireAt <= now

ReapTransaction(i) ==
    /\ Expired(docs[i])
    /\ docs' = [docs EXCEPT ![i] = None]
    /\ UNCHANGED <<states, codes, pkce, tokens, now, req, histVars>>

ReapState(o) ==
    /\ Expired(states[o])
    /\ states' = [states EXCEPT ![o] = None]
    /\ UNCHANGED <<docs, codes, pkce, tokens, now, req, histVars>>

Tick ==
    /\ now' \in Time
    /\ now < now'
    /\ UNCHANGED <<docs, states, codes, pkce, tokens, req, histVars>>

\* A request ends early: a call failed or the server stopped.  What it wrote
\* stays written.
Fail(p) ==
    /\ req[p] # Idle
    /\ Finish(p)
    /\ UNCHANGED <<dbVars, histVars>>

Step(p) ==
    \/ UpdateTx(p) \/ NewAuthorizeResponse(p) \/ SaveAuthorizeState(p)
    \/ StoreAuthorizationCode(p) \/ WriteAuthorizeResponse(p)
    \/ GetPKCERequestSession(p) \/ DeletePKCERequestSession(p)
    \/ ExchangeAuthorizationCode(p) \/ GetAuthorizeCodeSession(p)
    \/ InvalidateAuthorizeCodeSession(p) \/ CreateAccessTokenSession(p)

Next ==
    \/ \E r \in InitRequests : InitiateCredentialIssuance(r)
    \/ \E p \in Procs :
          \/ \E r \in PushRequests : PushedAuthorization(p, r)
          \/ \E r \in AuthRequests : OidcAuthorize(p, r)
          \/ \E o \in OpStates : OidcRedirect(p, o)
          \/ \E c \in Codes : OidcToken(p, c)
          \/ Step(p)
          \/ Fail(p)
    \/ \E o \in OpStates : ReapState(o)
    \/ \E i \in TxIDs : ReapTransaction(i)
    \/ Tick

Spec == Init /\ [][Next]_vars

-----------------------------------------------------------------------------
\* The op_states that an issuer initiated a transaction for which one of the
\* wallet's authorization requests fits: the response type is the same, the
\* scopes are among its scopes, and it is for the resident card, as linked
\* data, that OidcAuthorize asks for.
Authorized ==
    {o \in OpStates : \E x \in initiated, r \in AuthRequests :
        /\ x.opState = o /\ r.opState = o
        /\ x.rt = r.rt
        /\ r.scope \subseteq x.scope
        /\ x.type = PRC /\ x.format = "ldp"}

\* Whoever calls the public endpoints, in whatever order, late or again: an
\* access token is of an op_state that an issuer initiated for what was
\* authorized, and its code left the server with the redirect of that very
\* op_state.
TokenAuthorized ==
    \A t \in tokens : t.opState \in Authorized /\ <<t.code, t.opState>> \in disclosed

\* A code that gave a token gives no other one to a request made later: its
\* session is gone and does not come back.  (Requests that overlap may get a
\* token each.)
SpentCodeGone == \A t \in tokens : codes[t.code] = None

\* However often an op_state is authorized, the wallet holds at most one code
\* of it that can still be used: a second answer is kept only after the first
\* expired, and then its code is too old.
OneUsableCode ==
    \A a, b \in disclosed :
        a[2] = b[2] /\ a[1] # b[1] => ~(Usable(a[1]) /\ Usable(b[1]))

\* At most one transaction of an op_state is stored, also when a request that
\* read an earlier one writes it back late.
OneTransactionPerOpState ==
    \A i, j \in TxIDs :
        docs[i] # None /\ docs[j] # None /\ docs[i].opState = docs[j].opState => i = j

\* The authorization details of a transaction are of the credential type and
\* in the format the transaction was initiated for, also when a request that
\* read an earlier transaction of the op_state writes late.
DetailsMatchTemplate ==
    \A i \in TxIDs :
        docs[i] # None /\ docs[i].ad # None =>
            /\ docs[i].ad.type = docs[i].type
            /\ docs[i].ad.format = docs[i].format

\* A late write never changes what a transaction was initiated for, never
\* shortens its life and never brings a removed transaction back.
TransactionFate ==
    [][\A i \in 1..created :
          /\ docs[i] = None => docs'[i] = None
          /\ docs[i] # None /\ docs'[i] # None =>
                /\ TermsOf(docs'[i]) = TermsOf(docs[i])
                /\ docs'[i].expireAt >= docs[i].expireAt]_vars

\* What the interaction API acknowledged to have stored can be read back: the
\* provider's code of a transaction.
StoredCodeHolds ==
    \A i \in stored : docs[i] # None => FromDocument(docs[i]).code
=============================================================================
