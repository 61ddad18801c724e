---------------------------- MODULE OIDC4VCProofs ----------------------------
(***************************************************************************)
(* Proofs about OIDC4VC issuance for any number of concurrent requests,    *)
(* op_states, transactions and codes, with calls failing anywhere.         *)
(***************************************************************************)
EXTENDS OIDC4VC, WellFoundedInduction, TLAPS

StorePC == {"storeFind", "disclose"}
TokenPC == {"pkceGet", "pkceDelete", "exchange", "access", "invalidate",
            "createToken"}

\* The locals that a request has at its point of the flow.
Shape(r) ==
    /\ r.pc = "update" => r.id \in TxIDs /\ r.data \in Data
    /\ r.kind \in {"store", "token"} \/ r.pc = "saveState" => r.code \in Codes
    /\ r.pc \in {"respond", "saveState"} => r.kind = "authorize"
    /\ r.pc \in StorePC => r.kind = "store"
    /\ r.pc \in TokenPC => r.kind = "token"

Shapes == \A p \in Procs : Shape(req[p])

TInv == TypeOK /\ Shapes

\* An update carries over what the transaction it read was initiated for.
Same(d, e) == TermsOf(d) = TermsOf(e)

AdOK(d) == d.ad # None => d.ad.type = d.type /\ d.ad.format = d.format

\* The stored transactions.
DocsGood ==
    \A i \in TxIDs : docs[i] # None => /\ i <= created
                                       /\ docs[i].expireAt <= now + TTL
                                       /\ AdOK(docs[i])
                                       /\ TermsOf(docs[i]) \in initiated

\* A transaction to be written is the one that is stored, if it still is.
WriteGood(r) ==
    r.pc = "update" => /\ r.id <= created
                       /\ AdOK(r.data)
                       /\ docs[r.id] # None => Same(r.data, docs[r.id])

WritesGood == \A p \in Procs : WriteGood(req[p])

DocInv == DocsGood /\ WritesGood /\ OneTransactionPerOpState

\* Code c was made, for op_state o if its session is still there.
CodeOf(c, o) == c <= coded /\ (codes[c] # None => codes[c].opState = o)

\* The sessions of codes, and the answers kept with them: an answer outlives
\* its code.
CodesGood == \A c \in Codes : codes[c] # None => /\ c <= coded
                                                 /\ codes[c].at <= now
                                                 /\ codes[c].opState \in Authorized

StatesGood ==
    \A o \in OpStates : states[o] # None =>
        /\ CodeOf(states[o].code, o)
        /\ codes[states[o].code] # None =>
              codes[states[o].code].at + TTL <= states[o].expireAt

\* If the wallet can use code c then it is the one of the kept answer.
OnlyKept(c, o) == Usable(c) => states[o] # None /\ states[o].code = c

\* A code that a redirect of op_state o released, or is about to.
Released(c, o) == CodeOf(c, o) /\ OnlyKept(c, o)

DisclosedGood == \A c \in Codes : \A o \in OpStates :
                    <<c, o>> \in disclosed => Released(c, o)

\* A code whose wallet was authorized, released with its own op_state.
Earned(c, o) == c <= coded /\ o \in Authorized /\ <<c, o>> \in disclosed

CodeUse(r) ==
    /\ r.kind = "authorize" => r.opState \in Authorized
    /\ r.pc = "saveState" => CodeOf(r.code, r.opState)
    /\ r.kind = "store" => Released(r.code, r.opState)
    /\ r.kind = "token" => Earned(r.code, r.opState)
    /\ r.pc = "createToken" => codes[r.code] = None

UsesGood == \A p \in Procs : CodeUse(req[p])

TokensGood == \A t \in tokens : Earned(t.code, t.opState) /\ codes[t.code] = None

CodeInv == CodesGood /\ StatesGood /\ DisclosedGood /\ UsesGood /\ TokensGood

VCInv == TInv /\ DocInv /\ CodeInv

-----------------------------------------------------------------------------
(* Types *)

\* A request that is under way is a well-typed record.
LEMMA ReqType ==
    ASSUME TypeOK, NEW p \in Procs, req[p].pc # "idle"
    PROVE  req[p] \in Request
BY DEF TypeOK, Idle

\* An idle process has nothing that a property looks at.
LEMMA IdleFacts ==
    /\ Idle.pc = "idle" /\ Idle.kind = "none" /\ Shape(Idle)
    /\ WriteGood(Idle) /\ CodeUse(Idle)
BY DEF Idle, Shape, StorePC, TokenPC, WriteGood, CodeUse

\* The record of a request.
LEMMA ReqRecord ==
    ASSUME NEW k \in Kind, NEW x \in PC, NEW o \in OpStates, NEW c \in 0..MaxCode,
           NEW i \in 0..MaxTx, NEW d \in Data \cup {None}
    PROVE  /\ Req(k, x, o, c, i, d) \in Request
           /\ Req(k, x, o, c, i, d).kind = k
           /\ Req(k, x, o, c, i, d).pc = x
           /\ Req(k, x, o, c, i, d).opState = o
           /\ Req(k, x, o, c, i, d).code = c
           /\ Req(k, x, o, c, i, d).id = i
           /\ Req(k, x, o, c, i, d).data = d
BY DEF Req, Request

\* Only one request changes.
LEMMA OneRequestChanges ==
    ASSUME TInv, NEW p \in Procs, NEW r \in Request \cup {Idle}, Shape(r),
           Become(p, r)
    PROVE  /\ req' \in [Procs -> Request \cup {Idle}]
           /\ Shapes'
           /\ req'[p] = r
           /\ \A q \in Procs \ {p} : req'[q] = req[q]
<1>1. req \in [Procs -> Request \cup {Idle}]
  BY DEF TInv, TypeOK
<1>2. /\ req' \in [Procs -> Request \cup {Idle}]
      /\ req'[p] = r
      /\ \A q \in Procs \ {p} : req'[q] = req[q]
  BY <1>1 DEF Become
<1>3. \A q \in Procs : Shape(req'[q])
  <2> TAKE q \in Procs
  <2>1. CASE q = p BY <1>2, <2>1
  <2>2. CASE q # p BY <1>2, <2>2 DEF TInv, Shapes
  <2> QED BY <2>1, <2>2
<1> QED BY <1>2, <1>3 DEF Shapes, Shape

\* What the request of p becomes in a step: r.
Turns(p, r) == r \in Request \cup {Idle} /\ Shape(r) /\ Become(p, r)

\* A finished request.
LEMMA Finished ==
    ASSUME NEW p \in Procs, Finish(p)
    PROVE  Turns(p, Idle)
BY IdleFacts DEF Turns, Finish

\* A request without a transaction moves on.
LEMMA MovesOn ==
    ASSUME NEW p \in Procs, NEW k \in Kind, NEW x \in PC, NEW o \in OpStates,
           NEW c \in Codes,
           x # "update",
           x \in {"respond", "saveState"} => k = "authorize",
           x \in StorePC => k = "store",
           x \in TokenPC => k = "token",
           Become(p, Req(k, x, o, c, 0, None))
    PROVE  Turns(p, Req(k, x, o, c, 0, None))
<1>1. c \in 0..MaxCode /\ 0 \in 0..MaxTx /\ None \in Data \cup {None}
  BY VCAssumption DEF Codes
<1>2. Req(k, x, o, c, 0, None) \in Request
  BY <1>1, ReqRecord
<1>3. Shape(Req(k, x, o, c, 0, None))
  BY <1>1, ReqRecord DEF Shape
<1> QED BY <1>2, <1>3 DEF Turns

\* The fields of such a request.
ReqFields(k, x, o, c) ==
    LET r == Req(k, x, o, c, 0, None)
    IN r.kind = k /\ r.pc = x /\ r.opState = o /\ r.code = c

\* They are what they were made of.
LEMMA MovedFields ==
    ASSUME NEW k \in Kind, NEW x \in PC, NEW o \in OpStates, NEW c \in Codes
    PROVE  ReqFields(k, x, o, c)
<1>1. c \in 0..MaxCode /\ 0 \in 0..MaxTx /\ None \in Data \cup {None}
  BY VCAssumption DEF Codes
<1> QED BY <1>1, ReqRecord DEF ReqFields

\* Transaction data that was read from a document.
LEMMA DataType ==
    ASSUME TypeOK, NEW i \in TxIDs, docs[i] # None
    PROVE  /\ docs[i] \in Document
           /\ FromDocument(docs[i]) \in Data
           /\ Same(FromDocument(docs[i]), docs[i])
           /\ FromDocument(docs[i]).ad = docs[i].ad
           /\ FromDocument(docs[i]).code = FALSE
<1>1. docs[i] \in Document
  BY DEF TypeOK
<1> QED BY <1>1 DEF Document, Data, FromDocument, Same, TermsOf

\* The transaction read with new details.
LEMMA WithDetailsType ==
    ASSUME TypeOK, NEW i \in TxIDs, docs[i] # None, NEW ad \in Details
    PROVE  /\ WithDetails(ad, i) \in Data
           /\ Same(WithDetails(ad, i), docs[i])
           /\ WithDetails(ad, i).ad = ad
<1>1. FromDocument(docs[i]) \in Data /\ Same(FromDocument(docs[i]), docs[i])
  BY DataType
<1> QED BY <1>1 DEF Data, WithDetails, Same, TermsOf

\* A document made of transaction data.
LEMMA DocumentType ==
    ASSUME TypeOK, NEW d, d \in Data
    PROVE  /\ ToDocument(d) \in Document
           /\ Same(ToDocument(d), d)
           /\ ToDocument(d).ad = d.ad
           /\ ToDocument(d).expireAt = now + TTL
<1>1. now + TTL \in Nat
  BY VCAssumption DEF TypeOK
<1> QED BY <1>1 DEF Data, Document, ToDocument, Same, TermsOf

\* The details that the handlers accept.
LEMMA DetailsType ==
    ASSUME NEW d \in WireDetails, ValidDetails(d)
    PROVE  MappedDetails(d) \in Details
BY DEF WireDetails, ValidDetails, MappedDetails, Details, WireFormat, Format,
       ValidateVCFormat

\* What the PAR endpoint sends on is again a set of details.
LEMMA ReceivedType ==
    ASSUME NEW r \in PushRequest, ValidDetails(r.details)
    PROVE  r.opState \in OpStates /\ Received(r) \in WireDetails
<1>1. r.details \in WireDetails /\ r.opState \in OpStates
  BY DEF PushRequest
<1>2. MappedDetails(r.details) \in Details
  BY <1>1, DetailsType
<1>3. Forwarded(r.details) \in WireDetails
  BY <1>1, <1>2 DEF Forwarded, WireDetails, Details
<1> QED BY <1>1, <1>3 DEF Received

\* A request that read transaction i and is going to write d.
LEMMA TurnsToUpdate ==
    ASSUME NEW p \in Procs, NEW k \in Kind, NEW o \in OpStates, NEW c \in 0..MaxCode,
           NEW i \in TxIDs, NEW d \in Data,
           k \in {"store", "token"} => c \in Codes,
           Become(p, Req(k, "update", o, c, i, d))
    PROVE  Turns(p, Req(k, "update", o, c, i, d))
<1>1. "update" \in PC /\ i \in 0..MaxTx
  BY VCAssumption DEF PC, TxIDs
<1>2. Req(k, "update", o, c, i, d) \in Request
  BY <1>1, ReqRecord
<1>3. Shape(Req(k, "update", o, c, i, d))
  BY <1>1, ReqRecord DEF Shape, StorePC, TokenPC
<1> QED BY <1>2, <1>3 DEF Turns

\* What a wallet's or an issuer's request reads and is going to write.
LEMMA PushTurns ==
    ASSUME TInv, NEW p \in Procs, NEW r \in PushRequests, PushedAuthorization(p, r)
    PROVE  \E i \in Found(r.opState) : \E ad \in Details :
               /\ AcceptDetails(ad, i)
               /\ Turns(p, Req("push", "update", r.opState, 0, i, WithDetails(ad, i)))
<1>1. r \in PushRequest
  BY VCAssumption
<1>2. r.opState \in OpStates /\ Received(r) \in WireDetails
  BY <1>1, ReceivedType DEF PushedAuthorization
<1> DEFINE ad == MappedDetails(Received(r))
<1>3. ad \in Details
  BY <1>2, DetailsType DEF PushedAuthorization
<1> HIDE DEF ad
<1>4. PICK i \in Found(r.opState) :
          /\ AcceptDetails(ad, i)
          /\ Become(p, Req("push", "update", r.opState, 0, i, WithDetails(ad, i)))
  BY DEF PushedAuthorization, PushAuthorizationDetails, ad
<1>5. i \in TxIDs /\ docs[i] # None
  BY DEF Found, Live
<1>6. WithDetails(ad, i) \in Data
  BY <1>3, <1>5, WithDetailsType DEF TInv
<1>7. 0 \in 0..MaxCode /\ "push" \in Kind
  BY VCAssumption DEF Kind
<1>8. Turns(p, Req("push", "update", r.opState, 0, i, WithDetails(ad, i)))
  BY <1>2, <1>4, <1>5, <1>6, <1>7, TurnsToUpdate
<1> QED BY <1>3, <1>4, <1>8

\* The same of an authorization request.
LEMMA AuthorizeTurns ==
    ASSUME TInv, NEW p \in Procs, NEW r \in AuthRequests, OidcAuthorize(p, r)
    PROVE  \E i \in Found(r.opState) : \E ad \in Details :
               /\ AcceptDetails(ad, i)
               /\ Turns(p, Req("authorize", "update", r.opState, 0, i, WithDetails(ad, i)))
<1>1. r \in AuthRequest
  BY VCAssumption
<1>2. r.opState \in OpStates /\ AuthorizeDetails \in WireDetails
  BY <1>1, VCAssumption DEF AuthRequest, AuthorizeDetails, WireDetails, WireFormat
<1> DEFINE ad == MappedDetails(AuthorizeDetails)
<1>3. ad \in Details
  BY <1>2, DetailsType DEF OidcAuthorize, PrepareAuthorizationRequest
<1> HIDE DEF ad
<1>4. PICK i \in Found(r.opState) :
          /\ AcceptDetails(ad, i)
          /\ Become(p, Req("authorize", "update", r.opState, 0, i, WithDetails(ad, i)))
  BY DEF OidcAuthorize, PrepareAuthorizationRequest, ad,
         PrepareClaimDataAuthorizationRequest
<1>5. i \in TxIDs /\ docs[i] # None
  BY DEF Found, Live
<1>6. WithDetails(ad, i) \in Data
  BY <1>3, <1>5, WithDetailsType DEF TInv
<1>7. 0 \in 0..MaxCode /\ "authorize" \in Kind
  BY VCAssumption DEF Kind
<1>8. Turns(p, Req("authorize", "update", r.opState, 0, i, WithDetails(ad, i)))
  BY <1>2, <1>4, <1>5, <1>6, <1>7, TurnsToUpdate
<1> QED BY <1>3, <1>4, <1>8

\* The provider's code is added to what was read.
LEMMA StoreTurns ==
    ASSUME TInv, NEW p \in Procs, StoreAuthorizationCode(p)
    PROVE  LET o == req[p].opState
               c == req[p].code
           IN /\ req[p].kind = "store"
              /\ \/ Turns(p, Req("store", "disclose", o, c, 0, None))
                 \/ \E i \in Found(o) : \E d \in Data :
                       /\ Same(d, docs[i])
                       /\ d.ad = docs[i].ad
                       /\ Turns(p, Req("store", "update", o, c, i, d))
<1> DEFINE o == req[p].opState
           c == req[p].code
<1>1. req[p] \in Request /\ Shape(req[p]) /\ req[p].pc = "storeFind"
  BY ReqType DEF TInv, Shapes, StoreAuthorizationCode
<1>2. o \in OpStates /\ c \in Codes /\ req[p].kind = "store"
  BY <1>1 DEF Request, Shape, StorePC
<1>3. "store" \in Kind /\ c \in 0..MaxCode /\ "disclose" \in PC
  BY <1>2 DEF Kind, Codes, PC
<1> HIDE DEF o, c
<1>4. CASE Become(p, Req("store", "disclose", o, c, 0, None))
  <2>1. "disclose" \in StorePC /\ "disclose" \notin TokenPC
        /\ "disclose" \notin {"respond", "saveState"} /\ "disclose" # "update"
    BY DEF StorePC, TokenPC
  <2>2. Turns(p, Req("store", "disclose", o, c, 0, None))
    BY <1>2, <1>3, <1>4, <2>1, MovesOn
  <2> QED BY <1>2, <2>2 DEF o, c
<1>5. ASSUME NEW i \in Found(o),
             Become(p, Req("store", "update", o, c, i,
                           [FromDocument(docs[i]) EXCEPT !.code = TRUE]))
      PROVE  \E d \in Data : /\ Same(d, docs[i])
                             /\ d.ad = docs[i].ad
                             /\ Turns(p, Req("store", "update", o, c, i, d))
  <2> DEFINE d == [FromDocument(docs[i]) EXCEPT !.code = TRUE]
  <2>1. i \in TxIDs /\ docs[i] # None
    BY DEF Found, Live
  <2>2. d \in Data /\ Same(d, docs[i]) /\ d.ad = docs[i].ad
    <3>1. FromDocument(docs[i]) \in Data
          /\ Same(FromDocument(docs[i]), docs[i])
          /\ FromDocument(docs[i]).ad = docs[i].ad
      BY <2>1, DataType DEF TInv
    <3> QED BY <1>2, <3>1 DEF Data, Same, TermsOf
  <2> HIDE DEF d
  <2>3. Become(p, Req("store", "update", o, c, i, d))
    BY <1>5 DEF d
  <2>4. Turns(p, Req("store", "update", o, c, i, d))
    BY <1>2, <1>3, <2>1, <2>2, <2>3, TurnsToUpdate
  <2> QED BY <2>2, <2>4
<1>6. \/ Become(p, Req("store", "disclose", o, c, 0, None))
      \/ \E i \in Found(o) : Become(p, Req("store", "update", o, c, i,
                                          [FromDocument(docs[i]) EXCEPT !.code = TRUE]))
  BY DEF StoreAuthorizationCode, o, c
<1>7. CASE \E i \in Found(o) : Become(p, Req("store", "update", o, c, i,
                                          [FromDocument(docs[i]) EXCEPT !.code = TRUE]))
  BY <1>2, <1>5, <1>7 DEF o, c
<1> QED BY <1>4, <1>6, <1>7

\* The steps of a token request.
LEMMA TokenTurns ==
    ASSUME TInv, NEW p \in Procs, req[p].pc \in TokenPC, NEW x \in TokenPC,
           Become(p, Req("token", x, req[p].opState, req[p].code, 0, None))
    PROVE  /\ req[p] \in Request /\ req[p].kind = "token" /\ req[p].code \in Codes
           /\ Turns(p, Req("token", x, req[p].opState, req[p].code, 0, None))
           /\ ReqFields("token", x, req[p].opState, req[p].code)
<1>1. req[p] \in Request /\ Shape(req[p])
  BY ReqType DEF TInv, Shapes, TokenPC
<1>2. req[p].opState \in OpStates /\ req[p].code \in Codes /\ req[p].kind = "token"
  BY <1>1 DEF Request, Shape
<1>3. /\ "token" \in Kind /\ x \in PC /\ x # "update"
      /\ x \notin {"respond", "saveState"} /\ x \notin StorePC
  BY DEF Kind, PC, TokenPC, StorePC
<1>4. Turns(p, Req("token", x, req[p].opState, req[p].code, 0, None))
  BY <1>2, <1>3, MovesOn
<1> QED BY <1>1, <1>2, <1>3, <1>4, MovedFields

\* The exchange always finds the stored transaction without the code.
LEMMA ExchangeTurns ==
    ASSUME TInv, NEW p \in Procs, ExchangeAuthorizationCode(p)
    PROVE  Become(p, Req("token", "access", req[p].opState, req[p].code, 0, None))
<1>1. ASSUME NEW i \in Found(req[p].opState)
      PROVE  FromDocument(docs[i]).code = FALSE
  BY DataType DEF TInv, Found, Live
<1> QED BY <1>1 DEF ExchangeAuthorizationCode

\* What follows an update.
LEMMA UpdateTurns ==
    ASSUME TInv, NEW p \in Procs, UpdateTx(p)
    PROVE  /\ req[p] \in Request /\ req[p].id \in TxIDs /\ req[p].data \in Data
           /\ Turns(p, AfterUpdate(req[p]))
           /\ \/ AfterUpdate(req[p]) = Idle
              \/ /\ AfterUpdate(req[p]).pc \in {"respond", "disclose", "access"}
                 /\ AfterUpdate(req[p]).kind = req[p].kind
                 /\ AfterUpdate(req[p]).opState = req[p].opState
                 /\ AfterUpdate(req[p]).code = req[p].code
<1>1. req[p] \in Request /\ Shape(req[p]) /\ req[p].pc = "update"
  BY ReqType DEF TInv, Shapes, UpdateTx
<1>2. /\ req[p].opState \in OpStates /\ req[p].code \in 0..MaxCode
      /\ req[p].id \in TxIDs /\ req[p].data \in Data /\ req[p].kind \in Kind
  BY <1>1 DEF Request, Shape
<1> DEFINE x == CASE req[p].kind = "authorize" -> "respond"
                  [] req[p].kind = "store" -> "disclose"
                  [] req[p].kind = "token" -> "access"
           r == Req(req[p].kind, x, req[p].opState, req[p].code, 0, None)
<1>3. CASE req[p].kind = "push"
  <2>1. AfterUpdate(req[p]) = Idle
    BY <1>3 DEF AfterUpdate
  <2> QED BY <1>1, <1>2, <2>1, IdleFacts DEF Turns, UpdateTx
<1>4. CASE req[p].kind # "push"
  <2>1. AfterUpdate(req[p]) = r
    BY <1>4 DEF AfterUpdate
  <2>2. /\ req[p].kind = "authorize" => x = "respond"
        /\ req[p].kind = "store" => x = "disclose"
        /\ req[p].kind = "token" => x = "access"
        /\ req[p].kind \in {"authorize", "store", "token"}
    BY <1>2, <1>4 DEF Kind
  <2> HIDE DEF x
  <2>3. x \in PC /\ 0 \in 0..MaxTx /\ x \in {"respond", "disclose", "access"}
    BY <2>2, VCAssumption DEF PC
  <2>4. /\ r \in Request /\ r.kind = req[p].kind /\ r.pc = x
        /\ r.opState = req[p].opState /\ r.code = req[p].code
    BY <1>2, <2>3, ReqRecord
  <2> HIDE DEF r
  <2>5. Shape(r)
    BY <1>1, <2>2, <2>4 DEF Shape, StorePC, TokenPC
  <2>6. Become(p, r)
    BY <2>1 DEF UpdateTx
  <2> QED BY <1>1, <1>2, <2>1, <2>3, <2>4, <2>5, <2>6 DEF Turns
<1> QED BY <1>3, <1>4

\* The new code is handed on.
LEMMA RespondTurns ==
    ASSUME TInv, NEW p \in Procs, NewAuthorizeResponse(p)
    PROVE  /\ req[p].opState \in OpStates /\ coded + 1 \in Codes
           /\ Turns(p, Req("authorize", "saveState", req[p].opState, coded + 1, 0, None))
           /\ ReqFields("authorize", "saveState", req[p].opState, coded + 1)
<1>1. req[p] \in Request
  BY ReqType DEF TInv, NewAuthorizeResponse
<1>2. req[p].opState \in OpStates /\ coded + 1 \in Codes
  BY <1>1, VCAssumption DEF TInv, TypeOK, Request, NewAuthorizeResponse, Codes
<1>3. /\ "authorize" \in Kind /\ "saveState" \in PC
      /\ "saveState" \notin StorePC \cup TokenPC
  BY DEF Kind, PC, StorePC, TokenPC
<1>4. Become(p, Req("authorize", "saveState", req[p].opState, coded + 1, 0, None))
  BY DEF NewAuthorizeResponse
<1>5. Turns(p, Req("authorize", "saveState", req[p].opState, coded + 1, 0, None))
  BY <1>2, <1>3, <1>4, MovesOn
<1> QED BY <1>2, <1>3, <1>5, MovedFields

\* The kept answer is taken up.
LEMMA RedirectTurns ==
    ASSUME TInv, NEW p \in Procs, NEW o \in OpStates, OidcRedirect(p, o)
    PROVE  /\ states[o] # None /\ states[o].code \in Codes
           /\ Turns(p, Req("store", "storeFind", o, states[o].code, 0, None))
           /\ ReqFields("store", "storeFind", o, states[o].code)
<1>1. states[o] # None
  BY DEF OidcRedirect, GetAuthorizeState, Live
<1>2. states[o].code \in Codes
  BY <1>1 DEF TInv, TypeOK, AuthorizeState
<1>3. /\ "store" \in Kind /\ "storeFind" \in PC /\ "storeFind" \notin TokenPC
  BY DEF Kind, PC, TokenPC
<1>4. Turns(p, Req("store", "storeFind", o, states[o].code, 0, None))
  BY <1>2, <1>3, MovesOn DEF OidcRedirect
<1> QED BY <1>1, <1>2, <1>3, <1>4, MovedFields

\* A token request begins with the op_state of the code's session.
LEMMA OidcTokenTurns ==
    ASSUME TInv, NEW p \in Procs, NEW c \in Codes, OidcToken(p, c)
    PROVE  /\ codes[c] # None /\ codes[c].opState \in OpStates
           /\ Turns(p, Req("token", "pkceGet", codes[c].opState, c, 0, None))
           /\ ReqFields("token", "pkceGet", codes[c].opState, c)
<1>1. codes[c] # None
  BY DEF OidcToken, Usable, Live
<1>2. codes[c].opState \in OpStates
  BY <1>1 DEF TInv, TypeOK, Session
<1>3. /\ "token" \in Kind /\ "pkceGet" \in PC /\ "pkceGet" \notin StorePC
  BY DEF Kind, PC, StorePC
<1>4. Turns(p, Req("token", "pkceGet", codes[c].opState, c, 0, None))
  BY <1>2, <1>3, MovesOn DEF OidcToken
<1> QED BY <1>1, <1>2, <1>3, <1>4, MovedFields

\* The state without the requests.
StoreTypes ==
    /\ docs \in [TxIDs -> Document \cup {None}]
    /\ states \in [OpStates -> AuthorizeState \cup {None}]
    /\ codes \in [Codes -> Session \cup {None}]
    /\ pkce \in [Codes -> Session \cup {None}]
    /\ tokens \subseteq Token
    /\ now \in Time

HistTypes ==
    /\ created \in 0..MaxTx
    /\ coded \in 0..MaxCode
    /\ initiated \subseteq Terms
    /\ disclosed \subseteq Codes \X OpStates
    /\ stored \subseteq TxIDs

\* The parts of the type invariant.
LEMMA TInvParts ==
    TInv <=> StoreTypes /\ HistTypes /\ req \in [Procs -> Request \cup {Idle}] /\ Shapes
BY DEF TInv, TypeOK, StoreTypes, HistTypes

\* A step that turns one request and keeps the stores typed.
LEMMA TypeByTurn ==
    ASSUME TInv, NEW p \in Procs, NEW r, Turns(p, r), StoreTypes', HistTypes'
    PROVE  TInv'
<1>1. req' \in [Procs -> Request \cup {Idle}] /\ Shapes'
  BY OneRequestChanges DEF Turns
<1> QED BY <1>1, TInvParts DEF TInv, TypeOK, StoreTypes, HistTypes

\* What nothing was done to keeps its type.
LEMMA TypesKept ==
    ASSUME TInv
    PROVE  /\ UNCHANGED dbVars => StoreTypes'
           /\ UNCHANGED histVars => HistTypes'
           /\ UNCHANGED <<req, dbVars, histVars>> => TInv'
BY TInvParts DEF TInv, TypeOK, Shapes, StoreTypes, HistTypes, dbVars, histVars

\* Only requests change.
LEMMA TypeQuiet ==
    ASSUME TInv, NEW p \in Procs, NEW r, Turns(p, r), UNCHANGED <<dbVars, histVars>>
    PROVE  TInv'
BY TypesKept, TypeByTurn

\* A session is typed.
LEMMA SessionType ==
    ASSUME TInv, NEW o \in OpStates
    PROVE  /\ NewSession(o) \in Session /\ NewSession(o).opState = o
           /\ NewSession(o).at = now /\ now + TTL \in Nat
<1>1. now \in Time /\ now + TTL \in Nat
  BY VCAssumption DEF TInv, TypeOK
<1> QED BY <1>1 DEF NewSession, Session

\* A set of naturals with an element has a smallest one.
LEMMA SmallestExists ==
    ASSUME NEW S \in SUBSET Nat, S # {}
    PROVE  \E i \in S : \A j \in S : i <= j
<1> DEFINE R == OpToRel(<, Nat)
<1>1. IsWellFoundedOn(R, Nat)
  BY NatLessThanWellFounded
<1>2. \A x, y \in Nat : x < y => <<x, y>> \in R
  BY DEF OpToRel
<1> HIDE DEF R
<1>3. PICK i \in S : \A j \in S : ~(<<j, i>> \in R)
  BY <1>1, WFMin
<1>4. ASSUME NEW j \in S PROVE i <= j
  <2>1. i \in Nat /\ j \in Nat /\ ~(<<j, i>> \in R)
    BY <1>3
  <2>2. j < i => <<j, i>> \in R
    BY <1>2, <2>1
  <2> QED BY <2>1, <2>2
<1> QED BY <1>4

\* What an initiation stores.
LEMMA InitiationData ==
    ASSUME TInv, NEW r \in InitRequests, InitiateCredentialIssuance(r)
    PROVE  \E d \in [opState : OpStates \cup {None}, type : CredTypes, format : Format,
                     rt : RespTypes, scope : SUBSET Scopes, ad : {None}] : Create(d)
<1> DEFINE t == findCredentialTemplate(r.profile.templates, r.template)
           d == [opState |-> r.opState, type |-> t.type, format |-> r.profile.format,
                 rt |-> ResponseType(r), scope |-> Scope(r), ad |-> None]
<1>1. r \in InitRequest /\ r.profile \in Profile
  BY VCAssumption DEF InitRequest
<1>2. /\ r.opState \in OpStates \cup {None} /\ r.profile.templates \in Seq(Template)
      /\ r.profile.format \in Format \cup {None}
      /\ r.rt \in RespTypes \cup {None} /\ r.scope \in SUBSET Scopes
  BY <1>1 DEF InitRequest, Profile
<1>3. r.profile.format # None /\ t # None /\ Create(d)
  BY DEF InitiateCredentialIssuance, InitiateIssuance
<1>4. t \in Template
  <2> DEFINE ts == r.profile.templates
             matches == {i \in DOMAIN ts : ts[i].id = r.template}
             k == CHOOSE i \in matches : \A j \in matches : i <= j
  <2>1. matches # {} /\ t = ts[k]
    BY <1>3 DEF findCredentialTemplate
  <2>2. matches \subseteq Nat
    BY <1>2
  <2>3. \E i \in matches : \A j \in matches : i <= j
    BY <2>1, <2>2, SmallestExists
  <2>4. k \in matches
    BY <2>3
  <2>5. k \in DOMAIN ts
    BY <2>4
  <2> HIDE DEF k, matches
  <2> QED BY <1>2, <2>1, <2>5
<1>5. t.type \in CredTypes
  BY <1>4 DEF Template
<1> HIDE DEF t
<1>6. ResponseType(r) \in RespTypes /\ Scope(r) \in SUBSET Scopes
  BY <1>2, VCAssumption DEF ResponseType, Scope
<1>7. d \in [opState : OpStates \cup {None}, type : CredTypes, format : Format,
             rt : RespTypes, scope : SUBSET Scopes, ad : {None}]
  BY <1>2, <1>3, <1>5, <1>6
<1> QED BY <1>3, <1>7

\* A created transaction.
LEMMA CreatedDocument ==
    ASSUME TInv, NEW r \in InitRequests, InitiateCredentialIssuance(r)
    PROVE  /\ created \in Nat /\ created + 1 \in TxIDs /\ created' = created + 1
           /\ \E d \in Document :
                 /\ docs' = [docs EXCEPT ![created + 1] = d]
                 /\ UniqueOpState(d.opState)
                 /\ d.ad = None /\ d.expireAt = now + TTL
                 /\ initiated' = initiated \cup {TermsOf(d)}
<1>1. PICK d \in [opState : OpStates \cup {None}, type : CredTypes, format : Format,
                  rt : RespTypes, scope : SUBSET Scopes, ad : {None}] : Create(d)
  BY InitiationData
<1>2. ToDocument(d) \in Document /\ ToDocument(d).opState = d.opState
      /\ ToDocument(d).ad = None /\ ToDocument(d).expireAt = now + TTL
      /\ TermsOf(ToDocument(d)) = TermsOf(d)
  <2>1. now + TTL \in Nat
    BY VCAssumption DEF TInv, TypeOK
  <2> QED BY <2>1 DEF Document, ToDocument, TermsOf
<1>3. created \in Nat /\ created + 1 \in TxIDs /\ created' = created + 1
  BY <1>1, VCAssumption DEF TInv, TypeOK, TxIDs, Create
<1>4. docs' = [docs EXCEPT ![created + 1] = ToDocument(d)] /\ UniqueOpState(d.opState)
      /\ initiated' = initiated \cup {TermsOf(d)}
  BY <1>1 DEF Create
<1> QED BY <1>2, <1>3, <1>4

\* Every step of a request keeps the types.
LEMMA TypeStepOf ==
    ASSUME TInv, NEW p \in Procs, Step(p)
    PROVE  TInv'
<1> USE DEF TInv
<1>1. CASE UpdateTx(p)
  <2>1. req[p].id \in TxIDs /\ req[p].data \in Data /\ Turns(p, AfterUpdate(req[p]))
    BY <1>1, UpdateTurns
  <2>2. ToDocument(req[p].data) \in Document
    BY <2>1, DocumentType
  <2>3. docs' \in [TxIDs -> Document \cup {None}]
    BY <1>1, <2>1, <2>2 DEF UpdateTx, UpdateDocument, TypeOK
  <2>4. StoreTypes' /\ HistTypes'
    BY <1>1, <2>1, <2>3 DEF UpdateTx, TypeOK, StoreTypes, HistTypes
  <2> QED BY <2>1, <2>4, TypeByTurn
<1>2. CASE NewAuthorizeResponse(p)
  <2>1. req[p].opState \in OpStates /\ coded + 1 \in Codes
        /\ Turns(p, Req("authorize", "saveState", req[p].opState, coded + 1, 0, None))
    BY <1>2, RespondTurns
  <2>2. NewSession(req[p].opState) \in Session
    BY <2>1, SessionType
  <2>3. codes' \in [Codes -> Session \cup {None}] /\ pkce' \in [Codes -> Session \cup {None}]
    BY <1>2, <2>2 DEF NewAuthorizeResponse, TypeOK
  <2>4. coded' \in 0..MaxCode
    BY <1>2, <2>1 DEF NewAuthorizeResponse, Codes
  <2>5. StoreTypes' /\ HistTypes'
    BY <1>2, <2>3, <2>4 DEF NewAuthorizeResponse, TypeOK, StoreTypes, HistTypes
  <2> QED BY <2>1, <2>5, TypeByTurn
<1>3. CASE SaveAuthorizeState(p)
  <2>1. req[p] \in Request /\ req[p].opState \in OpStates /\ req[p].code \in Codes
    BY <1>3, ReqType DEF SaveAuthorizeState, Shapes, Shape, Request
  <2>2. now + TTL \in Nat
    BY <2>1, SessionType
  <2>3. Turns(p, Idle)
    BY <1>3, Finished DEF SaveAuthorizeState
  <2>4. states' \in [OpStates -> AuthorizeState \cup {None}]
    <3>1. CASE KeepAnswer(req[p].opState, req[p].code)
      BY <2>1, <2>2, <3>1 DEF KeepAnswer, TypeOK, AuthorizeState
    <3> QED BY <1>3, <3>1 DEF SaveAuthorizeState, TypeOK
  <2>5. StoreTypes' /\ HistTypes'
    BY <1>3, <2>4, TypesKept DEF SaveAuthorizeState, TypeOK, StoreTypes
  <2> QED BY <2>3, <2>5, TypeByTurn
<1>4. CASE StoreAuthorizationCode(p)
  <2>1. \E r : Turns(p, r)
    BY <1>4, StoreTurns
  <2> QED BY <1>4, <2>1, TypeQuiet DEF StoreAuthorizationCode
<1>5. CASE WriteAuthorizeResponse(p)
  <2>1. req[p].opState \in OpStates /\ req[p].code \in Codes
    BY <1>5, ReqType DEF WriteAuthorizeResponse, Shapes, Shape, Request, StorePC
  <2>2. Turns(p, Idle)
    BY <1>5, Finished DEF WriteAuthorizeResponse
  <2>3. StoreTypes'
    BY <1>5, TypesKept DEF WriteAuthorizeResponse
  <2>4. HistTypes'
    BY <1>5, <2>1 DEF WriteAuthorizeResponse, TypeOK, HistTypes
  <2> QED BY <2>2, <2>3, <2>4, TypeByTurn
<1>6. CASE GetPKCERequestSession(p) \/ GetAuthorizeCodeSession(p)
           \/ ExchangeAuthorizationCode(p)
  <2>1. /\ UNCHANGED <<dbVars, histVars>>
        /\ req[p].pc \in TokenPC
        /\ \/ Finish(p)
           \/ \E x \in TokenPC :
                 Become(p, Req("token", x, req[p].opState, req[p].code, 0, None))
    BY <1>6, ExchangeTurns DEF GetPKCERequestSession, GetAuthorizeCodeSession,
       ExchangeAuthorizationCode, TokenPC
  <2>2. \E r : Turns(p, r)
    BY <2>1, Finished, TokenTurns
  <2> QED BY <2>1, <2>2, TypeQuiet
<1>7. CASE DeletePKCERequestSession(p) \/ InvalidateAuthorizeCodeSession(p)
  <2>1. PICK x \in TokenPC :
            /\ req[p].pc \in TokenPC
            /\ Become(p, Req("token", x, req[p].opState, req[p].code, 0, None))
    BY <1>7 DEF DeletePKCERequestSession, InvalidateAuthorizeCodeSession, TokenPC
  <2>2. Turns(p, Req("token", x, req[p].opState, req[p].code, 0, None))
    BY <2>1, TokenTurns
  <2>3. StoreTypes' /\ HistTypes'
    BY <1>7, TypesKept DEF DeletePKCERequestSession, InvalidateAuthorizeCodeSession,
       TypeOK, StoreTypes
  <2> QED BY <2>2, <2>3, TypeByTurn
<1>8. CASE CreateAccessTokenSession(p)
  <2>1. req[p].opState \in OpStates /\ req[p].code \in Codes
    BY <1>8, ReqType DEF CreateAccessTokenSession, Shapes, Shape, Request, TokenPC
  <2>2. Turns(p, Idle)
    BY <1>8, Finished DEF CreateAccessTokenSession
  <2>3. StoreTypes' /\ HistTypes'
    BY <1>8, <2>1, TypesKept DEF CreateAccessTokenSession, TypeOK, StoreTypes, Token
  <2> QED BY <2>2, <2>3, TypeByTurn
<1> QED BY <1>1, <1>2, <1>3, <1>4, <1>5, <1>6, <1>7, <1>8 DEF Step

\* Every step keeps the types.
LEMMA TypeStep == TInv /\ [Next]_vars => TInv'
<1> SUFFICES ASSUME TInv, [Next]_vars PROVE TInv'
  OBVIOUS
<1>1. CASE UNCHANGED vars
  BY <1>1, TypesKept DEF vars
<1>2. ASSUME NEW r \in InitRequests, InitiateCredentialIssuance(r) PROVE TInv'
  <2>1. PICK d \in Document : docs' = [docs EXCEPT ![created + 1] = d]
    BY <1>2, CreatedDocument
  <2>2. created' \in 0..MaxTx
    BY <1>2, CreatedDocument, VCAssumption DEF TxIDs
  <2>3. StoreTypes'
    BY <1>2, <2>1 DEF InitiateCredentialIssuance, TInv, TypeOK, StoreTypes
  <2>4. HistTypes'
    <3>1. PICK e \in Document : initiated' = initiated \cup {TermsOf(e)}
      BY <1>2, CreatedDocument
    <3>2. TermsOf(e) \in Terms
      BY DEF Document, Terms, TermsOf
    <3> QED BY <1>2, <2>2, <3>1, <3>2 DEF InitiateCredentialIssuance, TInv, TypeOK, HistTypes
  <2>5. req' \in [Procs -> Request \cup {Idle}] /\ Shapes'
    BY <1>2 DEF InitiateCredentialIssuance, TInv, TypeOK, Shapes
  <2> QED BY <2>3, <2>4, <2>5 DEF TInv, TypeOK, StoreTypes, HistTypes
<1>3. ASSUME NEW p \in Procs, Step(p) PROVE TInv'
  BY <1>3, TypeStepOf
<1>4. ASSUME NEW p \in Procs, NEW r \in PushRequests, PushedAuthorization(p, r) PROVE TInv'
  <2>1. \E x : Turns(p, x)
    BY <1>4, PushTurns
  <2> QED BY <1>4, <2>1, TypeQuiet DEF PushedAuthorization
<1>5. ASSUME NEW p \in Procs, NEW r \in AuthRequests, OidcAuthorize(p, r) PROVE TInv'
  <2>1. \E x : Turns(p, x)
    BY <1>5, AuthorizeTurns
  <2> QED BY <1>5, <2>1, TypeQuiet DEF OidcAuthorize
<1>6. ASSUME NEW p \in Procs, NEW o \in OpStates, OidcRedirect(p, o) PROVE TInv'
  BY <1>6, RedirectTurns, TypeQuiet DEF OidcRedirect
<1>7. ASSUME NEW p \in Procs, NEW c \in Codes, OidcToken(p, c) PROVE TInv'
  BY <1>7, OidcTokenTurns, TypeQuiet DEF OidcToken
<1>8. ASSUME NEW p \in Procs, Fail(p) PROVE TInv'
  BY <1>8, Finished, TypeQuiet DEF Fail
<1>9. ASSUME NEW o \in OpStates, ReapState(o) PROVE TInv'
  <2>1. StoreTypes' /\ HistTypes' /\ UNCHANGED req
    BY <1>9, TypesKept DEF ReapState, TInv, TypeOK, StoreTypes
  <2> QED BY <2>1 DEF TInv, TypeOK, StoreTypes, HistTypes, Shapes
<1>10. ASSUME NEW i \in TxIDs, ReapTransaction(i) PROVE TInv'
  <2>1. StoreTypes' /\ HistTypes' /\ UNCHANGED req
    BY <1>10, TypesKept DEF ReapTransaction, TInv, TypeOK, StoreTypes
  <2> QED BY <2>1 DEF TInv, TypeOK, StoreTypes, HistTypes, Shapes
<1>11. ASSUME Tick PROVE TInv'
  <2>1. now' \in Time
    BY <1>11, VCAssumption DEF Tick, TInv, TypeOK
  <2>2. StoreTypes' /\ HistTypes' /\ UNCHANGED req
    BY <1>11, <2>1, TypesKept DEF Tick, TInv, TypeOK, StoreTypes
  <2> QED BY <2>2 DEF TInv, TypeOK, StoreTypes, HistTypes, Shapes
<1> QED BY <1>1, <1>2, <1>3, <1>4, <1>5, <1>6, <1>7, <1>8, <1>9, <1>10, <1>11 DEF Next

\* It holds at the start.
LEMMA TypeInit == Init => TInv
<1> SUFFICES ASSUME Init PROVE TInv
  OBVIOUS
<1>1. TypeOK
  BY VCAssumption DEF Init, TypeOK
<1>2. Shapes
  BY IdleFacts DEF Init, Shapes
<1> QED BY <1>1, <1>2 DEF TInv

\* The documents, sessions and requests always have their types.
THEOREM VCTypeCorrectness == Spec => []TypeOK
<1>1. TInv => TypeOK
  BY DEF TInv
<1> QED BY <1>1, TypeInit, TypeStep, PTL DEF Spec

-----------------------------------------------------------------------------
(* Transactions *)

\* A step that makes no transaction and only rewrites or removes stored ones.
Renewed ==
    /\ created' = created
    /\ initiated' = initiated
    /\ \A i \in TxIDs : docs'[i] # None => docs[i] # None /\ Same(docs'[i], docs[i])

\* Nothing is done to the transactions.
LEMMA RenewedKept ==
    ASSUME docs' = docs, created' = created, initiated' = initiated
    PROVE  Renewed
BY DEF Renewed, Same

\* Writes under way stay good, and op_states stay unique.
LEMMA RenewedGood ==
    ASSUME TInv, DocInv, Renewed
    PROVE  /\ OneTransactionPerOpState'
           /\ \A q \in Procs : WriteGood(req[q]) =>
                 (req[q].pc = "update" =>
                     /\ req[q].id <= created'
                     /\ AdOK(req[q].data)
                     /\ docs'[req[q].id] # None => Same(req[q].data, docs'[req[q].id]))
<1>1. \A i \in TxIDs : docs'[i] # None => docs[i] # None /\ docs'[i].opState = docs[i].opState
  BY DEF Renewed, Same, TermsOf
<1>2. OneTransactionPerOpState'
  BY <1>1 DEF DocInv, OneTransactionPerOpState
<1>3. ASSUME NEW q \in Procs, WriteGood(req[q]), req[q].pc = "update"
      PROVE  /\ req[q].id <= created'
             /\ AdOK(req[q].data)
             /\ docs'[req[q].id] # None => Same(req[q].data, docs'[req[q].id])
  <2>1. req[q].id \in TxIDs
    BY <1>3 DEF TInv, Shapes, Shape
  <2> QED BY <1>3, <2>1 DEF WriteGood, Renewed, Same
<1> QED BY <1>2, <1>3

\* A step of one request, which is going to write what it may, if anything.
LEMMA DocByTurn ==
    ASSUME TInv, DocInv, NEW p \in Procs, NEW r, Turns(p, r), Renewed, DocsGood',
           r.pc = "update" => /\ WriteGood(r)
                              /\ docs' = docs
    PROVE  DocInv'
<1>1. req'[p] = r /\ \A q \in Procs \ {p} : req'[q] = req[q]
  BY OneRequestChanges DEF Turns
<1>2. \A q \in Procs : WriteGood(req[q])
  BY DEF DocInv, WritesGood
<1>3. ASSUME NEW q \in Procs PROVE WriteGood(req[q])'
  <2>1. CASE q = p
    BY <1>1, <2>1 DEF WriteGood, Renewed
  <2>2. CASE q # p
    <3>1. req'[q] = req[q]
      BY <1>1, <2>2
    <3> QED BY <1>2, <3>1, RenewedGood DEF WriteGood
  <2> QED BY <2>1, <2>2
<1> QED BY <1>3, RenewedGood DEF DocInv, WritesGood

\* A step that leaves the transactions and the clock alone.
LEMMA DocQuiet ==
    ASSUME TInv, DocInv, NEW p \in Procs, NEW r, Turns(p, r),
           docs' = docs, created' = created, initiated' = initiated, now' = now,
           r.pc = "update" => WriteGood(r)
    PROVE  DocInv'
<1>1. Renewed
  BY RenewedKept
<1>2. DocsGood'
  BY DEF DocInv, DocsGood, AdOK, TermsOf
<1> QED BY <1>1, <1>2, DocByTurn

\* A step without a request of its own that rewrites or removes at most.
LEMMA DocOthers ==
    ASSUME TInv, DocInv, UNCHANGED req, Renewed, DocsGood'
    PROVE  DocInv'
<1>1. \A q \in Procs : WriteGood(req[q])'
  BY RenewedGood DEF DocInv, WritesGood, WriteGood
<1> QED BY <1>1, RenewedGood DEF DocInv, WritesGood

\* A request that read a transaction writes what fits it.
LEMMA ReadGood ==
    ASSUME TInv, DocInv, NEW i \in TxIDs, docs[i] # None, NEW d \in Data,
           Same(d, docs[i]), AdOK(d),
           NEW k \in Kind, NEW o \in OpStates, NEW c \in 0..MaxCode
    PROVE  WriteGood(Req(k, "update", o, c, i, d))
<1>1. "update" \in PC /\ i \in 0..MaxTx /\ i <= created
  BY DEF PC, TxIDs, DocInv, DocsGood
<1>2. Req(k, "update", o, c, i, d).id = i /\ Req(k, "update", o, c, i, d).data = d
  BY <1>1, ReqRecord
<1> QED BY <1>1, <1>2 DEF WriteGood

\* The same with details that were accepted.
LEMMA ReadDetailsGood ==
    ASSUME TInv, DocInv, NEW o \in OpStates, NEW i \in Found(o), NEW ad \in Details,
           AcceptDetails(ad, i), NEW k \in Kind
    PROVE  WriteGood(Req(k, "update", o, 0, i, WithDetails(ad, i)))
<1>1. i \in TxIDs /\ docs[i] # None /\ 0 \in 0..MaxCode
  BY VCAssumption DEF Found, Live
<1>2. WithDetails(ad, i) \in Data /\ Same(WithDetails(ad, i), docs[i])
      /\ WithDetails(ad, i).ad = ad
  BY <1>1, WithDetailsType DEF TInv
<1>3. AdOK(WithDetails(ad, i))
  BY <1>2 DEF AdOK, AcceptDetails, Same, TermsOf
<1> QED BY <1>1, <1>2, <1>3, ReadGood

\* An update rewrites the transaction it read, if it is still there.
LEMMA UpdateRenews ==
    ASSUME TInv, DocInv, NEW p \in Procs, UpdateTx(p)
    PROVE  Renewed /\ DocsGood'
<1> DEFINE i == req[p].id
           d == ToDocument(req[p].data)
<1>1. i \in TxIDs /\ req[p].data \in Data
  BY UpdateTurns
<1>2. d \in Document /\ Same(d, req[p].data) /\ d.ad = req[p].data.ad
      /\ d.expireAt = now + TTL
  BY <1>1, DocumentType DEF TInv
<1>3. AdOK(req[p].data) /\ (docs[i] # None => Same(req[p].data, docs[i]))
  BY DEF DocInv, WritesGood, WriteGood, UpdateTx
<1>4. docs' = (IF docs[i] = None THEN docs ELSE [docs EXCEPT ![i] = d])
      /\ created' = created /\ initiated' = initiated /\ now' = now
  BY DEF UpdateTx, UpdateDocument
<1>5. AdOK(d)
  BY <1>2, <1>3 DEF AdOK, Same, TermsOf
<1>6. now + TTL \in Nat
  BY VCAssumption DEF TInv, TypeOK
<1> HIDE DEF i, d
<1>7. docs \in [TxIDs -> Document \cup {None}]
  BY DEF TInv, TypeOK
<1>8. \A j \in TxIDs : docs'[j] = docs[j] \/ (j = i /\ docs[i] # None /\ docs'[j] = d)
  BY <1>1, <1>4, <1>7
<1>9. docs[i] # None => Same(d, docs[i])
  BY <1>2, <1>3 DEF Same, TermsOf, d, i
<1>10. Renewed
  BY <1>4, <1>8, <1>9 DEF Renewed, Same, TermsOf
<1>11. DocsGood'
  <2> SUFFICES ASSUME NEW j \in TxIDs, docs'[j] # None
               PROVE  /\ j <= created' /\ docs'[j].expireAt <= now' + TTL
                      /\ AdOK(docs'[j]) /\ TermsOf(docs'[j]) \in initiated'
    BY DEF DocsGood, AdOK, TermsOf
  <2>1. CASE docs'[j] = docs[j]
    BY <1>4, <2>1 DEF DocInv, DocsGood
  <2>2. CASE j = i /\ docs[i] # None /\ docs'[j] = d
    BY <1>2, <1>4, <1>5, <1>6, <1>9, <2>2 DEF DocInv, DocsGood, Same
  <2> QED BY <1>8, <2>1, <2>2
<1> QED BY <1>10, <1>11

\* Every step of a request keeps the transactions in order.
LEMMA DocStepOf ==
    ASSUME TInv, DocInv, NEW p \in Procs, Step(p)
    PROVE  DocInv'
<1>1. CASE UpdateTx(p)
  <2>1. Turns(p, AfterUpdate(req[p])) /\ AfterUpdate(req[p]).pc # "update"
    BY <1>1, UpdateTurns, IdleFacts
  <2> QED BY <1>1, <2>1, UpdateRenews, DocByTurn
<1>2. CASE NewAuthorizeResponse(p)
  <2>1. Turns(p, Req("authorize", "saveState", req[p].opState, coded + 1, 0, None))
        /\ Req("authorize", "saveState", req[p].opState, coded + 1, 0, None).pc # "update"
    BY <1>2, RespondTurns DEF ReqFields
  <2> QED BY <1>2, <2>1, DocQuiet DEF NewAuthorizeResponse
<1>3. CASE SaveAuthorizeState(p) \/ WriteAuthorizeResponse(p) \/ CreateAccessTokenSession(p)
  <2>1. Finish(p) /\ docs' = docs /\ created' = created /\ initiated' = initiated /\ now' = now
    BY <1>3 DEF SaveAuthorizeState, WriteAuthorizeResponse, CreateAccessTokenSession,
       dbVars, histVars
  <2> QED BY <2>1, Finished, IdleFacts, DocQuiet
<1>4. CASE StoreAuthorizationCode(p)
  <2> DEFINE o == req[p].opState
             c == req[p].code
  <2>0. docs' = docs /\ created' = created /\ initiated' = initiated /\ now' = now
    BY <1>4 DEF StoreAuthorizationCode, dbVars, histVars
  <2>1. o \in OpStates /\ c \in Codes /\ c \in 0..MaxCode
    BY <1>4, ReqType DEF StoreAuthorizationCode, TInv, Shapes, Shape, Request, StorePC, Codes
  <2>2. \/ Turns(p, Req("store", "disclose", o, c, 0, None))
        \/ \E i \in Found(o) : \E d \in Data :
              /\ Same(d, docs[i])
              /\ d.ad = docs[i].ad
              /\ Turns(p, Req("store", "update", o, c, i, d))
    BY <1>4, StoreTurns
  <2> HIDE DEF o, c
  <2>3. CASE Turns(p, Req("store", "disclose", o, c, 0, None))
    <3>1. "store" \in Kind /\ "disclose" \in PC
      BY DEF Kind, PC
    <3>2. Req("store", "disclose", o, c, 0, None).pc # "update"
      BY <2>1, <3>1, MovedFields DEF ReqFields
    <3> QED BY <2>0, <2>3, <3>2, DocQuiet
  <2>4. CASE \E i \in Found(o) : \E d \in Data :
              /\ Same(d, docs[i])
              /\ d.ad = docs[i].ad
              /\ Turns(p, Req("store", "update", o, c, i, d))
    <3>1. PICK i \in Found(o), d \in Data :
              /\ Same(d, docs[i])
              /\ d.ad = docs[i].ad
              /\ Turns(p, Req("store", "update", o, c, i, d))
      BY <2>4
    <3>2. i \in TxIDs /\ docs[i] # None /\ "store" \in Kind
      BY DEF Found, Live, Kind
    <3>3. AdOK(d)
      BY <3>1, <3>2 DEF DocInv, DocsGood, AdOK, Same, TermsOf
    <3>4. WriteGood(Req("store", "update", o, c, i, d))
      BY <2>1, <3>1, <3>2, <3>3, ReadGood
    <3> QED BY <2>0, <3>1, <3>4, DocQuiet
  <2> QED BY <2>2, <2>3, <2>4
<1>5. CASE GetPKCERequestSession(p) \/ GetAuthorizeCodeSession(p)
           \/ ExchangeAuthorizationCode(p) \/ DeletePKCERequestSession(p)
           \/ InvalidateAuthorizeCodeSession(p)
  <2>1. /\ docs' = docs /\ created' = created /\ initiated' = initiated /\ now' = now
        /\ req[p].pc \in TokenPC
        /\ \/ Finish(p)
           \/ \E x \in TokenPC :
                 Become(p, Req("token", x, req[p].opState, req[p].code, 0, None))
    BY <1>5, ExchangeTurns DEF GetPKCERequestSession, GetAuthorizeCodeSession,
       ExchangeAuthorizationCode, DeletePKCERequestSession,
       InvalidateAuthorizeCodeSession, TokenPC, dbVars, histVars
  <2>2. CASE Finish(p)
    BY <2>1, <2>2, Finished, IdleFacts, DocQuiet
  <2>3. ASSUME NEW x \in TokenPC,
               Become(p, Req("token", x, req[p].opState, req[p].code, 0, None))
        PROVE  DocInv'
    <3>1. /\ Turns(p, Req("token", x, req[p].opState, req[p].code, 0, None))
          /\ Req("token", x, req[p].opState, req[p].code, 0, None).pc = x
          /\ x # "update"
      BY <2>1, <2>3, TokenTurns DEF ReqFields, TokenPC
    <3> QED BY <2>1, <3>1, DocQuiet
  <2> QED BY <2>1, <2>2, <2>3
<1> QED BY <1>1, <1>2, <1>3, <1>4, <1>5 DEF Step

\* A new transaction has an op_state of its own, and nothing under way is about
\* it.
LEMMA DocCreate ==
    ASSUME TInv, DocInv, NEW r \in InitRequests, InitiateCredentialIssuance(r)
    PROVE  DocInv'
<1>1. created \in Nat /\ created + 1 \in TxIDs /\ created' = created + 1
  BY CreatedDocument
<1>2. PICK d \in Document : /\ docs' = [docs EXCEPT ![created + 1] = d]
                           /\ UniqueOpState(d.opState)
                           /\ d.ad = None /\ d.expireAt = now + TTL
                           /\ initiated' = initiated \cup {TermsOf(d)}
  BY CreatedDocument
<1>3. req' = req /\ now' = now /\ now + TTL \in Nat
  BY VCAssumption DEF InitiateCredentialIssuance, TInv, TypeOK
<1>4. docs \in [TxIDs -> Document \cup {None}]
  BY DEF TInv, TypeOK
<1>5. /\ docs'[created + 1] = d
      /\ \A i \in TxIDs : i # created + 1 => docs'[i] = docs[i]
  BY <1>1, <1>2, <1>4
<1>6. DocsGood'
  <2> SUFFICES ASSUME NEW i \in TxIDs, docs'[i] # None
               PROVE  /\ i <= created' /\ docs'[i].expireAt <= now' + TTL
                      /\ AdOK(docs'[i]) /\ TermsOf(docs'[i]) \in initiated'
    BY DEF DocsGood, AdOK, TermsOf
  <2>1. CASE i = created + 1
    BY <1>1, <1>2, <1>3, <1>5, <2>1 DEF AdOK
  <2>2. CASE i # created + 1
    BY <1>1, <1>2, <1>3, <1>5, <2>2 DEF DocInv, DocsGood, TxIDs
  <2> QED BY <2>1, <2>2
<1>7. WritesGood'
  <2> SUFFICES ASSUME NEW q \in Procs, req[q].pc = "update"
               PROVE  /\ req[q].id <= created'
                      /\ AdOK(req[q].data)
                      /\ docs'[req[q].id] # None => Same(req[q].data, docs'[req[q].id])
    BY <1>3 DEF WritesGood, WriteGood, AdOK, Same, TermsOf
  <2>1. req[q].id \in TxIDs /\ WriteGood(req[q])
    BY DEF TInv, Shapes, Shape, DocInv, WritesGood
  <2>2. req[q].id <= created /\ req[q].id \in Nat
    BY <2>1 DEF WriteGood, TxIDs
  <2>3. req[q].id # created + 1
    BY <1>1, <2>2
  <2>4. docs'[req[q].id] = docs[req[q].id]
    BY <1>5, <2>1, <2>3
  <2> QED BY <1>1, <2>1, <2>2, <2>4 DEF WriteGood
<1>8. OneTransactionPerOpState'
  <2> SUFFICES ASSUME NEW i \in TxIDs, NEW j \in TxIDs, docs'[i] # None, docs'[j] # None,
                      docs'[i].opState = docs'[j].opState
               PROVE  i = j
    BY DEF OneTransactionPerOpState
  <2>1. CASE i = created + 1 /\ j # created + 1
    BY <1>2, <1>5, <2>1 DEF UniqueOpState
  <2>2. CASE j = created + 1 /\ i # created + 1
    BY <1>2, <1>5, <2>2 DEF UniqueOpState
  <2>3. CASE i # created + 1 /\ j # created + 1
    BY <1>5, <2>3 DEF DocInv, OneTransactionPerOpState
  <2> QED BY <2>1, <2>2, <2>3
<1> QED BY <1>6, <1>7, <1>8 DEF DocInv

\* Every step keeps the transactions in order.
LEMMA DocStep == TInv /\ DocInv /\ [Next]_vars => DocInv'
<1> SUFFICES ASSUME TInv, DocInv, [Next]_vars PROVE DocInv'
  OBVIOUS
<1>0. ASSUME UNCHANGED <<docs, created, initiated, req>>, now' \in Time, now <= now' PROVE DocInv'
  <2>1. now \in Nat /\ now' \in Nat /\ TTL \in Nat
    BY <1>0, VCAssumption DEF TInv, TypeOK
  <2>2. DocsGood'
    <3> SUFFICES ASSUME NEW i \in TxIDs, docs[i] # None
                 PROVE  /\ i <= created /\ docs[i].expireAt <= now' + TTL
                        /\ AdOK(docs[i]) /\ TermsOf(docs[i]) \in initiated
      BY <1>0 DEF DocsGood, AdOK, TermsOf
    <3>1. docs[i].expireAt \in Nat
      BY DEF TInv, TypeOK, Document
    <3> QED BY <1>0, <2>1, <3>1 DEF DocInv, DocsGood
  <2> QED BY <1>0, <2>2, RenewedKept, DocOthers
<1>1. CASE UNCHANGED vars
  <2>1. UNCHANGED <<docs, created, initiated, req>> /\ now' = now
    BY <1>1 DEF vars, dbVars, histVars
  <2>2. now' \in Time /\ now <= now'
    BY <2>1, VCAssumption DEF TInv, TypeOK
  <2> QED BY <1>0, <2>1, <2>2
<1>2. ASSUME NEW r \in InitRequests, InitiateCredentialIssuance(r) PROVE DocInv'
  BY <1>2, DocCreate
<1>3. ASSUME NEW p \in Procs, Step(p) PROVE DocInv'
  BY <1>3, DocStepOf
<1>4. ASSUME NEW p \in Procs, NEW r \in PushRequests, PushedAuthorization(p, r)
      PROVE  DocInv'
  <2>1. PICK i \in Found(r.opState), ad \in Details :
            /\ AcceptDetails(ad, i)
            /\ Turns(p, Req("push", "update", r.opState, 0, i, WithDetails(ad, i)))
    BY <1>4, PushTurns
  <2>2. r.opState \in OpStates /\ "push" \in Kind
    BY VCAssumption DEF PushRequest, Kind
  <2>3. WriteGood(Req("push", "update", r.opState, 0, i, WithDetails(ad, i)))
    BY <2>1, <2>2, ReadDetailsGood
  <2> QED BY <1>4, <2>1, <2>3, DocQuiet DEF PushedAuthorization, dbVars, histVars
<1>5. ASSUME NEW p \in Procs, NEW r \in AuthRequests, OidcAuthorize(p, r) PROVE DocInv'
  <2>1. PICK i \in Found(r.opState), ad \in Details :
            /\ AcceptDetails(ad, i)
            /\ Turns(p, Req("authorize", "update", r.opState, 0, i, WithDetails(ad, i)))
    BY <1>5, AuthorizeTurns
  <2>2. r.opState \in OpStates /\ "authorize" \in Kind
    BY VCAssumption DEF AuthRequest, Kind
  <2>3. WriteGood(Req("authorize", "update", r.opState, 0, i, WithDetails(ad, i)))
    BY <2>1, <2>2, ReadDetailsGood
  <2> QED BY <1>5, <2>1, <2>3, DocQuiet DEF OidcAuthorize, dbVars, histVars
<1>6. ASSUME NEW p \in Procs, NEW o \in OpStates, OidcRedirect(p, o) PROVE DocInv'
  <2>1. /\ Turns(p, Req("store", "storeFind", o, states[o].code, 0, None))
        /\ Req("store", "storeFind", o, states[o].code, 0, None).pc # "update"
    BY <1>6, RedirectTurns DEF ReqFields
  <2> QED BY <1>6, <2>1, DocQuiet DEF OidcRedirect, dbVars, histVars
<1>7. ASSUME NEW p \in Procs, NEW c \in Codes, OidcToken(p, c) PROVE DocInv'
  <2>1. /\ Turns(p, Req("token", "pkceGet", codes[c].opState, c, 0, None))
        /\ Req("token", "pkceGet", codes[c].opState, c, 0, None).pc # "update"
    BY <1>7, OidcTokenTurns DEF ReqFields
  <2> QED BY <1>7, <2>1, DocQuiet DEF OidcToken, dbVars, histVars
<1>8. ASSUME NEW p \in Procs, Fail(p) PROVE DocInv'
  BY <1>8, Finished, IdleFacts, DocQuiet DEF Fail, dbVars, histVars
<1>9. ASSUME NEW o \in OpStates, ReapState(o) PROVE DocInv'
  <2>1. UNCHANGED <<docs, created, initiated, req>> /\ now' = now
    BY <1>9 DEF ReapState, histVars
  <2>2. now' \in Time /\ now <= now'
    BY <2>1, VCAssumption DEF TInv, TypeOK
  <2> QED BY <1>0, <2>1, <2>2
<1>10. ASSUME NEW i \in TxIDs, ReapTransaction(i) PROVE DocInv'
  <2>1. docs' = [docs EXCEPT ![i] = None] /\ UNCHANGED <<created, initiated, req, now>>
    BY <1>10 DEF ReapTransaction, histVars
  <2>2. \A j \in TxIDs : docs'[j] # None => docs'[j] = docs[j]
    BY <2>1 DEF TInv, TypeOK
  <2>3. Renewed /\ DocsGood'
    BY <2>1, <2>2 DEF Renewed, Same, TermsOf, DocInv, DocsGood, AdOK
  <2> QED BY <2>1, <2>3, DocOthers
<1>11. ASSUME Tick PROVE DocInv'
  <2>1. now' \in Time /\ now <= now' /\ UNCHANGED <<docs, created, initiated, req>>
    BY <1>11, VCAssumption DEF Tick, TInv, TypeOK, histVars
  <2> QED BY <1>0, <2>1
<1> QED BY <1>1, <1>2, <1>3, <1>4, <1>5, <1>6, <1>7, <1>8, <1>9, <1>10, <1>11 DEF Next

-----------------------------------------------------------------------------
(* Codes *)

\* A step makes codes only after the ones there are, takes sessions away at
\* most, and takes back neither a transaction's terms nor a released code.
Aging ==
    /\ coded <= coded'
    /\ now <= now'
    /\ initiated \subseteq initiated'
    /\ disclosed \subseteq disclosed'
    /\ \A c \in Codes : c <= coded => codes'[c] = codes[c] \/ codes'[c] = None

\* An answer is changed only while no released code of its op_state can be used.
Kept ==
    \A o \in OpStates :
        \/ states'[o] = states[o]
        \/ \A c \in Codes : Released(c, o) => ~Usable(c)

\* What an issuer initiated once can be authorized for good.
LEMMA AuthorizedGrows ==
    ASSUME initiated \subseteq initiated'
    PROVE  Authorized \subseteq Authorized'
BY DEF Authorized

\* A code that was earned stays earned.
LEMMA EarnedAges ==
    ASSUME TInv, TInv', Aging, NEW c \in Codes, NEW o, Earned(c, o)
    PROVE  Earned(c, o)'
<1>1. c \in Nat /\ coded \in Nat /\ coded' \in Nat
  BY DEF TInv, TypeOK, Codes
<1>2. Authorized \subseteq Authorized'
  BY AuthorizedGrows DEF Aging
<1> QED BY <1>1, <1>2 DEF Earned, Aging

\* What a code was it stays, or it is spent.
LEMMA CodeAges ==
    ASSUME TInv, TInv', Aging, NEW c \in Codes, c <= coded
    PROVE  /\ c <= coded'
           /\ codes'[c] = codes[c] \/ codes'[c] = None
           /\ Usable(c)' => Usable(c)
<1>1. c \in Nat /\ coded \in Nat /\ coded' \in Nat
  BY DEF TInv, TypeOK, Codes
<1>2. c <= coded' /\ (codes'[c] = codes[c] \/ codes'[c] = None)
  BY <1>1 DEF Aging
<1>3. ASSUME Usable(c)' PROVE Usable(c)
  <2>1. codes'[c] = codes[c] /\ codes[c] # None
    BY <1>2, <1>3 DEF Usable, Live
  <2>2. codes[c].at \in Nat /\ codes[c].expireAt \in Nat
    BY <2>1, VCAssumption DEF TInv, TypeOK, Session
  <2>3. now \in Nat /\ now' \in Nat /\ now <= now' /\ CodeLife \in Nat
    BY VCAssumption DEF TInv, TypeOK, Aging
  <2>4. now' <= codes[c].expireAt /\ now' <= codes[c].at + CodeLife
    BY <1>3, <2>1 DEF Usable, Live
  <2>5. now <= codes[c].expireAt /\ now <= codes[c].at + CodeLife
    BY <2>2, <2>3, <2>4, VCAssumption
  <2> QED BY <2>1, <2>5 DEF Usable, Live
<1> QED BY <1>2, <1>3

\* A released code stays one.
LEMMA ReleasedAges ==
    ASSUME TInv, TInv', Aging, Kept, NEW c \in Codes, NEW o \in OpStates,
           Released(c, o)
    PROVE  Released(c, o)'
<1>1. c <= coded /\ (codes[c] # None => codes[c].opState = o)
  BY DEF Released, CodeOf
<1>2. /\ c <= coded'
      /\ codes'[c] = codes[c] \/ codes'[c] = None
      /\ Usable(c)' => Usable(c)
  BY <1>1, CodeAges
<1>3. CodeOf(c, o)'
  BY <1>1, <1>2 DEF CodeOf
<1>4. ASSUME Usable(c)' PROVE states'[o] # None /\ states'[o].code = c
  <2>1. states'[o] = states[o]
    BY <1>2, <1>4 DEF Kept
  <2> QED BY <1>2, <1>4, <2>1 DEF Released, OnlyKept
<1> QED BY <1>3, <1>4 DEF Released, OnlyKept

\* What a request is allowed to be when a step ends.
Fits(r) ==
    /\ r.kind = "authorize" => r.opState \in Authorized'
    /\ r.pc = "saveState" => /\ r.code <= coded'
                             /\ codes'[r.code] # None => codes'[r.code].opState = r.opState
    /\ r.kind = "store" => Released(r.code, r.opState)
    /\ r.kind = "token" => /\ r.code <= coded' /\ r.opState \in Authorized'
                           /\ <<r.code, r.opState>> \in disclosed'
    /\ r.pc = "createToken" => codes'[r.code] = None

\* A request that was allowed still is.
LEMMA UseFits ==
    ASSUME TInv, TInv', Aging, NEW r \in Request \cup {Idle}, Shape(r), CodeUse(r)
    PROVE  Fits(r)
<1>1. CASE r = Idle
  BY <1>1 DEF Idle, Fits
<1>2. CASE r \in Request
  <2>1. r.opState \in OpStates
    BY <1>2 DEF Request
  <2>2. ASSUME r.pc = "saveState"
        PROVE  r.code <= coded' /\ (codes'[r.code] # None => codes'[r.code].opState = r.opState)
    <3>1. r.code \in Codes /\ CodeOf(r.code, r.opState)
      BY <2>2 DEF Shape, CodeUse
    <3>2. r.code <= coded /\ (codes[r.code] # None => codes[r.code].opState = r.opState)
      BY <3>1 DEF CodeOf
    <3> QED BY <3>1, <3>2, CodeAges
  <2>3. ASSUME r.kind = "token"
        PROVE  /\ r.code <= coded' /\ r.opState \in Authorized'
               /\ <<r.code, r.opState>> \in disclosed'
    <3>1. r.code \in Codes /\ Earned(r.code, r.opState)
      BY <2>3 DEF Shape, CodeUse
    <3> QED BY <3>1, EarnedAges DEF Earned
  <2>4. ASSUME r.pc = "createToken" PROVE codes'[r.code] = None
    <3>1. r.code \in Codes /\ r.code <= coded /\ codes[r.code] = None
      BY <2>4 DEF Shape, CodeUse, TokenPC, Earned
    <3> QED BY <3>1, CodeAges
  <2>5. ASSUME r.kind = "authorize" PROVE r.opState \in Authorized'
    BY <2>5, AuthorizedGrows DEF CodeUse, Aging
  <2> QED BY <2>2, <2>3, <2>4, <2>5 DEF Fits, CodeUse
<1> QED BY <1>1, <1>2

\* If all requests fit then they are allowed afterwards.
LEMMA FitsUse ==
    ASSUME TInv, TInv', Aging, Kept, \A q \in Procs : Fits(req'[q])
    PROVE  UsesGood'
<1>1. \A c \in Codes : \A o \in OpStates : Released(c, o) =>
          c <= coded' /\ (codes'[c] # None => codes'[c].opState = o)
          /\ ((codes'[c] # None /\ now' <= codes'[c].expireAt
               /\ now' <= codes'[c].at + CodeLife)
              => states'[o] # None /\ states'[o].code = c)
  BY ReleasedAges DEF Released, CodeOf, OnlyKept, Usable, Live
<1>2. ASSUME NEW q \in Procs PROVE CodeUse(req[q])'
  <2>1. Fits(req'[q])
    BY <1>2
  <2>2. req'[q].kind = "store" => req'[q].code \in Codes /\ req'[q].opState \in OpStates
    BY DEF TInv, TypeOK, Shapes, Shape, Request, Idle
  <2> QED BY <1>1, <2>1, <2>2
          DEF CodeUse, Fits, CodeOf, Released, Earned, OnlyKept, Usable, Live
<1> QED BY <1>2 DEF UsesGood

\* A step keeps the codes in order if it ages them, what it discloses was
\* released, the code of a new token was earned and is spent, and its request
\* fits.
LEMMA CodeByFits ==
    ASSUME TInv, TInv', CodeInv, Aging, Kept, CodesGood', StatesGood',
           \A q \in Procs : Fits(req'[q]),
           \A c \in Codes : \A o \in OpStates :
               <<c, o>> \in disclosed' => <<c, o>> \in disclosed \/ Released(c, o),
           \A t \in tokens' : \/ t \in tokens
                              \/ Earned(t.code, t.opState) /\ codes[t.code] = None
    PROVE  CodeInv'
<1>1. UsesGood'
  BY FitsUse
<1>2. DisclosedGood'
  <2> SUFFICES ASSUME NEW c \in Codes, NEW o \in OpStates, <<c, o>> \in disclosed'
               PROVE  Released(c, o)'
    BY DEF DisclosedGood
  <2>1. Released(c, o)
    BY DEF CodeInv, DisclosedGood
  <2> QED BY <2>1, ReleasedAges
<1>3. TokensGood'
  <2> SUFFICES ASSUME NEW t \in tokens'
               PROVE  /\ t.code <= coded' /\ t.opState \in Authorized'
                      /\ <<t.code, t.opState>> \in disclosed'
                      /\ codes'[t.code] = None
    BY DEF TokensGood, Earned
  <2>1. Earned(t.code, t.opState) /\ codes[t.code] = None
    BY DEF CodeInv, TokensGood
  <2>2. t.code \in Codes
    BY DEF TInv, TypeOK, Token
  <2>3. /\ t.code <= coded' /\ t.opState \in Authorized'
        /\ <<t.code, t.opState>> \in disclosed'
    BY <2>1, <2>2, EarnedAges DEF Earned
  <2> QED BY <2>1, <2>2, <2>3, CodeAges DEF Earned
<1> QED BY <1>1, <1>2, <1>3 DEF CodeInv

\* The requests fit when p turned to r, which does.
LEMMA FitsByTurn ==
    ASSUME TInv, TInv', CodeInv, Aging, NEW p \in Procs, NEW r, Turns(p, r), Fits(r)
    PROVE  \A q \in Procs : Fits(req'[q])
<1>1. req'[p] = r /\ \A q \in Procs \ {p} : req'[q] = req[q]
  BY OneRequestChanges DEF Turns
<1>2. ASSUME NEW q \in Procs, q # p PROVE Fits(req'[q])
  <2>1. req'[q] = req[q] /\ req[q] \in Request \cup {Idle} /\ Shape(req[q])
        /\ CodeUse(req[q])
    BY <1>1, <1>2 DEF TInv, TypeOK, Shapes, CodeInv, UsesGood
  <2>2. Fits(req[q])
    BY <2>1, UseFits
  <2> QED BY <2>1, <2>2
<1> QED BY <1>1, <1>2

\* They fit when none of them changes.
LEMMA FitsOthers ==
    ASSUME TInv, TInv', CodeInv, Aging, UNCHANGED req
    PROVE  \A q \in Procs : Fits(req'[q])
<1>1. ASSUME NEW q \in Procs PROVE Fits(req[q])
  <2>1. req[q] \in Request \cup {Idle} /\ Shape(req[q]) /\ CodeUse(req[q])
    BY DEF TInv, TypeOK, Shapes, CodeInv, UsesGood
  <2> QED BY <2>1, UseFits
<1> QED BY <1>1

\* The sessions stay in order when none is made.
LEMMA SessionsAge ==
    ASSUME TInv, TInv', CodeInv, Aging,
           \A c \in Codes : codes'[c] = codes[c] \/ codes'[c] = None
    PROVE  CodesGood'
<1> SUFFICES ASSUME NEW c \in Codes, codes'[c] # None
             PROVE  c <= coded' /\ codes'[c].at <= now' /\ codes'[c].opState \in Authorized'
  BY DEF CodesGood
<1>1. codes'[c] = codes[c] /\ c <= coded /\ codes[c].at <= now
      /\ codes[c].opState \in Authorized
  BY DEF CodeInv, CodesGood
<1>2. codes[c].at \in Nat /\ now \in Nat /\ now' \in Nat
  BY <1>1, VCAssumption DEF TInv, TypeOK, Session
<1>3. Authorized \subseteq Authorized'
  BY AuthorizedGrows DEF Aging
<1> QED BY <1>1, <1>2, <1>3, CodeAges DEF Aging

\* The answers stay in order when none is kept.
LEMMA AnswersAge ==
    ASSUME TInv, TInv', CodeInv, Aging,
           \A o \in OpStates : states'[o] = states[o] \/ states'[o] = None
    PROVE  StatesGood'
<1> SUFFICES ASSUME NEW o \in OpStates, states'[o] # None
             PROVE  /\ states'[o].code <= coded'
                    /\ codes'[states'[o].code] # None =>
                          /\ codes'[states'[o].code].opState = o
                          /\ codes'[states'[o].code].at + TTL <= states'[o].expireAt
  BY DEF StatesGood, CodeOf
<1>1. states'[o] = states[o] /\ states[o].code \in Codes
  BY DEF TInv, TypeOK, AuthorizeState
<1>2. /\ states[o].code <= coded
      /\ codes[states[o].code] # None =>
            /\ codes[states[o].code].opState = o
            /\ codes[states[o].code].at + TTL <= states[o].expireAt
  BY <1>1 DEF CodeInv, StatesGood, CodeOf
<1> QED BY <1>1, <1>2, CodeAges

\* Nothing is done to codes and answers.
LEMMA CodesKept ==
    ASSUME TInv, TInv', CodeInv, now <= now', initiated \subseteq initiated',
           disclosed \subseteq disclosed', UNCHANGED <<codes, coded, states>>
    PROVE  Aging /\ Kept /\ CodesGood' /\ StatesGood'
<1>1. coded <= coded'
  BY DEF TInv, TypeOK
<1>2. Aging
  BY <1>1 DEF Aging
<1>3. Kept
  BY DEF Kept
<1> QED BY <1>2, <1>3, SessionsAge, AnswersAge

\* A step of one request that leaves codes, answers, tokens and terms alone.
LEMMA CodeQuiet ==
    ASSUME TInv, TInv', CodeInv, NEW p \in Procs, NEW r, Turns(p, r), CodeUse(r),
           UNCHANGED <<codes, coded, states, now, initiated, tokens, disclosed>>
    PROVE  CodeInv'
<1>1. now <= now' /\ initiated \subseteq initiated' /\ disclosed \subseteq disclosed'
  BY VCAssumption DEF TInv, TypeOK
<1>2. Aging /\ Kept /\ CodesGood' /\ StatesGood'
  BY <1>1, CodesKept
<1>3. Fits(r)
  BY <1>2, UseFits DEF Turns
<1>4. \A q \in Procs : Fits(req'[q])
  BY <1>2, <1>3, FitsByTurn
<1> QED BY <1>2, <1>4, CodeByFits

\* A finished request has no use of a code.
LEMMA CodeFinished ==
    ASSUME TInv, TInv', CodeInv, NEW p \in Procs, Finish(p),
           UNCHANGED <<codes, coded, states, now, initiated, tokens, disclosed>>
    PROVE  CodeInv'
BY Finished, IdleFacts, CodeQuiet

\* A token request goes on with its code.
LEMMA TokenGoesOn ==
    ASSUME TInv, TInv', CodeInv, NEW p \in Procs, req[p].pc \in TokenPC,
           NEW x \in TokenPC \ {"createToken"},
           Become(p, Req("token", x, req[p].opState, req[p].code, 0, None)),
           UNCHANGED <<codes, coded, states, now, initiated, tokens, disclosed>>
    PROVE  CodeInv'
<1> DEFINE r == Req("token", x, req[p].opState, req[p].code, 0, None)
<1>1. /\ req[p].kind = "token" /\ Turns(p, r)
      /\ r.kind = "token" /\ r.pc = x /\ r.opState = req[p].opState /\ r.code = req[p].code
  BY TokenTurns DEF ReqFields
<1> HIDE DEF r
<1>2. CodeUse(req[p])
  BY DEF CodeInv, UsesGood
<1>3. CodeUse(r)
  BY <1>1, <1>2 DEF CodeUse, TokenPC
<1> QED BY <1>1, <1>3, CodeQuiet

\* A new code is of the op_state of its request; the others stay what they are.
LEMMA CodeMade ==
    ASSUME TInv, TInv', CodeInv, NEW p \in Procs, NewAuthorizeResponse(p)
    PROVE  CodeInv'
<1> DEFINE o == req[p].opState
           n == coded + 1
           r == Req("authorize", "saveState", o, n, 0, None)
<1>0. o \in Authorized
  BY DEF CodeInv, UsesGood, CodeUse, TInv, Shapes, Shape, NewAuthorizeResponse
<1>1. /\ o \in OpStates /\ n \in Codes /\ Turns(p, r)
      /\ r.kind = "authorize" /\ r.pc = "saveState" /\ r.opState = o /\ r.code = n
  BY RespondTurns DEF ReqFields
<1>2. NewSession(o).opState = o /\ NewSession(o).at = now
  BY <1>1, SessionType
<1>3. /\ coded' = n /\ codes' = [codes EXCEPT ![n] = NewSession(o)]
      /\ UNCHANGED <<states, now, initiated, tokens, disclosed>>
  BY DEF NewAuthorizeResponse
<1>4. codes \in [Codes -> Session \cup {None}] /\ coded \in Nat /\ now \in Nat
  BY VCAssumption DEF TInv, TypeOK
<1>5. coded < n /\ \A c \in Codes : c <= coded => c # n
  BY <1>4 DEF Codes
<1> HIDE DEF r, o, n
<1>6. codes'[n] = NewSession(o) /\ \A c \in Codes : c # n => codes'[c] = codes[c]
  BY <1>1, <1>3, <1>4
<1>7. Aging
  BY <1>1, <1>3, <1>4, <1>5, <1>6 DEF Aging, Codes
<1>8. Kept
  BY <1>3 DEF Kept
<1>9. CodesGood'
  <2> SUFFICES ASSUME NEW c \in Codes, codes'[c] # None
               PROVE  c <= coded' /\ codes'[c].at <= now' /\ codes'[c].opState \in Authorized'
    BY DEF CodesGood
  <2>0. Authorized' = Authorized
    BY <1>3 DEF Authorized
  <2>1. CASE c = n
    BY <1>0, <1>1, <1>2, <1>3, <1>4, <1>6, <2>0, <2>1 DEF Codes
  <2>2. CASE c # n
    <3>1. c <= coded /\ codes'[c] = codes[c] /\ codes[c].at <= now
          /\ codes[c].opState \in Authorized
      BY <1>6, <2>2 DEF CodeInv, CodesGood
    <3> QED BY <1>3, <1>7, <2>0, <3>1, CodeAges
  <2> QED BY <2>1, <2>2
<1>10. StatesGood'
  BY <1>3, <1>7, AnswersAge
<1>11. Fits(r)
  <2>1. n <= coded'
    BY <1>1, <1>3 DEF Codes
  <2>2. o \in Authorized'
    BY <1>0, <1>3 DEF Authorized
  <2> QED BY <1>1, <1>2, <1>6, <2>1, <2>2 DEF Fits
<1>12. \A q \in Procs : Fits(req'[q])
  BY <1>1, <1>7, <1>11, FitsByTurn
<1> QED BY <1>3, <1>7, <1>8, <1>9, <1>10, <1>12, CodeByFits

\* An answer is kept only when the earlier one is gone, and then no code of the
\* op_state can be used.
LEMMA AnswerKept ==
    ASSUME TInv, TInv', CodeInv, NEW p \in Procs, SaveAuthorizeState(p)
    PROVE  CodeInv'
<1> DEFINE o == req[p].opState
           n == req[p].code
<1>1. /\ Finish(p) /\ req[p].pc = "saveState"
      /\ UNCHANGED <<codes, coded, now, initiated, tokens, disclosed>>
  BY DEF SaveAuthorizeState, histVars
<1>2. CASE states' = states
  BY <1>1, <1>2, CodeFinished
<1>3. CASE states[o] = None /\ KeepAnswer(o, n)
  <2>1. o \in OpStates /\ n \in Codes
    BY <1>1, ReqType DEF TInv, Shapes, Shape, Request
  <2>2. CodeOf(n, o)
    BY <1>1 DEF CodeInv, UsesGood, CodeUse
  <2>3. n <= coded /\ (codes[n] # None => codes[n].opState = o /\ codes[n].at <= now)
    BY <2>1, <2>2 DEF CodeOf, CodeInv, CodesGood
  <2> HIDE DEF o, n
  <2>4. states' = [states EXCEPT ![o] = [code |-> n, expireAt |-> now + TTL]]
    BY <1>3 DEF KeepAnswer
  <2>5. states'[o] = [code |-> n, expireAt |-> now + TTL]
        /\ \A u \in OpStates : u # o => states'[u] = states[u]
    BY <2>1, <2>4 DEF TInv, TypeOK
  <2>6. Aging
    BY <1>1, VCAssumption DEF Aging, TInv, TypeOK
  <2>7. Kept
    BY <1>3, <2>5 DEF Kept, Released, OnlyKept
  <2>8. CodesGood'
    BY <1>1, <2>6, SessionsAge
  <2>9. StatesGood'
    <3> SUFFICES ASSUME NEW u \in OpStates, states'[u] # None
                 PROVE  /\ states'[u].code <= coded
                        /\ codes[states'[u].code] # None =>
                              /\ codes[states'[u].code].opState = u
                              /\ codes[states'[u].code].at + TTL <= states'[u].expireAt
      BY <1>1 DEF StatesGood, CodeOf
    <3>1. CASE u = o
      <4>1. states'[u].code = n /\ states'[u].expireAt = now + TTL
        BY <2>5, <3>1
      <4>2. codes[n] # None => codes[n].at + TTL <= now + TTL
        <5>1. now \in Nat /\ TTL \in Nat
          BY VCAssumption DEF TInv, TypeOK
        <5>2. codes[n] # None => codes[n].at \in Nat
          BY <2>1, VCAssumption DEF TInv, TypeOK, Session
        <5> QED BY <2>3, <5>1, <5>2
      <4> QED BY <2>3, <3>1, <4>1, <4>2
    <3>2. CASE u # o
      BY <2>5, <3>2 DEF CodeInv, StatesGood, CodeOf
    <3> QED BY <3>1, <3>2
  <2>10. Turns(p, Idle) /\ Fits(Idle)
    BY <1>1, <2>6, Finished, IdleFacts, UseFits
  <2>11. \A q \in Procs : Fits(req'[q])
    BY <2>6, <2>10, FitsByTurn
  <2> QED BY <1>1, <2>6, <2>7, <2>8, <2>9, <2>11, CodeByFits
<1> QED BY <1>2, <1>3 DEF SaveAuthorizeState

\* The token request that invalidates its code.
LEMMA CodeSpent ==
    ASSUME TInv, TInv', CodeInv, NEW p \in Procs, InvalidateAuthorizeCodeSession(p)
    PROVE  CodeInv'
<1> DEFINE r == Req("token", "createToken", req[p].opState, req[p].code, 0, None)
<1>1. /\ req[p].pc \in TokenPC /\ "createToken" \in TokenPC /\ Become(p, r)
      /\ codes' = [codes EXCEPT ![req[p].code] = None]
      /\ UNCHANGED <<coded, states, now, initiated, tokens, disclosed>>
  BY DEF InvalidateAuthorizeCodeSession, TokenPC, histVars
<1>2. /\ req[p].kind = "token" /\ Turns(p, r) /\ req[p].code \in Codes
      /\ r.kind = "token" /\ r.pc = "createToken" /\ r.opState = req[p].opState
      /\ r.code = req[p].code
  BY <1>1, TokenTurns DEF ReqFields
<1> HIDE DEF r
<1>3. /\ codes'[req[p].code] = None
      /\ \A c \in Codes : codes'[c] = codes[c] \/ codes'[c] = None
  BY <1>1, <1>2 DEF TInv, TypeOK
<1>4. Aging
  BY <1>1, <1>3, VCAssumption DEF Aging, TInv, TypeOK
<1>5. Kept
  BY <1>1 DEF Kept
<1>6. CodesGood' /\ StatesGood'
  BY <1>1, <1>3, <1>4, SessionsAge, AnswersAge
<1>7. Earned(req[p].code, req[p].opState)
  BY <1>2 DEF CodeInv, UsesGood, CodeUse
<1>8. Fits(r)
  <2>1. /\ r.code <= coded' /\ r.opState \in Authorized'
        /\ <<r.code, r.opState>> \in disclosed'
    BY <1>1, <1>2, <1>7 DEF Earned, Authorized
  <2> QED BY <1>2, <1>3, <2>1 DEF Fits
<1>9. \A q \in Procs : Fits(req'[q])
  BY <1>2, <1>4, <1>8, FitsByTurn
<1> QED BY <1>1, <1>4, <1>5, <1>6, <1>9, CodeByFits

\* Every step of a request keeps the codes in order.
LEMMA CodeStepOf ==
    ASSUME TInv, TInv', CodeInv, NEW p \in Procs, Step(p)
    PROVE  CodeInv'
<1>0. CodeUse(req[p]) /\ Shape(req[p])
  BY DEF CodeInv, UsesGood, TInv, Shapes
<1>1. CASE UpdateTx(p)
  <2>1. /\ Turns(p, AfterUpdate(req[p]))
        /\ \/ AfterUpdate(req[p]) = Idle
           \/ /\ AfterUpdate(req[p]).pc \in {"respond", "disclose", "access"}
              /\ AfterUpdate(req[p]).kind = req[p].kind
              /\ AfterUpdate(req[p]).opState = req[p].opState
              /\ AfterUpdate(req[p]).code = req[p].code
    BY <1>1, UpdateTurns
  <2>2. CodeUse(AfterUpdate(req[p]))
    BY <1>0, <2>1, IdleFacts DEF CodeUse
  <2>3. UNCHANGED <<codes, coded, states, now, initiated, tokens, disclosed>>
    BY <1>1 DEF UpdateTx
  <2> QED BY <2>1, <2>2, <2>3, CodeQuiet
<1>2. CASE NewAuthorizeResponse(p)
  BY <1>2, CodeMade
<1>3. CASE SaveAuthorizeState(p)
  BY <1>3, AnswerKept
<1>4. CASE StoreAuthorizationCode(p)
  <2> DEFINE o == req[p].opState
             c == req[p].code
  <2>0. UNCHANGED <<codes, coded, states, now, initiated, tokens, disclosed>>
    BY <1>4 DEF StoreAuthorizationCode, dbVars, histVars
  <2>1. o \in OpStates /\ c \in Codes /\ c \in 0..MaxCode
    BY <1>4, ReqType DEF StoreAuthorizationCode, TInv, Shapes, Shape, Request, StorePC, Codes
  <2>2. /\ req[p].kind = "store"
        /\ \/ Turns(p, Req("store", "disclose", o, c, 0, None))
           \/ \E i \in Found(o) : \E d \in Data :
                 Turns(p, Req("store", "update", o, c, i, d))
    BY <1>4, StoreTurns
  <2>3. Released(c, o)
    BY <1>0, <2>2 DEF CodeUse
  <2> HIDE DEF o, c
  <2>4. CASE Turns(p, Req("store", "disclose", o, c, 0, None))
    <3>1. "store" \in Kind /\ "disclose" \in PC
      BY DEF Kind, PC
    <3>2. CodeUse(Req("store", "disclose", o, c, 0, None))
      BY <2>1, <2>3, <3>1, MovedFields DEF ReqFields, CodeUse
    <3> QED BY <2>0, <2>4, <3>2, CodeQuiet
  <2>5. ASSUME NEW i \in Found(o), NEW d \in Data,
               Turns(p, Req("store", "update", o, c, i, d))
        PROVE  CodeInv'
    <3>1. "store" \in Kind /\ "update" \in PC /\ i \in 0..MaxTx
      BY DEF Kind, PC, Found, TxIDs
    <3>2. CodeUse(Req("store", "update", o, c, i, d))
      BY <2>1, <2>3, <3>1, ReqRecord DEF CodeUse
    <3> QED BY <2>0, <2>5, <3>2, CodeQuiet
  <2> QED BY <2>2, <2>4, <2>5
<1>5. CASE WriteAuthorizeResponse(p)
  <2>1. /\ Finish(p) /\ req[p].pc = "disclose"
        /\ UNCHANGED <<codes, coded, states, now, initiated, tokens>>
        /\ disclosed' = disclosed \cup {<<req[p].code, req[p].opState>>}
    BY <1>5 DEF WriteAuthorizeResponse, dbVars
  <2>2. Released(req[p].code, req[p].opState)
    BY <1>0, <2>1 DEF CodeUse, Shape, StorePC
  <2>3. now <= now' /\ initiated \subseteq initiated' /\ disclosed \subseteq disclosed'
    BY <2>1, VCAssumption DEF TInv, TypeOK
  <2>4. Aging /\ Kept /\ CodesGood' /\ StatesGood'
    BY <2>1, <2>3, CodesKept
  <2>5. Turns(p, Idle) /\ Fits(Idle)
    BY <2>1, <2>4, Finished, IdleFacts, UseFits
  <2>6. \A q \in Procs : Fits(req'[q])
    BY <2>4, <2>5, FitsByTurn
  <2>7. \A c \in Codes : \A o \in OpStates :
            <<c, o>> \in disclosed' => <<c, o>> \in disclosed \/ Released(c, o)
    <3> SUFFICES ASSUME NEW c \in Codes, NEW o \in OpStates, <<c, o>> \in disclosed',
                        <<c, o>> \notin disclosed
                 PROVE  Released(c, o)
      OBVIOUS
    <3>1. c = req[p].code /\ o = req[p].opState
      BY <2>1
    <3> QED BY <2>2, <3>1
  <2> QED BY <2>1, <2>4, <2>6, <2>7, CodeByFits
<1>6. CASE GetPKCERequestSession(p) \/ GetAuthorizeCodeSession(p)
           \/ ExchangeAuthorizationCode(p) \/ DeletePKCERequestSession(p)
  <2>1. /\ UNCHANGED <<codes, coded, states, now, initiated, tokens, disclosed>>
        /\ req[p].pc \in TokenPC
        /\ \/ Finish(p)
           \/ \E x \in TokenPC \ {"createToken"} :
                 Become(p, Req("token", x, req[p].opState, req[p].code, 0, None))
    BY <1>6, ExchangeTurns DEF GetPKCERequestSession, GetAuthorizeCodeSession,
       ExchangeAuthorizationCode, DeletePKCERequestSession, TokenPC, dbVars, histVars
  <2> QED BY <2>1, CodeFinished, TokenGoesOn
<1>7. CASE InvalidateAuthorizeCodeSession(p)
  BY <1>7, CodeSpent
<1>8. CASE CreateAccessTokenSession(p)
  <2>1. /\ Finish(p) /\ req[p].pc = "createToken"
        /\ UNCHANGED <<codes, coded, states, now, initiated, disclosed>>
        /\ tokens' = tokens \cup {[code |-> req[p].code, opState |-> req[p].opState]}
    BY <1>8 DEF CreateAccessTokenSession, histVars
  <2>2. Earned(req[p].code, req[p].opState) /\ codes[req[p].code] = None
    BY <1>0, <2>1 DEF CodeUse, Shape, TokenPC
  <2>3. now <= now' /\ initiated \subseteq initiated' /\ disclosed \subseteq disclosed'
    BY <2>1, VCAssumption DEF TInv, TypeOK
  <2>4. Aging /\ Kept /\ CodesGood' /\ StatesGood'
    BY <2>1, <2>3, CodesKept
  <2>5. Turns(p, Idle) /\ Fits(Idle)
    BY <2>1, <2>4, Finished, IdleFacts, UseFits
  <2>6. \A q \in Procs : Fits(req'[q])
    BY <2>4, <2>5, FitsByTurn
  <2>7. \A t \in tokens' : t \in tokens \/ (Earned(t.code, t.opState)
                                            /\ codes[t.code] = None)
    BY <2>1, <2>2
  <2> QED BY <2>1, <2>4, <2>6, <2>7, CodeByFits
<1> QED BY <1>1, <1>2, <1>3, <1>4, <1>5, <1>6, <1>7, <1>8 DEF Step

\* An answer is removed only when its code is too old to be used.
LEMMA AnswerReaped ==
    ASSUME TInv, TInv', CodeInv, NEW o \in OpStates, ReapState(o)
    PROVE  CodeInv'
<1>1. /\ Expired(states[o]) /\ states' = [states EXCEPT ![o] = None]
      /\ UNCHANGED <<codes, coded, now, initiated, tokens, disclosed, req>>
  BY DEF ReapState, histVars
<1>2. states'[o] = None /\ \A u \in OpStates : u # o => states'[u] = states[u]
  BY <1>1 DEF TInv, TypeOK
<1>3. Aging
  BY <1>1, VCAssumption DEF Aging, TInv, TypeOK
<1>4. ASSUME NEW c \in Codes, Released(c, o), Usable(c) PROVE FALSE
  <2>1. states[o] # None /\ states[o].code = c /\ codes[c] # None
        /\ now <= codes[c].at + CodeLife
    BY <1>4 DEF Released, OnlyKept, Usable, Live
  <2>2. codes[c].at + TTL <= states[o].expireAt /\ states[o].expireAt <= now
    BY <1>1, <2>1 DEF CodeInv, StatesGood, Expired
  <2>3. codes[c].at \in Nat /\ states[o].expireAt \in Nat /\ now \in Nat
    BY <2>1, VCAssumption DEF TInv, TypeOK, Session, AuthorizeState
  <2> QED BY <2>1, <2>2, <2>3, VCAssumption
<1>5. Kept
  BY <1>2, <1>4 DEF Kept
<1>6. CodesGood' /\ StatesGood'
  BY <1>1, <1>2, <1>3, SessionsAge, AnswersAge
<1>7. \A q \in Procs : Fits(req'[q])
  BY <1>1, <1>3, FitsOthers
<1> QED BY <1>1, <1>3, <1>5, <1>6, <1>7, CodeByFits

\* A step without a request that leaves codes and answers alone.
LEMMA CodeOthers ==
    ASSUME TInv, TInv', CodeInv, now <= now', initiated \subseteq initiated',
           UNCHANGED <<codes, coded, states, tokens, disclosed, req>>
    PROVE  CodeInv'
<1>1. Aging /\ Kept /\ CodesGood' /\ StatesGood'
  BY CodesKept
<1>2. \A q \in Procs : Fits(req'[q])
  BY <1>1, FitsOthers
<1> QED BY <1>1, <1>2, CodeByFits

\* A request that is about to write a transaction uses no code yet.
LEMMA CodeUnused ==
    ASSUME NEW k \in {"push", "authorize"}, NEW o \in OpStates, NEW i \in TxIDs,
           NEW d \in Data, k = "authorize" => o \in Authorized
    PROVE  CodeUse(Req(k, "update", o, 0, i, d))
<1>1. k \in Kind /\ "update" \in PC /\ 0 \in 0..MaxCode /\ i \in 0..MaxTx
  BY VCAssumption DEF Kind, PC, TxIDs
<1> DEFINE r == Req(k, "update", o, 0, i, d)
<1>2. r.kind = k /\ r.pc = "update" /\ r.opState = o
  BY <1>1, ReqRecord
<1> HIDE DEF r
<1>3. CodeUse(r)
  BY <1>2 DEF CodeUse
<1> QED BY <1>3 DEF r

\* An authorization request that the interaction API accepts fits what the
\* issuer initiated the transaction for.
LEMMA AuthorizeFits ==
    ASSUME TInv, DocInv, NEW p \in Procs, NEW r \in AuthRequests, OidcAuthorize(p, r)
    PROVE  r.opState \in Authorized
<1>1. r \in AuthRequest /\ r.opState \in OpStates
  BY VCAssumption DEF AuthRequest
<1> DEFINE ad == MappedDetails(AuthorizeDetails)
<1>2. ad.type = PRC /\ ad.format = "ldp"
  BY VCNoneAssumption DEF MappedDetails, AuthorizeDetails, ValidateVCFormat, WireFormat
<1> HIDE DEF ad
<1>3. PICK i \in Found(r.opState) : /\ r.rt = docs[i].rt
                                   /\ r.scope \subseteq docs[i].scope
                                   /\ AcceptDetails(ad, i)
  BY DEF OidcAuthorize, PrepareAuthorizationRequest,
         PrepareClaimDataAuthorizationRequest, ad
<1> DEFINE x == TermsOf(docs[i])
<1>4. /\ x.opState = r.opState /\ x.rt = r.rt /\ r.scope \subseteq x.scope
      /\ x.type = PRC /\ x.format = "ldp"
  BY <1>2, <1>3 DEF TermsOf, Found, AcceptDetails
<1>5. x \in initiated
  BY DEF DocInv, DocsGood, Found, Live
<1> HIDE DEF x
<1> QED BY <1>1, <1>4, <1>5 DEF Authorized

\* Every step keeps the codes in order.
LEMMA CodeStep == TInv /\ TInv' /\ DocInv /\ CodeInv /\ [Next]_vars => CodeInv'
<1> SUFFICES ASSUME TInv, TInv', DocInv, CodeInv, [Next]_vars PROVE CodeInv'
  OBVIOUS
<1>0. now \in Nat /\ now <= now
  BY VCAssumption DEF TInv, TypeOK
<1>1. CASE UNCHANGED vars
  BY <1>0, <1>1, CodeOthers DEF vars, dbVars, histVars
<1>2. ASSUME NEW r \in InitRequests, InitiateCredentialIssuance(r) PROVE CodeInv'
  <2>1. initiated \subseteq initiated'
    BY <1>2, CreatedDocument
  <2> QED BY <1>0, <1>2, <2>1, CodeOthers DEF InitiateCredentialIssuance
<1>3. ASSUME NEW p \in Procs, Step(p) PROVE CodeInv'
  BY <1>3, CodeStepOf
<1>4. ASSUME NEW p \in Procs, NEW r \in PushRequests, PushedAuthorization(p, r)
      PROVE  CodeInv'
  <2>1. PICK i \in Found(r.opState), ad \in Details :
            Turns(p, Req("push", "update", r.opState, 0, i, WithDetails(ad, i)))
    BY <1>4, PushTurns
  <2>2. r.opState \in OpStates /\ i \in TxIDs /\ docs[i] # None
    BY VCAssumption DEF PushRequest, Found, Live
  <2>3. WithDetails(ad, i) \in Data
    BY <2>2, WithDetailsType DEF TInv
  <2>4. CodeUse(Req("push", "update", r.opState, 0, i, WithDetails(ad, i)))
    BY <2>2, <2>3, CodeUnused
  <2>5. UNCHANGED <<codes, coded, states, now, initiated, tokens, disclosed>>
    BY <1>4 DEF PushedAuthorization, dbVars, histVars
  <2> QED BY <2>1, <2>4, <2>5, CodeQuiet
<1>5. ASSUME NEW p \in Procs, NEW r \in AuthRequests, OidcAuthorize(p, r) PROVE CodeInv'
  <2>1. PICK i \in Found(r.opState), ad \in Details :
            Turns(p, Req("authorize", "update", r.opState, 0, i, WithDetails(ad, i)))
    BY <1>5, AuthorizeTurns
  <2>2. r.opState \in OpStates /\ i \in TxIDs /\ docs[i] # None
    BY VCAssumption DEF AuthRequest, Found, Live
  <2>3. WithDetails(ad, i) \in Data
    BY <2>2, WithDetailsType DEF TInv
  <2>4. CodeUse(Req("authorize", "update", r.opState, 0, i, WithDetails(ad, i)))
    BY <1>5, <2>2, <2>3, AuthorizeFits, CodeUnused
  <2>5. UNCHANGED <<codes, coded, states, now, initiated, tokens, disclosed>>
    BY <1>5 DEF OidcAuthorize, dbVars, histVars
  <2> QED BY <2>1, <2>4, <2>5, CodeQuiet
<1>6. ASSUME NEW p \in Procs, NEW o \in OpStates, OidcRedirect(p, o) PROVE CodeInv'
  <2> DEFINE c == states[o].code
             r == Req("store", "storeFind", o, c, 0, None)
  <2>1. /\ states[o] # None /\ c \in Codes /\ Turns(p, r)
        /\ r.kind = "store" /\ r.pc = "storeFind" /\ r.opState = o /\ r.code = c
    BY <1>6, RedirectTurns DEF ReqFields
  <2>2. Released(c, o)
    BY <1>6, <2>1 DEF OidcRedirect, Released, OnlyKept, CodeInv, StatesGood
  <2> HIDE DEF c, r
  <2>3. CodeUse(r)
    BY <2>1, <2>2 DEF CodeUse
  <2>4. UNCHANGED <<codes, coded, states, now, initiated, tokens, disclosed>>
    BY <1>6 DEF OidcRedirect, dbVars, histVars
  <2> QED BY <2>1, <2>3, <2>4, CodeQuiet
<1>7. ASSUME NEW p \in Procs, NEW c \in Codes, OidcToken(p, c) PROVE CodeInv'
  <2> DEFINE o == codes[c].opState
             r == Req("token", "pkceGet", o, c, 0, None)
  <2>1. /\ codes[c] # None /\ Turns(p, r)
        /\ r.kind = "token" /\ r.pc = "pkceGet" /\ r.opState = o /\ r.code = c
    BY <1>7, OidcTokenTurns DEF ReqFields
  <2>2. Earned(c, o)
    <3>1. PICK u \in OpStates : <<c, u>> \in disclosed
      BY <1>7 DEF OidcToken
    <3>2. u = o /\ c <= coded /\ o \in Authorized
      BY <2>1, <3>1 DEF CodeInv, DisclosedGood, CodesGood, Released, CodeOf
    <3> QED BY <3>1, <3>2 DEF Earned
  <2> HIDE DEF o, r
  <2>3. CodeUse(r)
    BY <2>1, <2>2 DEF CodeUse
  <2>4. UNCHANGED <<codes, coded, states, now, initiated, tokens, disclosed>>
    BY <1>7 DEF OidcToken, dbVars, histVars
  <2> QED BY <2>1, <2>3, <2>4, CodeQuiet
<1>8. ASSUME NEW p \in Procs, Fail(p) PROVE CodeInv'
  BY <1>8, CodeFinished DEF Fail, dbVars, histVars
<1>9. ASSUME NEW o \in OpStates, ReapState(o) PROVE CodeInv'
  BY <1>9, AnswerReaped
<1>10. ASSUME NEW i \in TxIDs, ReapTransaction(i) PROVE CodeInv'
  BY <1>0, <1>10, CodeOthers DEF ReapTransaction, histVars
<1>11. ASSUME Tick PROVE CodeInv'
  <2>1. now <= now'
    BY <1>11, VCAssumption DEF Tick, TInv, TypeOK
  <2> QED
    BY <1>0, <1>11, <2>1, CodeOthers DEF Tick, histVars
<1> QED BY <1>1, <1>2, <1>3, <1>4, <1>5, <1>6, <1>7, <1>8, <1>9, <1>10, <1>11
        DEF Next

-----------------------------------------------------------------------------
(* Theorems *)

\* The inductive invariant holds at the start.
LEMMA VCInit == Init => VCInv
<1> SUFFICES ASSUME Init PROVE VCInv
  OBVIOUS
<1>1. TInv
  BY TypeInit
<1>2. DocInv
  BY IdleFacts DEF Init, DocInv, DocsGood, WritesGood, OneTransactionPerOpState
<1>3. CodesGood /\ StatesGood /\ DisclosedGood /\ TokensGood
  BY DEF Init, CodesGood, StatesGood, DisclosedGood, TokensGood
<1>4. UsesGood
  BY IdleFacts DEF Init, UsesGood
<1> QED BY <1>1, <1>2, <1>3, <1>4 DEF VCInv, CodeInv

\* It holds in every reachable state.
LEMMA VCInvariance == Spec => []VCInv
<1>1. VCInv /\ [Next]_vars => VCInv'
  BY TypeStep, DocStep, CodeStep DEF VCInv
<1> QED BY <1>1, VCInit, PTL DEF Spec

\* An access token is of an op_state that an issuer initiated for what was
\* authorized, and its code was released with that op_state, whoever calls the
\* public endpoints and whatever requests overlap or fail.
THEOREM TokensAuthorized == Spec => []TokenAuthorized
<1>1. VCInv => TokenAuthorized
  BY DEF VCInv, CodeInv, TokensGood, Earned, TokenAuthorized
<1> QED BY <1>1, VCInvariance, PTL

\* The session of a code that gave a token is gone for good.
THEOREM SpentCodesStayGone == Spec => []SpentCodeGone
<1>1. VCInv => SpentCodeGone
  BY DEF VCInv, CodeInv, TokensGood, SpentCodeGone
<1> QED BY <1>1, VCInvariance, PTL

\* A wallet never holds two codes of an op_state that can both be used, because
\* the answer that is kept outlives the code in it (CodeLife < TTL).
THEOREM OneCodePerOpState == Spec => []OneUsableCode
<1>1. VCInv => OneUsableCode
  <2> SUFFICES ASSUME VCInv, NEW a \in disclosed, NEW b \in disclosed, a[2] = b[2],
                      Usable(a[1]), Usable(b[1])
               PROVE  a[1] = b[1]
    BY DEF OneUsableCode
  <2>1. /\ a[1] \in Codes /\ b[1] \in Codes /\ a[2] \in OpStates
        /\ a = <<a[1], a[2]>> /\ b = <<b[1], b[2]>>
    BY DEF VCInv, TInv, TypeOK
  <2>2. Released(a[1], a[2]) /\ Released(b[1], a[2])
    BY <2>1 DEF VCInv, CodeInv, DisclosedGood
  <2> QED BY <2>2 DEF Released, OnlyKept
<1> QED BY <1>1, VCInvariance, PTL

\* At most one transaction of an op_state is stored, however late an update is.
THEOREM OneTransactionEach == Spec => []OneTransactionPerOpState
<1>1. VCInv => OneTransactionPerOpState
  BY DEF VCInv, DocInv
<1> QED BY <1>1, VCInvariance, PTL

\* The authorization details that a transaction took, from a wallet's request or
\* a pushed one, are those of the template it was initiated for.
THEOREM DetailsFitTemplate == Spec => []DetailsMatchTemplate
<1>1. VCInv => DetailsMatchTemplate
  BY DEF VCInv, DocInv, DocsGood, AdOK, DetailsMatchTemplate
<1> QED BY <1>1, VCInvariance, PTL

\* One step of a transaction's life, as TransactionFate says.
FateStep ==
    \A i \in 1..created :
        /\ docs[i] = None => docs'[i] = None
        /\ docs[i] # None /\ docs'[i] # None =>
              /\ TermsOf(docs'[i]) = TermsOf(docs[i])
              /\ docs'[i].expireAt >= docs[i].expireAt

\* A step that leaves the transactions alone is one.
LEMMA FateKept ==
    ASSUME TInv, docs' = docs
    PROVE  FateStep
<1> SUFFICES ASSUME NEW i \in 1..created
             PROVE  docs[i] # None => docs[i].expireAt >= docs[i].expireAt
  BY DEF FateStep
<1>1. i \in TxIDs
  BY VCAssumption DEF TInv, TypeOK, TxIDs
<1>2. docs[i] # None => docs[i].expireAt \in Nat
  BY <1>1 DEF TInv, TypeOK, Document
<1> QED BY <1>2

\* An update, which may come late, is one.
LEMMA FateUpdate ==
    ASSUME VCInv, NEW p \in Procs, UpdateTx(p)
    PROVE  FateStep
<1> DEFINE k == req[p].id
           d == ToDocument(req[p].data)
<1>1. k \in TxIDs /\ req[p].data \in Data
  BY UpdateTurns DEF VCInv
<1>2. d \in Document /\ Same(d, req[p].data) /\ d.expireAt = now + TTL
  BY <1>1, DocumentType DEF VCInv, TInv
<1>3. docs[k] # None => Same(req[p].data, docs[k])
  BY DEF VCInv, DocInv, WritesGood, WriteGood, UpdateTx
<1>4. docs' = IF docs[k] = None THEN docs ELSE [docs EXCEPT ![k] = d]
  BY DEF UpdateTx, UpdateDocument
<1>5. docs \in [TxIDs -> Document \cup {None}]
  BY DEF VCInv, TInv, TypeOK
<1>6. docs[k] # None => Same(d, docs[k])
  BY <1>2, <1>3 DEF Same
<1> HIDE DEF k, d
<1>7. CASE docs[k] = None
  BY <1>4, <1>7, FateKept DEF VCInv
<1>8. CASE docs[k] # None
  <2>1. docs' = [docs EXCEPT ![k] = d]
    BY <1>4, <1>8
  <2> SUFFICES ASSUME NEW i \in 1..created
               PROVE  /\ docs[i] = None => docs'[i] = None
                      /\ docs[i] # None /\ docs'[i] # None =>
                            /\ Same(docs'[i], docs[i])
                            /\ docs'[i].expireAt >= docs[i].expireAt
    BY DEF FateStep, Same, TermsOf
  <2>2. i \in TxIDs
    BY VCAssumption DEF VCInv, TInv, TypeOK, TxIDs
  <2>3. docs[i] # None => docs[i].expireAt \in Nat /\ docs[i].expireAt <= now + TTL
    BY <2>2 DEF VCInv, TInv, TypeOK, Document, DocInv, DocsGood
  <2>4. now + TTL \in Nat
    BY VCAssumption DEF VCInv, TInv, TypeOK
  <2>5. CASE i = k
    BY <1>1, <1>2, <1>5, <1>6, <1>8, <2>1, <2>3, <2>4, <2>5
  <2>6. CASE i # k
    <3>1. docs'[i] = docs[i]
      BY <1>1, <1>5, <2>1, <2>2, <2>6
    <3> QED BY <2>3, <3>1 DEF Same
  <2> QED BY <2>5, <2>6
<1> QED BY <1>7, <1>8

\* Every step is one.
LEMMA FateAlways == VCInv /\ [Next]_vars => FateStep
<1> SUFFICES ASSUME VCInv, [Next]_vars PROVE FateStep
  OBVIOUS
<1>1. CASE docs' = docs
  BY <1>1, FateKept DEF VCInv
<1>2. ASSUME NEW p \in Procs, UpdateTx(p) PROVE FateStep
  BY <1>2, FateUpdate
<1>3. ASSUME NEW r \in InitRequests, InitiateCredentialIssuance(r) PROVE FateStep
  <2>1. created \in Nat /\ created + 1 \in TxIDs
    BY <1>3, CreatedDocument DEF VCInv
  <2>2. PICK d \in Document : docs' = [docs EXCEPT ![created + 1] = d]
    BY <1>3, CreatedDocument DEF VCInv
  <2> SUFFICES ASSUME NEW i \in 1..created
               PROVE  docs'[i] = docs[i] /\ (docs[i] # None => docs[i].expireAt \in Nat)
    BY DEF FateStep
  <2>3. i \in TxIDs /\ i # created + 1
    BY <2>1, VCAssumption DEF VCInv, TInv, TypeOK, TxIDs
  <2> QED BY <2>2, <2>3 DEF VCInv, TInv, TypeOK, Document
<1>4. ASSUME NEW k \in TxIDs, ReapTransaction(k) PROVE FateStep
  <2>1. docs' = [docs EXCEPT ![k] = None]
    BY <1>4 DEF ReapTransaction
  <2> SUFFICES ASSUME NEW i \in 1..created
               PROVE  /\ docs'[i] = docs[i] \/ docs'[i] = None
                      /\ docs[i] # None => docs[i].expireAt \in Nat
    BY DEF FateStep
  <2>2. i \in TxIDs
    BY VCAssumption DEF VCInv, TInv, TypeOK, TxIDs
  <2> QED BY <2>1, <2>2 DEF VCInv, TInv, TypeOK, Document
<1>5. ASSUME NEW p \in Procs, Step(p), ~UpdateTx(p) PROVE docs' = docs
  BY <1>5 DEF Step, NewAuthorizeResponse, SaveAuthorizeState, StoreAuthorizationCode,
     WriteAuthorizeResponse, GetPKCERequestSession, DeletePKCERequestSession,
     ExchangeAuthorizationCode, GetAuthorizeCodeSession,
     InvalidateAuthorizeCodeSession, CreateAccessTokenSession, dbVars
<1>6. ASSUME NEW p \in Procs,
             \/ \E r \in PushRequests : PushedAuthorization(p, r)
             \/ \E r \in AuthRequests : OidcAuthorize(p, r)
             \/ \E o \in OpStates : OidcRedirect(p, o)
             \/ \E c \in Codes : OidcToken(p, c)
             \/ Fail(p)
      PROVE  docs' = docs
  BY <1>6 DEF PushedAuthorization, OidcAuthorize, OidcRedirect, OidcToken, Fail, dbVars
<1>7. ASSUME (\E o \in OpStates : ReapState(o)) \/ Tick \/ UNCHANGED vars
      PROVE  docs' = docs
  BY <1>7 DEF ReapState, Tick, vars, dbVars
<1> QED BY <1>1, <1>2, <1>3, <1>4, <1>5, <1>6, <1>7 DEF Next

\* A late write never changes what a transaction was initiated for, never
\* shortens its life and never brings a removed one back: UpdateByID finds by
\* the identifier, which no later transaction has.
THEOREM TransactionsKeepFate == Spec => TransactionFate
<1>1. VCInv /\ [Next]_vars => [FateStep]_vars
  BY FateAlways
<1>2. Spec => [][FateStep]_vars
  BY <1>1, VCInvariance, PTL DEF Spec
<1> QED BY <1>2 DEF TransactionFate, FateStep
=============================================================================
