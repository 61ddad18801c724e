------------------------------- MODULE OIDC4VP -------------------------------
(***************************************************************************)
(* OIDC4VP interactions of the verifier.                                   *)
(*                                                                         *)
(* A verifier starts an interaction: a transaction document, a one-time    *)
(* nonce that names the transaction, an event and a signed request object  *)
(* that carries the nonce and the transaction identifier.  A wallet        *)
(* fetches the request object and posts an id_token and a vp_token; the    *)
(* server exchanges their nonce for the transaction, verifies the          *)
(* presentation, stores its claims in the transaction and publishes an     *)
(* event.  The verifier then retrieves the claims.                         *)
(*                                                                         *)
(* The three MongoDB collections are shared by all requests of all         *)
(* replicas; one action is one call of a store (or of the event bus) with  *)
(* the local computation around it.  A wallet uses only the nonces and     *)
(* transaction identifiers of request objects somebody fetched.            *)
(***************************************************************************)
EXTENDS Naturals, Sequences

CONSTANTS
    Procs,       \* goroutines that serve requests
    Profiles,    \* verifier profiles
    Orgs,        \* organizations of API users
    OrgOf,       \* OrgOf[profile]: the organization of the profile
    Ready,       \* profiles that are active, have an OIDC configuration, a
                 \* presentation definition and a signing DID
    BindSubject, \* profiles whose checks ask for the VC subject to sign
    Nonces,      \* the values of genNonce
    Claims,      \* matched credentials of a presentation
    LifeTime,    \* interactionLiveTime
    MaxRetries,  \* maxRetries of tryCreateTxNonce
    MaxTx,       \* bound of the model: transactions
    Time,        \* bound of the model: the times the clock shows, from 0 on
    MaxFetch,    \* bound of the model: reads of request objects
    None

TxIDs == 1..MaxTx

ASSUME VPAssumption ==
    /\ OrgOf \in [Profiles -> Orgs]
    /\ Ready \subseteq Profiles
    /\ BindSubject \subseteq Profiles
    /\ LifeTime \in Nat
    /\ MaxRetries \in Nat \ {0}
    /\ MaxTx \in Nat
    /\ Time \subseteq Nat
    /\ 0 \in Time
    /\ MaxFetch \in Nat

ASSUME VPNoneAssumption ==
    None \notin Profiles \cup Nonces \cup Claims \cup [tx : TxIDs, expireAt : Nat]

VARIABLES
    txProfile,  \* txProfile[tx]: the transaction's profile, None before Create
    claims,     \* claims[tx]: the received claims stored in the transaction
    nonces,     \* the nonce collection: nonce -> [tx, expireAt] or None
    objects,    \* objects[tx]: the nonce in the published request object
    now,        \* the clock
    events,     \* the events published, in order
    req,        \* the request each process is serving
    fetched,    \* history: transactions whose request object was fetched
    fetches,    \* number of reads of request objects (bounds the model)
    expiry,     \* history: expiry[tx]: when the nonce of tx expires
    consumed,   \* history: transactions whose nonce was taken in time
    origin,     \* history: origin[tx]: the nonce the accepted vp_token signs
    retrieved   \* history: <<org, tx, claims>> returned to API users

storeVars == <<txProfile, claims, nonces, objects, now, events>>
histVars == <<fetched, fetches, expiry, consumed, origin, retrieved>>
vars == <<storeVars, req, histVars>>

EventType == {"initiated", "qrScanned", "succeeded"}
Event == [type : EventType, tx : TxIDs]

InitiatePC == {"create", "setNonce", "sendInitiated", "publish"}
ResponsePC == {"getNonce", "verify", "store", "sendSucceeded"}

\* What the later checks make of a response whose two tokens are in order:
\* valid, refused by VerifyPresentation or Match, or signed by someone other
\* than the subject of the credentials.
Verdict == {"valid", "refused", "otherSigner"}

\* The locals of a request; tx and nonce are the ones the request works on,
\* state and vpNonce come from the response.
Request == [pc : InitiatePC \cup ResponsePC, profile : Profiles \cup {None},
            tx : 0..MaxTx, nonce : Nonces \cup {None}, tries : 0..(MaxRetries - 1),
            state : 0..MaxTx, vpNonce : Nonces \cup {None},
            claims : Claims \cup {None}, verdict : Verdict]

Initiating(pc, pr, tx, n, k) ==
    [pc |-> pc, profile |-> pr, tx |-> tx, nonce |-> n, tries |-> k,
     state |-> 0, vpNonce |-> None, claims |-> None, verdict |-> "refused"]

Responding(pc, tx, n, st, vn, c, v) ==
    [pc |-> pc, profile |-> None, tx |-> tx, nonce |-> n, tries |-> 0,
     state |-> st, vpNonce |-> vn, claims |-> c, verdict |-> v]

Idle == Initiating("idle", None, 0, None, 0)

TypeOK ==
    /\ txProfile \in [TxIDs -> Profiles \cup {None}]
    /\ claims \in [TxIDs -> Claims \cup {None}]
    /\ nonces \in [Nonces -> [tx : TxIDs, expireAt : Nat] \cup {None}]
    /\ objects \in [TxIDs -> Nonces \cup {None}]
    /\ now \in Time
    /\ events \in Seq(Event)
    /\ req \in [Procs -> Request \cup {Idle}]
    /\ fetched \subseteq TxIDs
    /\ fetches \in 0..MaxFetch
    /\ expiry \in [TxIDs -> Nat]
    /\ consumed \subseteq TxIDs
    /\ origin \in [TxIDs -> Nonces \cup {None}]
    /\ retrieved \subseteq Orgs \X TxIDs \X Claims

Init ==
    /\ txProfile = [tx \in TxIDs |-> None]
    /\ claims = [tx \in TxIDs |-> None]
    /\ nonces = [n \in Nonces |-> None]
    /\ objects = [tx \in TxIDs |-> None]
    /\ now = 0
    /\ events = <<>>
    /\ req = [p \in Procs |-> Idle]
    /\ fetched = {}
    /\ fetches = 0
    /\ expiry = [tx \in TxIDs |-> 0]
    /\ consumed = {}
    /\ origin = [tx \in TxIDs |-> None]
    /\ retrieved = {}

Become(p, r) == req' = [req EXCEPT ![p] = r]

Finish(p) == Become(p, Idle)

\* eventSvc.Publish of an event of transaction tx.
Publish(type, tx) == events' = Append(events, [type |-> type, tx |-> tx])

-----------------------------------------------------------------------------
\* POST /verifier/profiles/{profileID}/interactions/initiate-oidc by a user of
\* the profile's organization; any other call ends here.
InitiateOidcInteraction(p) ==
    /\ req[p] = Idle
    /\ \E pr \in Ready : Become(p, Initiating("create", pr, 0, None, 0))
    /\ UNCHANGED <<storeVars, histVars>>

\* txStore.Create: a new document, with no claims.
CreateTx(p) ==
    /\ req[p].pc = "create"
    /\ \E tx \in TxIDs :
          /\ txProfile[tx] = None
          /\ \A t \in TxIDs : t < tx => txProfile[t] # None
          /\ txProfile' = [txProfile EXCEPT ![tx] = req[p].profile]
          /\ Become(p, Initiating("setNonce", req[p].profile, tx, None, 0))
    /\ UNCHANGED <<claims, nonces, objects, now, events, histVars>>

\* The nonce document is inserted.
BindNonce(p, n) ==
    /\ nonces' = [nonces EXCEPT ![n] = [tx |-> req[p].tx, expireAt |-> now + LifeTime]]
    /\ expiry' = [expiry EXCEPT ![req[p].tx] = now + LifeTime]
    /\ Become(p, Initiating("sendInitiated", req[p].profile, req[p].tx, n, 0))

\* Mutant of SetNonce: an existing document is replaced.
SetNonceUpsert(p) ==
    /\ req[p].pc = "setNonce"
    /\ \E n \in Nonces : BindNonce(p, n)
    /\ UNCHANGED <<txProfile, claims, objects, now, events, fetched, fetches, consumed,
                   origin, retrieved>>

\* Mutant of SetNonce: one round too many.
SetNonceOneMore(p) ==
    /\ req[p].pc = "setNonce"
    /\ \E n \in Nonces :
          \/ nonces[n] = None /\ BindNonce(p, n)
          \/ /\ nonces[n] # None
             /\ req' = [req EXCEPT ![p] = IF @.tries + 1 <= MaxRetries
                                         THEN [@ EXCEPT !.tries = @ + 1] ELSE Idle]
             /\ UNCHANGED <<nonces, expiry>>
    /\ UNCHANGED <<txProfile, claims, objects, now, events, fetched, fetches, consumed,
                   origin, retrieved>>

\* One round of tryCreateTxNonce: a random nonce is inserted unless a document
\* with it exists, expired or not; after MaxRetries rounds the call fails.
SetNonce(p) ==
    /\ req[p].pc = "setNonce"
    /\ \E n \in Nonces :
          \/ /\ nonces[n] = None
             /\ BindNonce(p, n)
          \/ /\ nonces[n] # None
             /\ req[p].tries + 1 < MaxRetries
             /\ req' = [req EXCEPT ![p].tries = @ + 1]
             /\ UNCHANGED <<nonces, expiry>>
          \/ /\ nonces[n] # None
             /\ req[p].tries + 1 = MaxRetries
             /\ Finish(p)
             /\ UNCHANGED <<nonces, expiry>>
    /\ UNCHANGED <<txProfile, claims, objects, now, events, fetched, fetches, consumed,
                   origin, retrieved>>

\* The transaction is read back and its first event is published.
SendInitiated(p) ==
    /\ req[p].pc = "sendInitiated"
    /\ Publish("initiated", req[p].tx)
    /\ req' = [req EXCEPT ![p].pc = "publish"]
    /\ UNCHANGED <<txProfile, claims, nonces, objects, now, histVars>>

\* The request object is signed and stored; its URI is returned.
PublishObject(p) ==
    /\ req[p].pc = "publish"
    /\ objects' = [objects EXCEPT ![req[p].tx] = req[p].nonce]
    /\ Finish(p)
    /\ UNCHANGED <<txProfile, claims, nonces, now, events, histVars>>

\* GET /request-object/{uuid}: every read publishes the stored event.
RequestObjectByUuid(tx) ==
    /\ objects[tx] # None
    /\ fetches < MaxFetch
    /\ Publish("qrScanned", tx)
    /\ fetched' = fetched \cup {tx}
    /\ fetches' = fetches + 1
    /\ UNCHANGED <<txProfile, claims, nonces, objects, now, req, expiry, consumed, origin,
                   retrieved>>

-----------------------------------------------------------------------------
\* A response with the nonces of the request objects of i (id_token) and v
\* (vp_token) and state st enters VerifyOIDCVerifiablePresentation.
Respond(p, i, v, st) ==
    /\ req[p] = Idle
    /\ \E c \in Claims, d \in Verdict :
          Become(p, Responding("getNonce", 0, objects[i], st, objects[v], c, d))
    /\ UNCHANGED <<storeVars, histVars>>

\* Mutant of CheckAuthorizationResponse: the nonces are not compared.
CheckAuthorizationResponseAnyNonce(p) ==
    \E i, v, st \in fetched : Respond(p, i, v, st)

\* POST /verifier/interactions/authorization-response; a response whose tokens
\* are malformed, expired, wrongly signed or of two nonces ends here.
CheckAuthorizationResponse(p) ==
    \E i, v, st \in fetched :
        /\ objects[v] = objects[i]
        /\ Respond(p, i, v, st)

\* Mutant of GetNonce: the document is read and stays.
GetNonceKeeps(p) ==
    /\ req[p].pc = "getNonce"
    /\ LET doc == nonces[req[p].nonce]
       IN \/ /\ doc = None
             /\ Finish(p)
             /\ UNCHANGED consumed
          \/ /\ doc # None
             /\ consumed' = consumed \cup {doc.tx}
             /\ req' = [req EXCEPT ![p].pc = "verify", ![p].tx = doc.tx]
    /\ UNCHANGED <<storeVars, fetched, fetches, expiry, origin, retrieved>>

\* nonceStore.GetAndDelete: one atomic FindOneAndDelete; an expired document
\* is deleted and does not count.
GetNonce(p) ==
    /\ req[p].pc = "getNonce"
    /\ LET doc == nonces[req[p].nonce]
       IN \/ /\ doc = None
             /\ Finish(p)
             /\ UNCHANGED consumed
          \/ /\ doc # None
             /\ doc.expireAt < now
             /\ Finish(p)
             /\ UNCHANGED consumed
          \/ /\ doc # None
             /\ doc.expireAt >= now
             /\ consumed' = consumed \cup {doc.tx}
             /\ req' = [req EXCEPT ![p].pc = "verify", ![p].tx = doc.tx]
    /\ nonces' = [nonces EXCEPT ![req[p].nonce] = None]
    /\ UNCHANGED <<txProfile, claims, objects, now, events, fetched, fetches, expiry, origin,
                   retrieved>>

\* The checks after the nonce is spent: the presentation verifies and matches
\* the definition, and the credentials' subject signed it if the profile asks
\* for that.
Acceptable(p) ==
    \/ req[p].verdict = "valid"
    \/ req[p].verdict = "otherSigner" /\ txProfile[req[p].tx] \notin BindSubject

\* Mutant of VerifyPresentation: the transaction of the nonce is not compared
\* with the state of the response.
VerifyPresentationAnyState(p) ==
    /\ req[p].pc = "verify"
    /\ \/ /\ Acceptable(p)
          /\ req' = [req EXCEPT ![p].pc = "store"]
       \/ /\ ~Acceptable(p)
          /\ Finish(p)
    /\ UNCHANGED <<storeVars, histVars>>

\* The transaction of the nonce is read and compared with the state of the
\* response; then come the checks.
VerifyPresentation(p) ==
    /\ req[p].pc = "verify"
    /\ \/ /\ req[p].tx = req[p].state
          /\ Acceptable(p)
          /\ req' = [req EXCEPT ![p].pc = "store"]
       \/ /\ req[p].tx # req[p].state \/ ~Acceptable(p)
          /\ Finish(p)
    /\ UNCHANGED <<storeVars, histVars>>

\* txStore.Update of the received claims.
StoreReceivedClaims(p) ==
    /\ req[p].pc = "store"
    /\ claims' = [claims EXCEPT ![req[p].tx] = req[p].claims]
    /\ origin' = [origin EXCEPT ![req[p].tx] = req[p].vpNonce]
    /\ req' = [req EXCEPT ![p].pc = "sendSucceeded"]
    /\ UNCHANGED <<txProfile, nonces, objects, now, events, fetched, fetches, expiry,
                   consumed, retrieved>>

\* The event that tells the verifier to retrieve the claims.
SendSucceeded(p) ==
    /\ req[p].pc = "sendSucceeded"
    /\ Publish("succeeded", req[p].tx)
    /\ Finish(p)
    /\ UNCHANGED <<txProfile, claims, nonces, objects, now, histVars>>

\* GET /verifier/interactions/{txID}/claim by a user of organization org; a
\* transaction without claims gives an empty answer.
RetrieveInteractionsClaim(org, tx) ==
    /\ txProfile[tx] # None
    /\ OrgOf[txProfile[tx]] = org
    /\ claims[tx] # None
    /\ retrieved' = retrieved \cup {<<org, tx, claims[tx]>>}
    /\ UNCHANGED <<storeVars, req, fetched, fetches, expiry, consumed, origin>>

-----------------------------------------------------------------------------
\* MongoDB's TTL monitor removes nonce documents some time after they expire.
ExpireNonce(n) ==
    /\ nonces[n] # None
    /\ nonces[n].expireAt <= now
    /\ nonces' = [nonces EXCEPT ![n] = None]
    /\ UNCHANGED <<txProfile, claims, objects, now, events, req, histVars>>

Tick ==
    /\ now' \in Time
    /\ now < now'
    /\ UNCHANGED <<txProfile, claims, nonces, objects, events, req, histVars>>

\* A request ends early: a call of a store, the event bus or the KMS failed,
\* or its server stopped.  What it wrote stays written.
Fail(p) ==
    /\ req[p] # Idle
    /\ Finish(p)
    /\ UNCHANGED <<storeVars, histVars>>

Step(p) ==
    \/ CreateTx(p) \/ SetNonce(p) \/ SendInitiated(p) \/ PublishObject(p)
    \/ GetNonce(p) \/ VerifyPresentation(p) \/ StoreReceivedClaims(p) \/ SendSucceeded(p)

Next ==
    \/ \E p \in Procs :
          InitiateOidcInteraction(p) \/ CheckAuthorizationResponse(p) \/ Step(p) \/ Fail(p)
    \/ \E tx \in TxIDs : RequestObjectByUuid(tx)
    \/ \E tx \in TxIDs, org \in Orgs : RetrieveInteractionsClaim(org, tx)
    \/ \E n \in Nonces : ExpireNonce(n)
    \/ Tick

Spec == Init /\ [][Next]_vars

-----------------------------------------------------------------------------
\* The claims of a transaction are stored once and never replaced, however
\* responses are repeated, overlap or fail half-way: the nonce is spent before
\* anything else happens.
ClaimsFinal ==
    [][\A tx \in TxIDs : claims[tx] # None => claims'[tx] = claims[tx]]_vars

\* The claims stored in a transaction come from a vp_token made for the nonce
\* in the transaction's own request object, also when a nonce value comes up
\* again in a later transaction.
OwnPresentation ==
    \A tx \in TxIDs : claims[tx] # None => origin[tx] = objects[tx]

\* The events of a transaction start with one "initiated"; one "succeeded" at
\* most follows, and only after a "qr scanned".
EventsInOrder ==
    \A j \in DOMAIN events :
        LET before(type) == {i \in 1..(j - 1) : events[i] = [type |-> type, tx |-> events[j].tx]}
        IN /\ events[j].type = "initiated" =>
                 \A i \in 1..(j - 1) : events[i].tx # events[j].tx
           /\ events[j].type = "qrScanned" => before("initiated") # {}
           /\ events[j].type = "succeeded" => /\ before("qrScanned") # {}
                                              /\ before("succeeded") = {}

\* When the verifier is told that the interaction succeeded, its claims can be
\* retrieved.
SucceededMeansClaims ==
    \A j \in DOMAIN events :
        events[j].type = "succeeded" => claims[events[j].tx] # None

\* The nonce of a published request object stays usable until it expires or a
\* response spends it, whatever nonces other transactions draw.
NonceUsableInTime ==
    \A tx \in TxIDs :
        (objects[tx] # None /\ tx \notin consumed /\ now < expiry[tx]) =>
            /\ nonces[objects[tx]] # None
            /\ nonces[objects[tx]].tx = tx

\* What a user retrieved is of the user's organization and stays the content
\* of the transaction, also when responses come again.
RetrievedFinal ==
    \A r \in retrieved : /\ claims[r[2]] = r[3]
                         /\ OrgOf[txProfile[r[2]]] = r[1]

-----------------------------------------------------------------------------
\* The interactions the three collections and the events stand for.
Interaction == INSTANCE VPInteraction
                   WITH owner <- txProfile,
                        offer <- objects,
                        answer <- claims,
                        signed <- origin,
                        told <- events

\* Whatever requests overlap, repeat, come late or fail half-way, API users and
\* subscribers see interactions: one owner, one offered nonce, one answer made
\* for it after somebody read the offer, one report after the answer.
ImplementsInteraction == Interaction!Spec
=============================================================================
