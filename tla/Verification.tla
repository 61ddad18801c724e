---------------------------- MODULE Verification -----------------------------
(***************************************************************************)
(* Signing of credentials and verification of credentials and              *)
(* presentations.                                                          *)
(*                                                                         *)
(* A verification looks at the world several times: it resolves the        *)
(* issuer's DID when it parses, again for each proof check, fetches the    *)
(* status list of every credential and resolves the DID of the list's      *)
(* signer.  Meanwhile issuers rotate keys and change statuses.             *)
(*                                                                         *)
(* The status lists are those of module CredentialStatus, seen as their    *)
(* reader sees them.  One action is one call of the DID resolver or of the *)
(* HTTP client with the local computation around it.                       *)
(***************************************************************************)
EXTENDS Naturals, Sequences, FiniteSets

CONSTANTS
    Procs,         \* goroutines that serve requests
    DIDs,          \* DIDs of issuers and holders
    VMs,           \* verification methods, did#keyID
    DidOf,         \* DidOf[vm]: the DID part
    KeyDIDs,       \* the did:key DIDs
    SovDIDs,       \* the did:sov DIDs
    InitDocs,      \* the DID documents at the start
    Updates,       \* the documents that updates of DIDs publish
    Bindings,      \* challenge and domain of a proof; None: neither
    Lists,         \* status list credentials
    ListInfo,      \* ListInfo[l]: its issuer, signer, purpose, and the DID
                   \* whose identity hub has it, None when it has a plain URL
    Hubs,          \* DIDs whose document names an identity hub
    BitLen,        \* positions in a status list
    HubReplies,    \* replies of identity hubs
    Issuers,       \* issuer profiles: signing DID, creator, format, status list
    KmsKeys,       \* verification methods the KMS has a key for
    Foreign,       \* credentials that others issued
    Presentations, \* envelopes of presentations: signer, holder, binding
    Checks,        \* the checks of a verifier profile: presentation proof and
                   \* format, credential proof, status and format
    MaxIssued,     \* bound of the model: credentials issued
    MaxCreds,      \* bound of the model: credentials in a presentation
    MaxRequests,   \* bound of the model: verification requests
    None

Format == {"jwt", "ldp"}
Purpose == {"assertionMethod", "authentication", "capabilityDelegation",
            "capabilityInvocation"}

\* The position of a credential in a status list.  A status is None when the
\* credential has none, one of an unknown type or one with a field missing.
Position == [list : Lists, idx : Nat, purpose : {"revocation", "suspension"}]
Status == Position \cup {None}

\* vm is None without a proof; intact: the signature fits the content.
Credential == [format : Format, issuer : DIDs, vm : VMs \cup {None},
               purpose : Purpose \cup {"other"}, binding : Bindings \cup {None},
               intact : BOOLEAN, status : Status]

Envelope == [format : Format, holder : DIDs \cup {None}, vm : VMs \cup {None},
             purpose : Purpose \cup {"other"}, binding : Bindings \cup {None},
             intact : BOOLEAN]

Check == {"proof", "credentialProof", "credentialStatus"}

\* The options of an issuance: method None is the profile's creator.
SigningOpts == [vm : VMs \cup {None}, binding : Bindings \cup {None}]

\* A profile of the verifier: its checks and the formats it accepts.
Profile == [proof : BOOLEAN, credProof : BOOLEAN, status : BOOLEAN,
            format : SUBSET Format, credFormat : SUBSET Format]

\* The status of an identity hub's reply and of each message in it, and the
\* lists the entries name; an entry may name none.
HubReply == [status : {"none", "ok", "error"},
             replies : Seq([ok : BOOLEAN, entries : Seq(Lists \cup {None})])]

ASSUME VerificationAssumption ==
    /\ DidOf \in [VMs -> DIDs]
    /\ KeyDIDs \subseteq DIDs
    /\ SovDIDs \subseteq DIDs
    /\ InitDocs \in [DIDs -> [Purpose -> SUBSET VMs]]
    /\ Updates \subseteq [Purpose -> SUBSET VMs]
    /\ ListInfo \in [Lists -> [issuer : DIDs, vm : VMs, hub : DIDs \cup {None},
                               purpose : {"revocation", "suspension"}]]
    /\ BitLen \in Nat
    /\ Hubs \subseteq DIDs
    /\ HubReplies \subseteq HubReply
    /\ Issuers \subseteq [did : DIDs, creator : VMs, format : Format, list : Lists]
    /\ KmsKeys \subseteq VMs
    /\ Foreign \subseteq Credential
    /\ \A c \in Foreign : c.format = "jwt" => c.vm # None
    /\ Presentations \subseteq Envelope
    /\ \A e \in Presentations : e.format = "jwt" => e.vm # None
    /\ Checks \subseteq Profile
    /\ MaxIssued \in Nat
    /\ MaxCreds \in Nat \ {0}
    /\ MaxRequests \in Nat
    /\ None \notin VMs \cup DIDs \cup Bindings \cup Lists
    /\ None \notin Presentations
    /\ None \notin Position

\* The status list of a profile is for revocation (createVC).  Its issuer is
\* the DID the profile had when it was made, which need not be the present one.
ASSUME ListsAssumption == \A i \in Issuers : ListInfo[i.list].purpose = "revocation"

\* A did:key document is derived from its key and names no other DID's.
ASSUME KeyDocsAssumption ==
    \A d \in KeyDIDs, u \in Purpose : \A v \in InitDocs[d][u] : DidOf[v] = d

VARIABLES
    docs,      \* docs[d][u]: the verification methods listed for purpose u
    rotated,   \* history: the DIDs that have been updated
    issued,    \* the credentials issued by this server
    bits,      \* bits[l]: the positions set in status list l
    req,       \* the verification each process is serving
    requests   \* number of verifications (bounds the model)

vars == <<docs, rotated, issued, bits, req, requests>>

\* What a verification works on, the checks it still has to do, the current
\* one first, the credential the current one has reached, the checks that
\* failed, and what it holds of the status list it fetched.  History: the
\* keys each DID has had since its start, the credentials revoked all the time
\* and those revoked at some time since, and whether a call failed.
Request == [kind : {"credential", "presentation"}, env : Presentations \cup {None},
            creds : Seq(Credential), checks : Checks, binding : Bindings \cup {None},
            todo : Seq(Check), n : Nat \ {0}, phase : {1, 2},
            list : Lists \cup {None}, got : SUBSET Nat, failed : SUBSET Check,
            keys : [DIDs -> SUBSET VMs], gone : SUBSET Nat, seen : SUBSET Nat,
            fault : BOOLEAN]

Idle == [kind |-> "none", todo |-> <<>>]

\* The verification methods a resolver finds in a document, and in that of d.
Methods(doc) == UNION {doc[u] : u \in Purpose}

Keys(d) == Methods(docs[d])

Revoked(c) ==
    /\ c.status # None
    /\ c.status.idx \in bits[c.status.list]

TypeOK ==
    /\ docs \in [DIDs -> [Purpose -> SUBSET VMs]]
    /\ rotated \subseteq DIDs
    /\ issued \in Seq(Credential)
    /\ Len(issued) <= MaxIssued
    /\ bits \in [Lists -> SUBSET (0..(BitLen - 1))]
    /\ req \in [Procs -> Request \cup {Idle}]
    /\ \A p \in Procs :
          req[p] # Idle =>
              /\ Len(req[p].creds) <= MaxCreds
              /\ req[p].kind = "credential" => Len(req[p].creds) = 1
              /\ req[p].kind = "presentation" => req[p].env # None
              /\ req[p].n <= Len(req[p].creds)
    /\ requests \in 0..MaxRequests

Init ==
    /\ docs = InitDocs
    /\ rotated = {}
    /\ issued = <<>>
    /\ bits = [l \in Lists |-> {}]
    /\ req = [p \in Procs |-> Idle]
    /\ requests = 0

-----------------------------------------------------------------------------
\* isValidVerificationMethod: a did:key method is compared by its DID.
isValidVerificationMethod(vm, vms) ==
    IF DidOf[vm] \in KeyDIDs THEN \E v \in vms : DidOf[v] = DidOf[vm] ELSE vm \in vms

\* ValidateProofPurpose: the document lists the method for the purpose; it is
\* not asked for with did:sov.
ValidateProofPurpose(u, vm) ==
    \/ DidOf[vm] \in SovDIDs
    \/ u \in Purpose /\ isValidVerificationMethod(vm, docs[DidOf[vm]][u])

\* The next position of a list (module CredentialStatus shows how positions are
\* handed out).
NextPosition(l) == Cardinality({n \in DOMAIN issued : issued[n].status.list = l})

\* Mutant of SignedMethods: a did:key method keeps the name it was given by.
SignedMethodsAsGiven(vm, format) == {vm}

\* The method that goes into a linked data proof: with did:key, the one the
\* document names.
SignedMethods(vm, format) ==
    IF format = "ldp" /\ DidOf[vm] \in KeyDIDs
    THEN docs[DidOf[vm]]["assertionMethod"]
    ELSE {vm}

\* getSigner: the method of the options, else the profile's creator; the KMS
\* must have its key.
getSigner(i, opts) == IF opts.vm = None THEN i.creator ELSE opts.vm

\* A JWT is signed in the name of the method and has no challenge or domain.
signCredentialJWT(i, vm, status) ==
    [format |-> "jwt", issuer |-> i.did, vm |-> vm, purpose |-> "assertionMethod",
     binding |-> None, intact |-> TRUE, status |-> status]

\* A linked data proof carries the challenge and domain of the options.
signCredentialLDP(i, vm, opts, status) ==
    [format |-> "ldp", issuer |-> i.did, vm |-> vm, purpose |-> "assertionMethod",
     binding |-> opts.binding, intact |-> TRUE, status |-> status]

SignCredential(i, vm, opts, status) ==
    IF i.format = "jwt" THEN signCredentialJWT(i, vm, status)
    ELSE signCredentialLDP(i, vm, opts, status)

\* IssueCredential: a position of the profile's status list becomes the status,
\* the profile's DID the issuer, whatever the credential said; then it is
\* signed, for the purpose the options of the REST API cannot change.
IssueCredential(i, opts) ==
    LET vm == getSigner(i, opts)
        status == [list |-> i.list, idx |-> NextPosition(i.list), purpose |-> "revocation"]
    IN /\ Len(issued) < MaxIssued
       /\ vm \in KmsKeys
       /\ ValidateProofPurpose("assertionMethod", vm)
       /\ NextPosition(i.list) < BitLen
       /\ \E v \in SignedMethods(vm, i.format) :
             issued' = Append(issued, SignCredential(i, v, opts, status))
       /\ UNCHANGED <<docs, rotated, bits, req, requests>>

\* UpdateVCStatus of an issued credential (module CredentialStatus), seen by
\* the readers of the list.
UpdateVCStatus(n, revoke) ==
    LET s == issued[n].status
        new == [bits EXCEPT ![s.list] = IF revoke THEN @ \cup {s.idx} ELSE @ \ {s.idx}]
        At(c) == c.status # None /\ c.status.list = s.list /\ c.status.idx = s.idx
    IN /\ new # bits
       /\ bits' = new
       /\ req' = [p \in Procs |->
              IF req[p] = Idle THEN Idle
              ELSE LET hit == {m \in DOMAIN req[p].creds : At(req[p].creds[m])}
                   IN IF revoke THEN [req[p] EXCEPT !.seen = @ \cup hit]
                      ELSE [req[p] EXCEPT !.gone = @ \ hit]]
       /\ UNCHANGED <<docs, rotated, issued, requests>>

\* The request has had doc as the document of d.
Gathered(r, d, doc) ==
    [r EXCEPT !.keys = [x \in DIDs |-> IF x = d THEN r.keys[x] \cup Methods(doc)
                                       ELSE r.keys[x]]]

\* A DID is updated: keys leave its document, others are published.  The
\* document of a did:key never changes.
RotateKey(d, doc) ==
    /\ d \notin KeyDIDs
    /\ doc # docs[d]
    /\ docs' = [docs EXCEPT ![d] = doc]
    /\ rotated' = rotated \cup {d}
    /\ req' = [p \in Procs |-> IF req[p] = Idle THEN Idle ELSE Gathered(req[p], d, doc)]
    /\ UNCHANGED <<issued, bits, requests>>

-----------------------------------------------------------------------------
\* verifiable.ParseCredential and ParsePresentation with a key fetcher: a proof,
\* if there is one, is by a key of the DID document; the document is the
\* issuer's (holder's) for a JWT and that of the method for a linked data proof.
Parses(x, signer) ==
    \/ x.vm = None
    \/ x.intact /\ x.vm \in Keys(IF x.format = "jwt" THEN signer ELSE DidOf[x.vm])

CredentialParses(c) == Parses(c, c.issuer)
EnvelopeParses(e) == Parses(e, IF e.holder = None THEN DidOf[e.vm] ELSE e.holder)

\* The format of a credential (presentation) is one the profile accepts.
ValidateFormat(x, formats) == x.format \in formats

\* A verification begins; b is the challenge and domain of its options.
Start(p, kind, e, cs, ck, b, todo) ==
    /\ req[p] = Idle
    /\ requests < MaxRequests
    /\ requests' = requests + 1
    /\ LET gone == {m \in DOMAIN cs : Revoked(cs[m])}
       IN req' = [req EXCEPT ![p] =
              [kind |-> kind, env |-> e, creds |-> cs, checks |-> ck, binding |-> b,
               todo |-> todo, n |-> 1, phase |-> 1, list |-> None, got |-> {},
               failed |-> {},
               keys |-> [d \in DIDs |-> Keys(d)], gone |-> gone, seen |-> gone,
               fault |-> FALSE]]
    /\ UNCHANGED <<docs, rotated, issued, bits>>

If(b, seq) == IF b THEN seq ELSE <<>>

Credentials == Foreign \cup {issued[n] : n \in DOMAIN issued}

\* The checks of VerifyCredential that the profile asks for, in their order.
VerifyCredential(ck) ==
    If(ck.credProof, <<"proof">>) \o If(ck.status, <<"credentialStatus">>)

\* POST /verifier/profiles/{profileID}/credentials/verify by a user of the
\* profile's organization: the format is one of the profile's, the credential
\* parses; then it is verified.
PostVerifyCredentials(p) ==
    \E c \in Credentials, ck \in Checks, b \in Bindings \cup {None} :
        /\ ValidateFormat(c, ck.credFormat)
        /\ CredentialParses(c)
        /\ Start(p, "credential", None, <<c>>, ck, b, VerifyCredential(ck))

\* The checks of VerifyPresentation that the profile asks for, in their order.
VerifyPresentation(ck) ==
    If(ck.proof, <<"proof">>) \o If(ck.credProof, <<"credentialProof">>)
    \o If(ck.status, <<"credentialStatus">>)

\* The verification of a presentation of any of the credentials there are.
StartPresentation(p, e, ck, b) ==
    \E k \in 1..MaxCreds : \E cs \in [1..k -> Credentials] :
        Start(p, "presentation", e, cs, ck, b, VerifyPresentation(ck))

\* POST /verifier/profiles/{profileID}/presentations/verify: the format is one of
\* the profile's and the presentation parses.
PostVerifyPresentation(p) ==
    \E e \in Presentations, ck \in Checks, b \in Bindings \cup {None} :
        /\ ValidateFormat(e, ck.format)
        /\ EnvelopeParses(e)
        /\ StartPresentation(p, e, ck, b)

\* The vp_token of an OIDC4VP response, a JWT signed by a key of its signer's
\* document, is verified without challenge and domain, whatever formats the
\* profile accepts.
verifyAuthorizationResponseTokens(p) ==
    \E e \in Presentations, ck \in Checks :
        /\ e.format = "jwt"
        /\ e.intact
        /\ e.vm \in Keys(DidOf[e.vm])
        /\ StartPresentation(p, e, ck, None)

-----------------------------------------------------------------------------
\* The check that is under way, at one of its two calls.
Working(p, checks, phase) ==
    /\ req[p].todo # <<>>
    /\ Head(req[p].todo) \in checks
    /\ req[p].phase = phase

\* The current check is of the envelope, not of the credentials.
OfEnvelope(p) == req[p].kind = "presentation" /\ Head(req[p].todo) = "proof"

\* Mutant of AtLast: one credential too many is asked for.
AtLastOneMore(p) == OfEnvelope(p) \/ req[p].n > Len(req[p].creds)

\* The current check has reached the last credential of its loop.
AtLast(p) == OfEnvelope(p) \/ req[p].n = Len(req[p].creds)

\* The check of r goes on to the next credential, or is done.
Passed(r, last) ==
    [r EXCEPT !.todo = IF last THEN Tail(@) ELSE @, !.n = IF last THEN 1 ELSE @ + 1,
              !.phase = 1, !.list = None, !.got = {}]

Pass(p) == req' = [req EXCEPT ![p] = Passed(@, AtLast(p))]

\* The first error ends the check of r.
Refused(r, fault) ==
    [Passed(r, TRUE) EXCEPT !.failed = @ \cup {Head(r.todo)}, !.fault = @ \/ fault]

Refuse(p, fault) == req' = [req EXCEPT ![p] = Refused(@, fault)]

\* The credential or envelope the check has reached.
Subject(p) == IF OfEnvelope(p) THEN req[p].env ELSE req[p].creds[req[p].n]

SubjectParses(p) ==
    IF OfEnvelope(p) THEN EnvelopeParses(req[p].env) ELSE CredentialParses(Subject(p))

\* The first half of a proof check: the credential (presentation) is parsed
\* again, with its proof; nothing else is asked of a JWT.
ParseProof(p) ==
    /\ Working(p, {"proof", "credentialProof"}, 1)
    /\ \/ SubjectParses(p) /\ Subject(p).format = "jwt" /\ Pass(p)
       \/ /\ SubjectParses(p)
          /\ Subject(p).format = "ldp"
          /\ req' = [req EXCEPT ![p].phase = 2]
       \/ ~SubjectParses(p) /\ Refuse(p, FALSE)
    /\ UNCHANGED <<docs, rotated, issued, bits, requests>>

\* Mutant of Controls: the controller is not compared.
ControlsAny(p, x) == TRUE

\* The controller of the method is the issuer (the holder, if named).
Controls(p, x) ==
    IF OfEnvelope(p) THEN x.holder \in {None, DidOf[x.vm]}
    ELSE x.issuer = DidOf[x.vm]

\* ValidateProofKey of challenge and domain; they are not compared for a
\* credential in a presentation.
Bound(p, x) ==
    req[p].kind = "credential" \/ OfEnvelope(p) => x.binding = req[p].binding

\* The second half, for a linked data proof: there is one, it has the challenge
\* and domain asked for, and the document of its method, resolved now, is the
\* issuer's (holder's) and lists the method for the purpose.
ValidateProof(p) ==
    /\ Working(p, {"proof", "credentialProof"}, 2)
    /\ LET x == Subject(p)
           ok == /\ x.vm # None
                 /\ Bound(p, x)
                 /\ Controls(p, x)
                 /\ ValidateProofPurpose(x.purpose, x.vm)
       IN \/ ok /\ Pass(p)
          \/ ~ok /\ Refuse(p, FALSE)
    /\ UNCHANGED <<docs, rotated, issued, bits, requests>>

\* checkResponseStatus: the reply and every message in it are in order; a reply
\* without a status of its own is.
checkResponseStatus(r) ==
    /\ r.status # "error"
    /\ \A m \in DOMAIN r.replies : r.replies[m].ok

\* GetVCBytes: some entry of the reply has the identifier asked for.
GetVCBytes(r, l) ==
    \E m \in DOMAIN r.replies : \E e \in DOMAIN r.replies[m].entries : r.replies[m].entries[e] = l

\* resolveDIDRelativeURL: the hub named by the DID's document is asked for the
\* list; its reply has it.
resolveDIDRelativeURL(l, r) ==
    /\ ListInfo[l].hub \in Hubs
    /\ checkResponseStatus(r)
    /\ GetVCBytes(r, l)

\* The list l is at hand, with the positions set in it now.
WithList(r, l) == [r EXCEPT !.phase = 2, !.list = l, !.got = bits[l]]

\* validateVCStatus and GetRevocationVC: the credential has a status of the
\* supported type, and the list it names is fetched, from its URL or from the
\* identity hub of its DID.
GetRevocationVC(p) ==
    /\ Working(p, {"credentialStatus"}, 1)
    /\ LET s == Subject(p).status
           Fetched == req' = [req EXCEPT ![p] = WithList(@, s.list)]
       IN \/ s = None /\ Refuse(p, FALSE)
          \/ s # None /\ ListInfo[s.list].hub = None /\ Fetched
          \/ /\ s # None
             /\ ListInfo[s.list].hub # None
             /\ \E r \in HubReplies :
                   \/ resolveDIDRelativeURL(s.list, r) /\ Fetched
                   \/ ~resolveDIDRelativeURL(s.list, r) /\ Refuse(p, TRUE)
    /\ UNCHANGED <<docs, rotated, issued, bits, requests>>

\* Mutant of NotRevoked: the position before is read.
NotRevokedOffByOne(s, got) == s.idx + 1 \notin got

NotRevoked(s, got) == s.idx \notin got

\* ValidateVCStatus: the list is signed by a key of its signer's document,
\* resolved now, is of the credential's issuer and purpose, and has the
\* credential's position, unset.
ValidateVCStatus(p) ==
    /\ Working(p, {"credentialStatus"}, 2)
    /\ LET c == Subject(p)
           info == ListInfo[req[p].list]
           ok == /\ info.vm \in Keys(DidOf[info.vm])
                 /\ info.issuer = c.issuer
                 /\ info.purpose = c.status.purpose
                 /\ c.status.idx < BitLen
                 /\ NotRevoked(c.status, req[p].got)
       IN \/ ok /\ Pass(p)
          \/ ~ok /\ Refuse(p, FALSE)
    /\ UNCHANGED <<docs, rotated, issued, bits, requests>>

\* A DID cannot be resolved or a list not be fetched: the check fails.
CallFails(p) ==
    /\ req[p].todo # <<>>
    /\ Refuse(p, TRUE)
    /\ UNCHANGED <<docs, rotated, issued, bits, requests>>

\* The failed checks are returned.
Reply(p) ==
    /\ req[p] # Idle
    /\ req[p].todo = <<>>
    /\ req' = [req EXCEPT ![p] = Idle]
    /\ UNCHANGED <<docs, rotated, issued, bits, requests>>

Next ==
    \/ \E i \in Issuers, opts \in SigningOpts : IssueCredential(i, opts)
    \/ \E n \in DOMAIN issued, revoke \in BOOLEAN : UpdateVCStatus(n, revoke)
    \/ \E d \in DIDs, doc \in Updates : RotateKey(d, doc)
    \/ \E p \in Procs :
          \/ PostVerifyCredentials(p) \/ PostVerifyPresentation(p)
          \/ verifyAuthorizationResponseTokens(p)
          \/ ParseProof(p) \/ ValidateProof(p)
          \/ GetRevocationVC(p) \/ ValidateVCStatus(p)
          \/ CallFails(p) \/ Reply(p)

Spec == Init /\ [][Next]_vars

-----------------------------------------------------------------------------
Done(p) == req[p] # Idle /\ req[p].todo = <<>>

\* The credentials of the request passed their proof check.
ProofPassed(p) ==
    /\ req[p].checks.credProof
    /\ (IF req[p].kind = "credential" THEN "proof" ELSE "credentialProof") \notin req[p].failed

\* A credential that passes is unchanged and signed by a key that was in its
\* issuer's own DID document at some time of the request, not before it and not
\* in another DID's, whatever keys come and go meanwhile, alone and in a
\* presentation.
IssuerSigned ==
    \A p \in Procs :
        Done(p) /\ ProofPassed(p) =>
            \A m \in DOMAIN req[p].creds :
                LET c == req[p].creds[m] IN c.intact /\ c.vm \in req[p].keys[c.issuer]

\* A credential that is revoked from the start of the request to its end is
\* reported, also as the last of several in a presentation, and whichever way
\* its status list is found.
RevokedReported ==
    \A p \in Procs :
        Done(p) /\ req[p].checks.status /\ req[p].gone # {} =>
            "credentialStatus" \in req[p].failed

\* Signing looks up the method it names, except with did:sov, and for a JWT
\* with did:key.
LookedUp(c) ==
    DidOf[c.vm] \notin (IF c.format = "jwt" THEN SovDIDs \cup KeyDIDs ELSE SovDIDs)

\* List l was made under DID d, and is signed by a key that its signer's
\* document has had since the start.
ListUsable(l, d) ==
    /\ ListInfo[l].issuer = d
    /\ ListInfo[l].vm \in Keys(DidOf[ListInfo[l].vm])
    /\ DidOf[ListInfo[l].vm] \notin rotated

\* What this server issued with a key of the profile's own DID is not refused:
\* as long as no call fails, the DID has not been updated and no credential was
\* revoked during the request, every check of it passes, with the challenge and
\* domain it was signed for, and with any in a presentation.  A name that signing
\* did not look up must be in the document, and the status list must have been
\* made under the DID that signs: after a restart with a new DID it is not
\* (IssuedVerifiable of module ServerStart).
IssuedAccepted ==
    \A p \in Procs :
        (/\ Done(p)
         /\ ~req[p].fault
         /\ req[p].seen = {}
         /\ \A m \in DOMAIN req[p].creds :
               LET c == req[p].creds[m]
               IN /\ \E n \in DOMAIN issued : issued[n] = c
                  /\ c.issuer = DidOf[c.vm]
                  /\ c.issuer \notin rotated
                  /\ LookedUp(c) \/ c.vm \in Keys(c.issuer)
                  /\ ListUsable(c.status.list, c.issuer)
                  /\ req[p].kind = "credential" /\ c.format = "ldp" =>
                         c.binding = req[p].binding)
        => req[p].failed \subseteq (IF req[p].kind = "credential" THEN {} ELSE {"proof"})
=============================================================================
