# TLA+ specifications of the TrustBloc Verifiable Credential Service

This directory holds TLA+ models of the server in `src/`, TLC configurations
that check them on small instances, and TLAPS proofs. `PROJECT.json` lists the
components, runs, mutants, findings, hazards and theorems, and maps every
definition to the lines it models.

## The system

The server (`cmd/vc-rest`) answers REST requests of issuers, verifiers and
wallets. Its state is in MongoDB collections, which all replicas share, and in
an in-memory event bus. A request is one goroutine; it runs a sequence of
single-document calls of MongoDB, each atomic, without transactions, locks or
version checks across calls. Every call may fail, and the server may stop
between two calls.

| Component | State | Operations | Interacts with | Hard behaviour |
|---|---|---|---|---|
| Credential status (`pkg/service/credentialstatus`, `cslstore`) | one document per status list, one with the latest list identifier | CreateStatusID, UpdateVCStatus, GetRevocationListVC | called by issuance and the issuer controller; reads the credential store | read-modify-write of whole documents by overlapping requests, failures between the writes |
| Issuance (`pkg/service/issuecredential`, `vcstore`) | issued credentials, no unique identifier | IssueCredential | status service, KMS | a failure after the status entry was taken |
| Event bus (`component/event`, `pkg/lifecycle`) | channels, subscriber map, lifecycle state | Publish, Subscribe, Stop | OIDC4VP publishes; a listener posts to the verifier's web hook | goroutines, a snapshot used after unlock, full channels, stopping while in use |
| OIDC4VP (`pkg/service/oidc4vp`, its three stores, verifier controller) | transactions, one-time nonces with expiry, request objects | initiate, fetch the request object, respond, retrieve claims | event bus, presentation verification, KMS | repeated and concurrent responses, expiry, nonce collisions, failures after the nonce is spent |
| OIDC4VC (`pkg/service/oidc4vc`, its two stores, fosite storage, REST controllers) | issuance transactions, kept authorize answers, OAuth sessions, all with expiry | initiate, PAR and pushed details, authorize, redirect, store and exchange the provider's code, token | the issuer's OAuth provider, the wallet, its own interaction API over HTTP | redirects repeated and in any order, late writes of old copies, expiry, errors not looked at |
| Verification (`pkg/service/verifycredential`, `verifypresentation`, `doc/vc/crypto`) | none of its own | SignCredential, VerifyCredential, VerifyPresentation | DID resolver, status lists by HTTP or identity hub | one request reads the outside world several times while it changes |
| Server start (`cmd/vc-rest/startcmd`, profile reader, `pkg/kms`) | indexes, OAuth clients, keys, published DIDs | read parameters, create keys and DIDs, migrate, insert clients | database, KMS, DID registry; what is stored outlives the process | crashes and restarts, replicas that start together, half-done starts |
| DID configuration, logging, metrics, REST plumbing, generated code | none | conversion and I/O | all | little |

What makes the parts correct:

- Status: an entry belongs to one credential; a bit is set only for the
  credential whose revocation was asked for; an acknowledged revocation stays;
  a list takes no more entries than its size; requests complete.
- Event bus: every subscriber gets the messages of its topic since it
  subscribed, once and in order; stopping does not hang, closes every channel and
  should not panic (Finding 5 says when it does).
- OIDC4VP: one response decides a transaction; its claims were presented for
  this transaction; events come in order and never before the state they speak
  of; a nonce stays usable until it expires or is spent.
- OIDC4VC: a token is only of an op_state that an issuer initiated for what was
  authorized, by the code released for that op_state; a code is spent once and
  the wallet never holds two usable ones; a transaction stays what it was
  initiated for, also when an old copy is written back late.
- Verification: what passes was signed by a key its issuer had, and was not
  revoked, at some time of the request; what the server itself issued passes.
- Start: a server that serves is complete; what an earlier start left behind
  neither stops the next nor keeps it from serving what is stored.

## Modules

| Module | Models |
|---|---|
| `CredentialStatus` | the status service with its stores, issuance and status requests |
| `StatusRegistry` | abstract: a registry of unique entries with revocation |
| `VPInteraction` | abstract: an OIDC4VP interaction as API users and event subscribers see it |
| `MCCredentialStatus` | instances for TLC |
| `CredentialStatusProofs` | proofs for requests that overlap in every way |
| `CredentialStatusPerProfileProofs` | proofs for requests that do not overlap within a profile, and the refinement |
| `EventBus`, `MCEventBus`, `EventBusProofs` | the bus, its goroutines and channels; instances; proofs |
| `OIDC4VP`, `MCOIDC4VP`, `OIDC4VPProofs`, `OIDC4VPNonceProofs` | interactions of the verifier; instances; proofs about claims; proofs about nonces and events |
| `OIDC4VC`, `MCOIDC4VC`, `OIDC4VCProofs` | issuance by the authorization code flow, with the OAuth sessions; instances; proofs |
| `Verification`, `MCVerification`, `VerificationProofs` | signing and verification of credentials and presentations; instance; proofs |
| `ServerStart`, `MCServerStart`, `ServerStartProofs` | replicas that start, crash and restart on one database and KMS; instance; proofs |

### CredentialStatus

`latest` is the document with the latest list identifier (one for all
profiles), `csl[profile][list]` the list documents (the document key is
the list's URL, made of the profile and the number), `vcs` the credentials in
the order of their inserts. A list credential is abstracted to the set of bits
of its encoded list; signing it changes nothing the properties see. `req[p]` holds the
locals of the request that goroutine `p` serves; its `pc` names the store call
that comes next. The actions follow the calls:

- issue: `StartIssue`, `GetLatestListID`, `CreateLatestListID` (the insert
  collides if another request was first), `GetCSLWrapper` (a missing list is
  made locally), `Upsert` (size and index advanced, the whole wrapper written),
  `UpdateLatestListID` (when the size equals `listSize`), `PutVC`, `Reply`;
- status: `StartUpdate`, `GetVC` (any document with the identifier, then the
  status is parsed), `GetList` (the bit changed in a local copy), `UpsertBits`
  (the whole wrapper written), `Ack`;
- `Fail`: the request ends at any point and what it wrote stays. A call that
  was applied and whose answer was lost is the call followed by `Fail`. A call
  that has failed is assumed not to take effect later.

`asked` and `acked` are history variables: the credentials some request asked to
revoke, and those whose revocation was acknowledged with no request to reinstate
them since (or under way at that moment).

### EventBus

The channels are bounded sequences. `Publish` is a read of the lifecycle state
followed by a send that waits while the channel is full; `Subscribe` is a read
of the state followed by a write to the map under the mutex (a panic if the map
is nil); the processing goroutine takes an entry, takes its snapshot under the
mutex and sends one message per step; `Stop` is the compare-and-swap, the
hand-over of the token, its return, and the closing of the channels. The
listener receives and handles. `log`, `joined` and `received` are history. The
bus starts as `NewEventBus` returns it. After a panic the program is gone.

### OIDC4VP

`txProfile` and `claims` are the transaction documents, `nonces` the nonce
collection with expiry times, `objects[tx]` the nonce in the published request
object of a transaction, `events` what was given to the event bus. Actions are
the store calls of initiation (`CreateTx`, `SetNonce` with its bounded retry,
`SendInitiated`, `PublishObject`), the fetch of the request object, which
publishes the "qr scanned" event each time, the response (`GetNonce` is the atomic
FindOneAndDelete, then `VerifyPresentation`, `StoreReceivedClaims`,
`SendSucceeded`), the retrieval, MongoDB's TTL monitor, the clock and `Fail`.

A response is an id_token and a vp_token for nonces of fetched request objects
and a state; tokens that are malformed, expired or wrongly signed are refused by
`verifyAuthorizationResponseTokens` without a change of state and are left out.
What the later checks make of it is a verdict: valid, refused, or signed by
someone other than the subject, which counts only if the profile asks for it.
Nonces are known to a wallet only through a request object.

`VPInteraction` is the same service without its machinery: an interaction begins,
is announced, offers one nonce, is scanned, answered for that nonce, reported and
retrieved. `Interaction` in `OIDC4VP` maps `txProfile`, `objects`, `claims`,
`origin` and `events` to its variables; `ImplementsInteraction` is checked in
`oidc4vp_faults` and proved.

### OIDC4VC

`docs[id]` are the issuance transactions (`oidc4vcstore`, unique on the
op_state), `states[o]` the kept authorize answers (`oidc4vcstatestore`),
`codes`, `pkce` and `tokens` the sessions of `fositemongo`. `ToDocument` and
`FromDocument` are the store's mappings, with the fields the document has. The
actions follow the calls:

- `InitiateCredentialIssuance`: template lookup, defaults, `Create`;
- `PushedAuthorization` (called directly, or through `/oidc/par`, which forwards
  the internal name of the format: such a call is always refused, so PAR sessions
  never exist) and `OidcAuthorize`, which read the transaction and hold a copy;
  `UpdateTx` writes the whole copy with a new expiry;
- `NewAuthorizeResponse` (fosite: code and PKCE session), `SaveAuthorizeState`
  (an insert, which fails while an answer is there);
- `OidcRedirect`, `StoreAuthorizationCode`, `WriteAuthorizeResponse`;
- `OidcToken`, `GetPKCERequestSession`, `DeletePKCERequestSession`,
  `ExchangeAuthorizationCode`, `GetAuthorizeCodeSession`,
  `InvalidateAuthorizeCodeSession`, `CreateAccessTokenSession`;
- the clock, the TTL monitor (`ReapTransaction`, `ReapState`) and `Fail`.

The redirect endpoint is public: in the model, as in the handler, anyone sends any
op_state to it at any time and the kept answer is released, so no property here
says that a user was at the provider. Codes are not guessed: a wallet
uses the codes that were released to it. Codes are numbered, which stands for
their being random and never equal. `initiated` and `disclosed` are history: what
issuers initiated transactions for, and which codes left with which op_state.

### Verification

`docs` are the DID documents, `bits` the status lists as readers see them,
`issued` what this server signed. A verification holds the checks that remain
(`todo`, the current one first) and the position of the loop over the
credentials in it (`n`); for each credential a check is one or two actions,
because it resolves a DID or fetches a list and then resolves again. The first
error ends the loop, and the next check starts with the first credential.
`RotateKey` (a new document of a DID: keys leave it and others are published),
`UpdateVCStatus` and failing calls come in between. Signatures are perfect:
`intact` says whether one fits. Replies of identity hubs are data of the model.
History fields of a request hold what was true when it began and since: `keys`
(the keys each DID has had), `gone` and `seen` (the credentials revoked all the
time, and at some time), `fault`. `gone` and `seen` go by the position in the
status list, which is all that revocation knows of a credential. `rotated` is
history too: the DIDs that were ever updated.

A presentation arrives in two ways: `PostVerifyPresentation` is the REST operation,
which checks the profile's formats; `verifyAuthorizationResponseTokens` is the
vp_token of an OIDC4VP response, always a JWT, for which formats are not
checked and challenge and domain are not asked for.

A key that is published while a request runs may be the one a credential passes
with; so `IssuerSigned` speaks of some time of the request, not of its start.

`IssuedAccepted` asks three things that signing does not look up: the
method of a did:sov issuer or of a JWT of a did:key issuer must be in the issuer's
document (signing skips `ValidateProofPurpose` for the first and compares only the
DID for the second); the key of the status list must still be in its
signer's document (`ListUsable`); and the list must have been made under the DID that
signs now. The last is not so after a restart with a new DID, which is what
Finding 4 shows. Named assumptions: a
profile's list is for revocation (`ListsAssumption`, what `createVC` of the status
service does), and a did:key document lists only methods of its own DID
(`KeyDocsAssumption`).

### ServerStart

One action is one call outside the process: `Start` (parameters), `Configure`,
`NewKeyManager`, per profile `UseFileDID`, `RefuseEntry`, `CreateKey`,
`PublishDID`, then `NewTransactionStore`, `NewStateStore`, `Migrate` (a Go map: any
order), `InsertClient`, `Compose`, `NewNonceStore`; `Fail` and `Crash` at any point.
`IssueCredential` and `UpdateVC` are the part of serving that a later start meets:
which DID a status list was made by and which key signs it anew. Assumed: one
kind of KMS per deployment (`SameKMSAssumption`), the keys of DIDs named in the
profiles file are in the KMS, and a list has room for the model's credentials.

## Runs

| Run | Specification | Shows |
|---|---|---|
| `status_per_profile` | `SpecPerProfile` | if requests of one profile do not overlap: lists sound, bits only on request, unique entries, acknowledged revocations hold, refinement of `StatusRegistry`; requests whose calls do not fail complete, also status requests for entries of a list that went past its size |
| `status_unique_entries` | `Spec` | violated, Finding 1 |
| `status_within_capacity` | `SpecPerProfileNoFaults` | violated, Finding 2 |
| `event_bus_race` | `Spec` | streams complete and in order, no send on a closed channel, a stopped bus is closed |
| `event_bus_fair` | `FairSpec` | Stop and listeners end, delivery, unless the program panics |
| `event_bus_panic` | `Spec` | violated, Finding 5 |
| `oidc4vp_faults` | `Spec` | own presentation, claims final, usable nonces, events in order, refinement of `VPInteraction`, with failures of every process |
| `oidc4vc_flow` | `Spec` | tokens only for what was initiated and authorized, by the code of their own op_state; spent codes, one usable code, one transaction per op_state, its details and its fate |
| `oidc4vc_stored_code` | `Spec` | violated, Finding 3 |
| `verification` | `Spec` | issuer signed, revoked reported, issued accepted |
| `server_start` | `Spec` | clients once, serving ready, lists updatable, a good start serves |
| `server_issued_verifiable` | `Spec` | violated, Finding 4 |

The properties of status lists that hold under any overlap (`TypeOK`,
`StatusListsSound`, `NoBitWithoutRequest`) are run under `SpecPerProfile` and
proved under `Spec`.

### Bounds

- Status: lists of one entry and 3 issuance requests roll over more than once; two
  processes suffice for a lost update; two profiles share the latest identifier,
  so a profile meets a list number it has no document for; one credential
  identifier per profile makes credentials with equal identifiers. Status requests
  are not counted. `MaxListID` is larger than what the issuances can reach. Process
  `p1` fails, `p2` does not. After a roll-over that failed, a list takes more: a
  second entry and a third, while its bit string has two positions. The third is
  refused for good (Finding 2), which is why `RevocationCompletes` asks for entries
  within it; without this condition the run fails.
- Event bus: buffers of 1 or 2 become full with 2 messages per publisher; two
  callers of Stop race for the compare-and-swap. The publishers stop after
  `MaxEvents` messages, so the bus may come to rest: deadlock is not checked.
- OIDC4VP: two transactions and two nonces let a nonce value return after it was
  spent or expired, and exhaust the retries; responses carry one of two
  claims, so a second response is not the first one again. A nonce lives one time unit
  and the clock shows `Time` = {0, 2}: before its expiry and after. `MaxTx` and
  `MaxFetch` end behaviours, so deadlock is not checked.
- OIDC4VC: two op_states, so that an answer or a code of one can be taken for the
  other, two transactions, two codes, two processes; of the times in `Time` the
  later one is past the lives of a code and of a document. The wallets ask for
  response type "code", so issuers initiate with "code"; one initiation leaves it
  out and gets the code's default "token", which no authorization fits.
- Verification: one process, since a verification writes nothing that another
  reads; what changes under it are the environment's actions. Two issuers, one
  with a did:key of two names, two lists (one in a hub), presentations of up to
  `MaxCreds` credentials, as vp_tokens and with challenge and domain. The server
  signs a JWT for one issuer and linked data proofs for the other. Others'
  credentials are in both formats by the key that A's next document publishes, and
  one that was changed after it was signed and has its status in a list of another
  issuer.
- ServerStart: `r1` starts twice with good parameters or any of seven bad ones,
  `r2` once with the files in another order; clients repeat within a file and
  between files. Servers may stay off, so deadlock is not checked.

Symmetry is used for safety runs only.

### Fairness

- `SpecPerProfile`: weak fairness of the next step of a
  request served by a process outside `Faulty`. A goroutine that can run does
  run, and each MongoDB call has a timeout
  (`mongodb.Client.ContextWithTimeout`); the processes in `Faulty` may fail at
  any step and have no fairness.
- `FairSpec` of the bus: weak fairness of the processor, of listeners (the web hook
  handler is assumed to return; its HTTP client has no time limit), of the second
  half of Subscribe and of the
  steps of Stop, which wait for the processor to come back to its `select`: Go's
  `select` chooses at random among the ready cases, and publishers are bounded in
  the model. Strong fairness of the send of a publisher: Go queues blocked senders
  of a channel first in, first out. Nobody has to call Publish, Subscribe or Stop,
  and after a panic nothing runs: the liveness properties end in "or the program
  panicked".
- ServerStart's `Spec`: weak fairness of the steps of a start; it may still fail
  or crash, which `StartServes` allows for.

## Findings

1. Two overlapping issuances of one profile get the same status entry: the list
   is read, changed and written back without a lock (`CreateStatusID`). For the
   same reason an acknowledged revocation is undone by an overlapping request
   that writes an older copy. `status_per_profile` and the proofs show that
   requests of one profile that overlap are the only cause.
2. A list may go past its size. The latest list identifier is shared by all
   profiles and written from the caller's own copy of its list; a slow
   `UpdateLatestListID` of one profile sets it back, another profile takes a full
   list again, and the roll-over test, an equality, is never true for it again.
   A failed `UpdateLatestListID` call has the same effect. The list then grows
  without bound against a bit string of fixed length, and an entry past its end can
  never be revoked (`bitstring.go:60`).
3. `StoreAuthorizationCode` acknowledges the provider's code, but the stored
   document has no field for it: the code read back is empty, and
   `ExchangeAuthorizationCode` asks the provider with an empty code.
4. A profile that has its DID created gets a new one at every start and in every
   replica, while its status list keeps the issuer that made it. Credentials
   issued after a restart are refused by the verifier's status check.
5. A `Subscribe` call that has passed its state check while the bus stops writes to
   the map that `stop` has set to nil, and the program panics. The test
   `bus_test.go:133-151` runs this race to ensure that nothing panics.

Seen while modelling, without a promise in the repository to compare with: the
presentation verification endpoint's service is not given to the verifier
controller at `start.go:367`; the mode `combined` is the default but is refused
when named; the file reader returns neither profile nor error for an unknown
identifier; a changed OAuth client in the file is ignored once its identifier is
stored; keys of a start that failed stay in the KMS; the access token collection
has no index, so its documents are never removed; token requests with one code that overlap may get
a token each; every pushed authorization request through `/oidc/par` is refused.

## Proofs

All theorems hold for every number of processes, profiles, lists, nonces,
subscribers and so on, from the assumptions named in the modules: sizes are
natural numbers, the bit string is at least as long as a list, `None` (`Nil`) is
no value of the other sets, a deployment has one kind of KMS.

- **Status, any overlap** (`Invariance`). The properties speak of the documents,
  but a request that holds an old copy will write it. The inductive invariant
  therefore says the same of every wrapper held by a request: equal counters, own
  list identifier, bits asked for by requests about this very entry; and that a
  request past `Upsert` has its list in the store.
- **Status, one request per profile** (`PerProfileInvariance`). The additions
  (`Current`, `IndexesTaken`, `LatestFirst`): the copy a request is about to write
  is the stored document with the change the request makes; every index in use is
  below the next index of its list, so the index a request took belongs to no
  stored credential; before the latest identifier exists there is no list; a
  request to reinstate works on no credential whose revocation counts. Uniqueness
  and acknowledged revocations are parts of the invariant, revocation only on
  request follows. `ImplementsPromise` maps every step to
  `Issue`, `SetStatus` or a stutter of `StatusRegistry`; it is the property
  `ImplementsRegistry` that TLC checks, with the same mapping.
- **Event bus** (`BusInvariance`). Whoever gets past the two
  rendezvous of `stop` has seen the processor return, and no channel is closed
  before that (`Handshake`); a channel is in the map until it is closed
  (`Registered`); the map is dropped only after the state was changed
  (`StoppedFirst`).
  So nothing is sent on a closed channel although the snapshot is used without
  the mutex.
- **Event bus, streams** (`StreamInv`). `StreamComplete` is not inductive alone:
  that a dispatch reaches each subscriber of the topic once needs that the map,
  and the snapshot taken from it, list a topic's subscribers without repetition
  (`ListsGood`); that a new subscriber starts with nothing, that its channel is
  empty until `Subscribe` returns it (`Fresh`). With that each step moves one
  message between what a subscriber got, what its channel holds and what the
  processor still owes it, and the three together stay the topic's log since it
  joined.
- **Event bus, order** (`OrderInv`). A message is at one of four stages: waiting
  in its `Publish` call, in the publish channel, with the processor, in the log.
  The invariant orders all pairs of stages: what is ahead is of an earlier call of
  the same publisher.
- **OIDC4VP** (`VPInvariance`). A transaction has one token at most: the request
  that has yet to bind its nonce, the nonce document, or the request that spent
  it; with the claims stored there is none (`OneToken`). `ClaimsFinal` and
  `RetrievedFinal` (proved only) follow, because the only step that writes claims
  holds the token.
- **OIDC4VP, nonces and events** (`NonceInv`, on top of `VPInv`). A transaction
  is started by one request (`OneStart`), so one nonce is ever assigned to it, and
  a nonce that names it, in the collection or spent by a response, is the one in
  its request object (`OneNonce`): hence `OwnPresentation`. Responses carry a
  nonce that is both of the id_token and of the vp_token, and a state that was
  fetched (`SoundResponse`). The events of a transaction say how far it got
  (`Told`): no event before the first step, "initiated" once the request object
  can be read, "succeeded" by one response that has stored the claims. From this
  `EventsInOrder` is inductive, and `SucceededMeansClaims` follows (proved only: the
  runs check the refinement, whose `Report` asks for the claims). A bound nonce
  expires with its transaction, and before that it goes only when it is spent
  (`Usable`): `NonceUsableInTime`.
- **OIDC4VP, refinement** (`ImplementsPromisedInteraction`, from `NonceInv`).
  `VPInteraction` knows an owner, an offered nonce, an answer, the nonce the
  answer was signed for, the events and what was retrieved, and none of the nonce
  collection, the clock and the requests. Seven of the
  service's actions are its seven steps (`CreateTx` is `Begin`, `SendInitiated` is
  `Announce`, `PublishObject` is `Offer`, and so on); the rest, with every failure,
  expiry and retry, is not seen (`HiddenSteps`). The weight is on `StoreRefines`: the
  claims are the first of the transaction (`OneToken`), for the nonce on offer
  (`OneNonce`), and after a scan (`SoundResponse`, `Told`). It needs the comparison
  of the response's state with the nonce's transaction: without it a response may
  answer, by a nonce value drawn a second time, a transaction whose request object
  nobody has seen, although its nonce is the right one.
- **OIDC4VC** (`VCInvariance`). Two arguments, for transactions and for codes. For transactions
  (`DocInv`): what a request is about to write agrees with the stored document,
  if it is still there, in op_state, type and format, and identifiers are not
  reused; so a late write can only renew. For codes (`CodeInv`): a code that was
  released, or is in the hands of a redirect, was made for that op_state, which was
  authorized, and it can be used only while it is the code of the kept
  answer (`OnlyKept`). A new answer is kept only where there is none, and an
  answer is removed only when it has expired, which is after its code
  (`CodeLife < TTL`): hence at most one usable code. A step "ages" codes
  (`Aging`): it takes sessions away or makes one with a new number, and everything
  said of older codes stays true. For `TokenAuthorized`: every
  stored transaction is one that was initiated, so the op_state of an authorization
  request is in `Authorized` once its read has found one, and from there on
  `Authorized` only grows.
- **Server start** (`StartInv`), for any number of replicas and starts, with any
  files and failures. The invariant says what each place in the start has behind
  it (`Progress`): the parameters were checked, the indexes made, the clients so
  far inserted, the profiles so far read have their DIDs, the first key of the
  DID under way exists. The database, the registry and the KMS only grow, except
  for keys that a process keeps in its memory (`Grows`), so what one replica has
  done the others cannot undo (`ProgressStays`). An insert comes after the unique
  index: clients are stored once. A configuration that would keep keys in memory
  is refused by `prepareConfiguration` before the first key (`ConfiguredPlace`),
  and a DID is published after its keys are made and used after it is published
  (`DIDsGood`): so the signing key of every list is one that every replica finds,
  given `SameKMSAssumption`.

- **Verification** (`VerifyInv`), for any documents, lists, profiles, envelopes,
  presentations of any length and any number of requests. The properties speak of
  a request that is done; the invariant (`Sound`) says the same of one under way.
  A credential either still waits for a check (`Waiting`: the check is in `todo`,
  and if it is the current one the loop has not passed the credential) or has what
  the check promises (`SignedSoFar`, `ReportedSoFar`). Between the two calls of a
  check the invariant keeps what the first one found (`HalfChecked`,
  `ListFetched`): the proof's key was in the document of the method's DID, and the
  list at hand is the credential's and not older than the request. Every key
  a document has had since the request began is kept in the request's history
  (`KeysKept`, `RotatedSound`), so a key found at any of the reads is one of them;
  that the two reads see the same document is not needed. A document that was not
  updated is the initial one (`DocsKept`). For `IssuedAccepted` the condition of the property can only be lost, so
  it held whenever a check was made (`AcceptedSoFar`), and `Issued` says what
  `IssueCredential` guarantees of every credential it signs. The operators take
  the documents and the bits as parameters, so that the lemmas about a check are
  about one record and no state.

All safety invariants and the action properties of the passing runs are proved.
Only model-checked: the liveness properties `IssueCompletes`,
`RevocationCompletes`, `StopCompletes`, `ListenersEnd`, `EventDelivered` and
`StartServes`, which are outside what the prover supports, and the five violations.

## Not modelled

- DID configuration: a request reads a profile and builds a document; nothing is
  stored.
- Logging, metrics, health checks: nothing reads them back.
- Generated code: only the types that handlers work on.
- REST plumbing: error codes, headers and the API key carry no state.
- Refresh token and assertion stores: no handler of the composed provider uses
  them. PAR sessions: never made, as said above.
- Cryptography, JSON-LD, gzip and base64: perfect signatures, sets of bits.
- Read-only requests for a status list read what `ListOf` is.
- A request with an unknown profile panics in the handler and changes nothing.

## Plan

Done: status lists, event bus, OIDC4VP, OIDC4VC with the OAuth sessions,
verification, start and restart, each with proofs of its safety properties.

1. Liveness of `OIDC4VP`: a valid response none of whose calls fails completes the
   interaction. No run checks it.
2. Composition of `OIDC4VP` and `EventBus`: an event accepted by the bus reaches
   the web hook after the claims are readable.
3. The verification of a credential against the lists of `CredentialStatus`
   instead of the bits their readers see.
