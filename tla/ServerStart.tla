----------------------------- MODULE ServerStart -----------------------------
(***************************************************************************)
(* Replicas of the vc-rest server that start, stop, crash and start again  *)
(* on one database and one key management service.                         *)
(*                                                                         *)
(* A start reads the parameters, prepares the configuration, makes the     *)
(* default key manager, reads the issuer profiles (creating keys and a new *)
(* public DID for every profile that asks for it), creates the indexes of  *)
(* the stores, inserts the OAuth clients of the clients file, reads the    *)
(* verifier profiles and serves.  Any error ends the process.  Nothing     *)
(* that a start has written is taken back, and the next start does all of  *)
(* it again: what is in the database is met by newer signing DIDs.         *)
(*                                                                         *)
(* One action is one call outside the process with the local computation   *)
(* around it.                                                              *)
(***************************************************************************)
EXTENDS Naturals, Sequences

CONSTANTS
    Replicas,    \* server processes that share the database
    ProfileIDs,  \* identifiers of profiles
    ClientIDs,   \* identifiers of OAuth clients
    ParamSets,   \* ParamSets[r]: what an operator may start r with
    MaxStarts,   \* bound of the model: MaxStarts[r], how often r is started
    None

\* Text of a flag that is read with strconv.ParseBool.
BoolText == {None, "true", "false", "neither"}

\* "ECDSA" stands for the NIST and secp256k1 curves, "BLS" for the key types
\* that no crypto.PublicKey is made of (BLS12381, X25519, RSA).
KeyTypes == {"ECDSA", "ED25519", "BLS"}

\* An element of the profiles file: the fields that reading it depends on.
\* kms: the profile names a KMS of its own; oidc: it has an OIDC configuration.
Entry == [id : ProfileIDs, create : BOOLEAN, kms : BOOLEAN, oidc : BOOLEAN,
          method : {"key", "orb", "web", "ion", "other"}, keyType : KeyTypes,
          format : {"ldp", "jwt"}]

\* The flags and environment variables with the files they name.  A parameter
\* that is not set, or a file that cannot be read, is None (or FALSE).
Params ==
    [hostURL : BOOLEAN, oAuthSecret : BOOLEAN, promURL : BOOLEAN,
     metrics : {None, "prometheus"}, lockKey : BOOLEAN, secretsDB : BOOLEAN,
     mode : {None, "issuer", "verifier", "holder", "combined"},
     certPool : BoolText, devMode : BoolText, remote : BoolText,
     caCerts : BOOLEAN, resolver : BOOLEAN,
     dbType : {None, "mongodb", "mem", "couchdb"},
     kmsType : {None, "local", "web", "aws", "other"},
     issuers : Seq(Entry) \cup {None}, verifiers : Seq(Entry) \cup {None},
     clients : Seq(ClientIDs) \cup {None}]  \* << >>: no file is named

ASSUME StartAssumption ==
    /\ ParamSets \in [Replicas -> SUBSET Params]
    /\ \A r \in Replicas : \A p \in ParamSets[r] :
          (p.issuers = None) <=> (p.verifiers = None)
    /\ MaxStarts \in [Replicas -> Nat]

\* A deployment keeps its key management service.
ASSUME SameKMSAssumption ==
    \A r, s \in Replicas : \A p \in ParamSets[r], q \in ParamSets[s] :
        p.kmsType = q.kmsType

Readers == {"issuers", "verifiers"}

\* A created DID is named by who created it, for which element of which list.
DID == [by : Replicas, start : Nat, reader : Readers, entry : Nat]

\* The names are told apart.
ASSUME NamesAssumption ==
    /\ None \notin DID
    /\ Replicas \cap {"db", "web", "aws"} = {}

\* Collections whose indexes are created: those of the OIDC4VC transaction
\* store, of the authorize state store, of the OAuth store (its clients, and
\* "sessions" for its five session collections) and of the nonce store.
OAuthCollections == {"clients", "sessions"}
Collections == {"transactions", "states", "nonces"} \cup OAuthCollections

VARIABLES
    pc,         \* pc[r]: where replica r is
    params,     \* params[r]: what it was started with
    starts,     \* starts[r]: how often it was started
    at,         \* at[r]: element of the list it goes through
    made,       \* made[r]: keys made for that element
    todo,       \* todo[r]: OAuth collections without their indexes
    dids,       \* dids[r]: signing DIDs of its profiles, None: as in the file
    failed,     \* history: a call of the present start failed
    indexed,    \* database: collections with their indexes
    clients,    \* database: the stored OAuth clients
    keys,       \* the keys of the KMS, and where they are kept
    published,  \* the registry: published DIDs
    lists,      \* database: lists[p], the status list of an issuer profile
    issued      \* the credentials issued: their profile and issuer

local == <<pc, params, starts, at, made, todo, dids, failed>>
shared == <<indexed, clients, keys, published, lists, issued>>
vars == <<local, shared>>

Starting == {"configure", "keyManager", "issuers", "txIndex", "stateIndex",
             "migrate", "insert", "verifiers", "nonceIndex"}

\* Where a key is kept: the database, a remote KMS, or a replica's memory.
Place == {"db", "web", "aws"} \cup Replicas
Key == [did : DID, n : 1..5, place : Place]

StatusList == [issuer : DID \cup {None}, vm : DID \cup {None}, jwt : BOOLEAN]
Issued == [profile : ProfileIDs, did : DID \cup {None}]

TypeOK ==
    /\ pc \in [Replicas -> {"off", "refused", "serving"} \cup Starting]
    /\ params \in [Replicas -> Params \cup {None}]
    /\ starts \in [Replicas -> Nat]
    /\ at \in [Replicas -> Nat]
    /\ made \in [Replicas -> 0..5]
    /\ todo \in [Replicas -> SUBSET OAuthCollections]
    /\ dids \in [Replicas -> [Readers -> [ProfileIDs -> DID \cup {None}]]]
    /\ failed \in [Replicas -> BOOLEAN]
    /\ indexed \subseteq Collections
    /\ clients \in Seq(ClientIDs)
    /\ keys \subseteq Key
    /\ published \subseteq DID
    /\ lists \in [ProfileIDs -> StatusList \cup {None}]
    /\ issued \subseteq Issued

NoDIDs == [k \in Readers |-> [p \in ProfileIDs |-> None]]

Init ==
    /\ pc = [r \in Replicas |-> "off"]
    /\ params = [r \in Replicas |-> None]
    /\ starts = [r \in Replicas |-> 0]
    /\ at = [r \in Replicas |-> 1]
    /\ made = [r \in Replicas |-> 0]
    /\ todo = [r \in Replicas |-> {}]
    /\ dids = [r \in Replicas |-> NoDIDs]
    /\ failed = [r \in Replicas |-> FALSE]
    /\ indexed = {}
    /\ clients = << >>
    /\ keys = {}
    /\ published = {}
    /\ lists = [p \in ProfileIDs |-> None]
    /\ issued = {}
-----------------------------------------------------------------------------
(* The parameters *)

ParseBool(t) == t # "neither"

getMode(p) == p.mode # "combined"

getTLS(p) == ParseBool(p.certPool)

getDBParameters(p) == p.dbType # None

\* The type of the secrets database must be given for the local KMS, and is
\* then not used: buildEchoHandler hands the KMS the main database.
getKMSParameters(p) ==
    /\ p.kmsType \in {"local", "web", "aws"}
    /\ p.kmsType = "local" => p.secretsDB

getPrometheusMetricsProviderParams(p) == p.promURL

getDevMode(p) == ParseBool(p.devMode)

getStartupParameters(p) ==
    /\ p.hostURL
    /\ p.oAuthSecret
    /\ p.metrics = "prometheus" => getPrometheusMetricsProviderParams(p)
    /\ getMode(p)
    /\ getTLS(p)
    /\ getDBParameters(p)
    /\ getKMSParameters(p)
    /\ ParseBool(p.remote)
    /\ getDevMode(p)

\* Mutant: also the in-memory store that the KMS knows.
createEdgeStoreProviderMem(p) == p.dbType \in {"mongodb", "mem"}

createEdgeStoreProvider(p) == p.dbType = "mongodb"

\* createVDRI: an unusable universal resolver URL is an error.
prepareConfiguration(p) ==
    /\ p.caCerts
    /\ createEdgeStoreProvider(p)
    /\ p.resolver

createStoreProvider(p) == p.dbType \in {"mongodb", "mem"}

createLocalSecretLock(p) == p.lockKey

createLocalKMS(p) == createLocalSecretLock(p) /\ createStoreProvider(p)

NewAriesKeyManager(p) == p.kmsType = "local" => createLocalKMS(p)

\* Where the keys that the key manager of r makes are kept.
PlaceOf(r) ==
    CASE params[r].kmsType # "local" -> params[r].kmsType
      [] params[r].dbType = "mem" -> r
      [] OTHER -> "db"
-----------------------------------------------------------------------------
(* Profiles, their keys and DIDs *)

Go(r, l) == pc' = [pc EXCEPT ![r] = l]

Entries(r) == IF pc[r] = "issuers" THEN params[r].issuers
                                   ELSE params[r].verifiers

Current(r) == Entries(r)[at[r]]

InReader(r) == pc[r] \in Readers /\ at[r] <= Len(Entries(r))

\* A verifier gets a DID only for its OIDC configuration.
CreatesDID(r) == /\ Current(r).create
                 /\ pc[r] = "verifiers" => Current(r).oidc

\* A KMS of the profile's own is not supported.
GetKeyManager(e) == ~e.kms

\* newVerMethods: keys of the verification methods; the orb and web methods
\* take an update and a recovery key besides.
newVerMethods(e) == IF e.method \in {"orb", "web"} THEN 3 ELSE 1

\* Mutant: one key too many.
KeyCountMore(e) == newVerMethods(e) + 3

KeyCount(e) == IF e.method \in {"orb", "web"} THEN newVerMethods(e) + 2
                                              ELSE newVerMethods(e)

\* publicDID: the supported methods.
publicDID(e) == e.method \in {"key", "orb", "web", "ion"}

\* Key types that a crypto.PublicKey is made of.
CryptoKeyCreator(e) == e.keyType \in {"ECDSA", "ED25519"}

\* The registry of a reader: that of the verifiers does not know did:key.
Registry(k) == IF k = "issuers" THEN {"key", "orb", "web", "ion"}
                                ELSE {"orb", "web", "ion"}

NewDID(r) == [by |-> r, start |-> starts[r], reader |-> pc[r], entry |-> at[r]]

NextEntry(r) == /\ at' = [at EXCEPT ![r] = @ + 1]
                /\ made' = [made EXCEPT ![r] = 0]

\* The profile is put into the reader's map, over an earlier one with its ID.
Register(r, d) == dids' = [dids EXCEPT ![r][pc[r]][Current(r).id] = d]

\* A profile that brings its signing DID (or none).
UseFileDID(r) ==
    /\ InReader(r)
    /\ ~CreatesDID(r)
    /\ Register(r, None)
    /\ NextEntry(r)
    /\ UNCHANGED <<pc, params, starts, todo, failed, shared>>

RefuseEntry(r) ==
    /\ InReader(r)
    /\ CreatesDID(r)
    /\ ~GetKeyManager(Current(r)) \/ ~publicDID(Current(r))
    /\ Go(r, "refused")
    /\ UNCHANGED <<params, starts, at, made, todo, dids, failed, shared>>

\* One key more.  The key manager keeps it also when it then turns out that
\* no public key can be made of its type.
CreateKey(r) ==
    LET e == Current(r)
        n == made[r] + 1 IN
    /\ InReader(r)
    /\ CreatesDID(r)
    /\ GetKeyManager(e)
    /\ publicDID(e)
    /\ n <= KeyCount(e)
    /\ keys' = keys \cup {[did |-> NewDID(r), n |-> n, place |-> PlaceOf(r)]}
    /\ IF n > newVerMethods(e) => CryptoKeyCreator(e)
         THEN made' = [made EXCEPT ![r] = n] /\ UNCHANGED pc
         ELSE Go(r, "refused") /\ UNCHANGED made
    /\ UNCHANGED <<params, starts, at, todo, dids, failed>>
    /\ UNCHANGED <<indexed, clients, published, lists, issued>>

\* vdr.Create, or the universal registrar for ion; the first key becomes the
\* signing key of the profile.
PublishDID(r) ==
    LET e == Current(r) IN
    /\ InReader(r)
    /\ CreatesDID(r)
    /\ GetKeyManager(e)
    /\ publicDID(e)
    /\ made[r] = KeyCount(e)
    /\ \/ /\ e.method \in Registry(pc[r])
          /\ published' = published \cup {NewDID(r)}
          /\ Register(r, NewDID(r))
          /\ NextEntry(r)
          /\ UNCHANGED pc
       \/ /\ e.method \notin Registry(pc[r])
          /\ Go(r, "refused")
          /\ UNCHANGED <<published, dids, at, made>>
    /\ UNCHANGED <<params, starts, todo, failed>>
    /\ UNCHANGED <<indexed, clients, keys, lists, issued>>

EndReader(r) ==
    /\ pc[r] \in Readers
    /\ at[r] > Len(Entries(r))
    /\ Go(r, IF pc[r] = "issuers" THEN "txIndex" ELSE "nonceIndex")
    /\ at' = [at EXCEPT ![r] = 1]
    /\ UNCHANGED <<params, starts, made, todo, dids, failed, shared>>
-----------------------------------------------------------------------------
(* The start, step by step *)

\* A process begins with an empty memory.
Start(r) ==
    /\ pc[r] \in {"off", "refused"}
    /\ starts[r] < MaxStarts[r]
    /\ \E p \in ParamSets[r] :
          /\ params' = [params EXCEPT ![r] = p]
          /\ Go(r, IF getStartupParameters(p) THEN "configure" ELSE "refused")
    /\ starts' = [starts EXCEPT ![r] = @ + 1]
    /\ at' = [at EXCEPT ![r] = 1]
    /\ made' = [made EXCEPT ![r] = 0]
    /\ todo' = [todo EXCEPT ![r] = {}]
    /\ dids' = [dids EXCEPT ![r] = NoDIDs]
    /\ failed' = [failed EXCEPT ![r] = FALSE]
    /\ keys' = {k \in keys : k.place # r}
    /\ UNCHANGED <<indexed, clients, published, lists, issued>>

Configure(r) ==
    /\ pc[r] = "configure"
    /\ Go(r, IF prepareConfiguration(params[r]) THEN "keyManager" ELSE "refused")
    /\ UNCHANGED <<params, starts, at, made, todo, dids, failed, shared>>

\* The default key manager, the database client, and the profiles file.
NewKeyManager(r) ==
    /\ pc[r] = "keyManager"
    /\ Go(r, IF NewAriesKeyManager(params[r]) /\ params[r].issuers # None
               THEN "issuers" ELSE "refused")
    /\ UNCHANGED <<params, starts, at, made, todo, dids, failed, shared>>

CreateIndexes(c) == /\ indexed' = indexed \cup {c}
                    /\ UNCHANGED <<clients, keys, published, lists, issued>>

\* oidc4vcstore.New
NewTransactionStore(r) ==
    /\ pc[r] = "txIndex"
    /\ CreateIndexes("transactions")
    /\ Go(r, "stateIndex")
    /\ UNCHANGED <<params, starts, at, made, todo, dids, failed>>

\* oidc4vcstatestore.New, and getOAuth2Clients reading the clients file.
NewStateStore(r) ==
    /\ pc[r] = "stateIndex"
    /\ CreateIndexes("states")
    /\ Go(r, IF params[r].clients # None THEN "migrate" ELSE "refused")
    /\ todo' = [todo EXCEPT ![r] = OAuthCollections]
    /\ UNCHANGED <<params, starts, at, made, dids, failed>>

\* Mutant: the clients are left without their index.
MigrateSessionsOnly(r) ==
    /\ pc[r] = "migrate"
    /\ CreateIndexes("sessions")
    /\ todo' = [todo EXCEPT ![r] = {}]
    /\ Go(r, "insert")
    /\ UNCHANGED <<params, starts, at, made, dids, failed>>

\* The OAuth store's migrate goes through its collections in the order of a
\* Go map: in any order.
Migrate(r) ==
    /\ pc[r] = "migrate"
    /\ \E c \in todo[r] :
          /\ CreateIndexes(c)
          /\ todo' = [todo EXCEPT ![r] = @ \ {c}]
          /\ IF todo[r] = {c} THEN Go(r, "insert") ELSE UNCHANGED pc
    /\ UNCHANGED <<params, starts, at, made, dids, failed>>

Stored(c) == \E i \in DOMAIN clients : clients[i] = c

\* The unique index on the clients refuses a second one.
Duplicate(c) == "clients" \in indexed /\ Stored(c)

\* Mutant: the loop ends at the first client that is there already.
InsertClientStops(r) ==
    LET cs == params[r].clients IN
    /\ pc[r] = "insert"
    /\ at[r] <= Len(cs)
    /\ clients' = IF Duplicate(cs[at[r]]) THEN clients
                                          ELSE Append(clients, cs[at[r]])
    /\ at' = [at EXCEPT ![r] = IF Duplicate(cs[at[r]]) THEN Len(cs) + 1
                                                       ELSE @ + 1]
    /\ UNCHANGED <<pc, params, starts, made, todo, dids, failed>>
    /\ UNCHANGED <<indexed, keys, published, lists, issued>>

\* Mutant: a client that is there already is an error.
InsertClientFails(r) ==
    LET cs == params[r].clients IN
    /\ pc[r] = "insert"
    /\ at[r] <= Len(cs)
    /\ IF Duplicate(cs[at[r]])
         THEN Go(r, "refused") /\ UNCHANGED <<clients, at>>
         ELSE /\ clients' = Append(clients, cs[at[r]])
              /\ at' = [at EXCEPT ![r] = @ + 1]
              /\ UNCHANGED pc
    /\ UNCHANGED <<params, starts, made, todo, dids, failed>>
    /\ UNCHANGED <<indexed, keys, published, lists, issued>>

\* bootstrapOAuthProvider's loop: a client that is there already is left alone.
InsertClient(r) ==
    LET cs == params[r].clients IN
    /\ pc[r] = "insert"
    /\ at[r] <= Len(cs)
    /\ clients' = IF Duplicate(cs[at[r]]) THEN clients
                                          ELSE Append(clients, cs[at[r]])
    /\ at' = [at EXCEPT ![r] = @ + 1]
    /\ UNCHANGED <<pc, params, starts, made, todo, dids, failed>>
    /\ UNCHANGED <<indexed, keys, published, lists, issued>>

\* The provider is composed; the handlers of the issuer API are registered.
Compose(r) ==
    /\ pc[r] = "insert"
    /\ at[r] > Len(params[r].clients)
    /\ Go(r, "verifiers")
    /\ at' = [at EXCEPT ![r] = 1]
    /\ UNCHANGED <<params, starts, made, todo, dids, failed, shared>>

\* oidcnoncestore.New; then nothing but local work until startServer listens.
NewNonceStore(r) ==
    /\ pc[r] = "nonceIndex"
    /\ CreateIndexes("nonces")
    /\ Go(r, "serving")
    /\ UNCHANGED <<params, starts, at, made, todo, dids, failed>>

StartStep(r) ==
    \/ Configure(r)
    \/ NewKeyManager(r)
    \/ UseFileDID(r)
    \/ RefuseEntry(r)
    \/ CreateKey(r)
    \/ PublishDID(r)
    \/ EndReader(r)
    \/ NewTransactionStore(r)
    \/ NewStateStore(r)
    \/ Migrate(r)
    \/ InsertClient(r)
    \/ Compose(r)
    \/ NewNonceStore(r)

\* A call of the database, the KMS or the DID registry fails: RunE returns.
Fail(r) ==
    /\ pc[r] \in Starting
    /\ Go(r, "refused")
    /\ failed' = [failed EXCEPT ![r] = TRUE]
    /\ UNCHANGED <<params, starts, at, made, todo, dids, shared>>

\* The process ends, at any point.
Crash(r) ==
    /\ pc[r] \in Starting \cup {"serving"}
    /\ Go(r, "off")
    /\ UNCHANGED <<params, starts, at, made, todo, dids, failed, shared>>
-----------------------------------------------------------------------------
(* Serving: what a later start meets *)

\* The profile under an ID: the last element of the file with it.
Issuers(r, p) ==
    {params[r].issuers[i] : i \in
        {j \in DOMAIN params[r].issuers :
            /\ params[r].issuers[j].id = p
            /\ \A k \in DOMAIN params[r].issuers :
                  params[r].issuers[k].id = p => k <= j}}

\* A credential of profile p with an entry of the profile's status list, which
\* is made, under the replica's signing DID, when there is none.
IssueCredential(r, p) ==
    LET d == dids[r]["issuers"][p] IN
    /\ pc[r] = "serving"
    /\ \E e \in Issuers(r, p) :
          /\ GetKeyManager(e)
          /\ lists' = IF lists[p] # None THEN lists
                      ELSE [lists EXCEPT ![p] = [issuer |-> d, vm |-> d,
                                                 jwt |-> e.format = "jwt"]]
    /\ issued' = issued \cup {[profile |-> p, did |-> d]}
    /\ UNCHANGED <<local, indexed, clients, keys, published>>

\* prepareSigningOpts: an updated list is signed with the method of its last
\* proof; a JWT has no proof, and a did:key creator is always used itself.
Resigner(r, e) ==
    LET l == lists[e.id]
        d == dids[r]["issuers"][e.id] IN
    IF l.jwt \/ (e.create /\ e.method = "key") THEN d ELSE l.vm

\* The signing key of a DID can be used by r.  The keys of a DID of the
\* profiles file were put into the KMS by the operator.
HasKey(r, d) ==
    d # None => \E k \in keys : /\ k.did = d
                                /\ k.n = 1
                                /\ k.place = PlaceOf(r)

\* The revocation of a credential of profile p.
UpdateVC(r, p) ==
    /\ pc[r] = "serving"
    /\ lists[p] # None
    /\ \E e \in Issuers(r, p) :
          /\ GetKeyManager(e)
          /\ HasKey(r, Resigner(r, e))
          /\ lists' = [lists EXCEPT ![p] =
                         [issuer |-> lists[p].issuer, vm |-> Resigner(r, e),
                          jwt |-> e.format = "jwt"]]
    /\ UNCHANGED <<local, indexed, clients, keys, published, issued>>
-----------------------------------------------------------------------------
Next ==
    \E r \in Replicas :
        \/ Start(r)
        \/ StartStep(r)
        \/ Fail(r)
        \/ Crash(r)
        \/ \E p \in ProfileIDs : IssueCredential(r, p) \/ UpdateVC(r, p)

\* A process that is starting goes on.
Spec == /\ Init
        /\ [][Next]_vars
        /\ \A r \in Replicas : WF_vars(StartStep(r))
-----------------------------------------------------------------------------
(* Properties *)

\* The OAuth store holds a client once, although every replica inserts the
\* clients of its file at every start, at the same time as others, and starts
\* that ended half-way left some of them: the unique index precedes the
\* inserts.
ClientsStoredOnce ==
    \A i, j \in DOMAIN clients : clients[i] = clients[j] => i = j

\* A replica that serves has what its handlers take for granted, whatever
\* failed or crashed around it: the indexes that expire and keep unique what
\* the stores hold, all OAuth clients of its file, and for every DID that it
\* made the published document and the keys it was made with.
ServingReady ==
    \A r \in Replicas : pc[r] = "serving" =>
        /\ indexed = Collections
        /\ \A i \in DOMAIN params[r].clients : Stored(params[r].clients[i])
        /\ \A e \in {params[r].issuers[i] : i \in DOMAIN params[r].issuers} :
              LET d == dids[r]["issuers"][e.id] IN
              /\ (\E f \in Issuers(r, e.id) : f.create) => d # None
              /\ d # None => d \in published /\ HasKey(r, d)

\* A replica that serves can sign any stored status list anew, so credentials
\* can still be revoked after restarts and by other replicas than the one that
\* made the list: the key it needs is one that it finds in the KMS.
ListsUpdatable ==
    \A r \in Replicas : pc[r] = "serving" =>
        \A p \in ProfileIDs : lists[p] # None =>
            \A e \in Issuers(r, p) : HasKey(r, Resigner(r, e))

\* The parameters and the files are good.
Acceptable(p) ==
    /\ getStartupParameters(p)
    /\ prepareConfiguration(p)
    /\ NewAriesKeyManager(p)
    /\ p.issuers # None
    /\ p.clients # None
    /\ \A i \in DOMAIN p.issuers :
          LET e == p.issuers[i] IN
          e.create => /\ GetKeyManager(e)
                      /\ e.method \in Registry("issuers")
                      /\ KeyCount(e) > newVerMethods(e) => CryptoKeyCreator(e)
    /\ \A i \in DOMAIN p.verifiers :
          LET e == p.verifiers[i] IN
          e.create /\ e.oidc =>
              /\ GetKeyManager(e)
              /\ e.method \in Registry("verifiers")
              /\ KeyCount(e) > newVerMethods(e) => CryptoKeyCreator(e)

\* A start with good parameters and files ends in serving, unless a call fails
\* or the process ends: what earlier starts and other replicas have left in
\* the database never stands in its way.
StartServes ==
    \A r \in Replicas :
        (pc[r] = "configure" /\ Acceptable(params[r]))
            ~> (pc[r] \in {"serving", "off"} \/ failed[r])

\* A credential is accepted by the status check of the verifier, which wants
\* the issuer of the credential to be the issuer of its status list.
IssuedVerifiable ==
    \A c \in issued : lists[c.profile].issuer = c.did
=============================================================================
