---------------------------- MODULE OIDC4VPProofs ----------------------------
(***************************************************************************)
(* Proofs about OIDC4VP interactions for any number of concurrent          *)
(* requests, transactions and nonce values, with calls failing anywhere.   *)
(***************************************************************************)
EXTENDS OIDC4VP, TLAPS

\* A request with the locals r may still give transaction tx its nonce or its
\* claims.
Holding(r, tx) == r.pc \in {"setNonce", "verify", "store"} /\ r.tx = tx

Holds(p, tx) == Holding(req[p], tx)

\* Nonce n names transaction tx.
Bound(n, tx) == nonces[n] # None /\ nonces[n].tx = tx

\* A transaction has one token at most: the request that has yet to bind its
\* nonce, the nonce, or the request that spent the nonce.  When the claims are
\* stored the token is gone.
OneToken(tx) ==
    /\ \A p, q \in Procs : Holds(p, tx) /\ Holds(q, tx) => p = q
    /\ \A m, n \in Nonces : Bound(m, tx) /\ Bound(n, tx) => m = n
    /\ \A p \in Procs, n \in Nonces : ~(Holds(p, tx) /\ Bound(n, tx))
    /\ claims[tx] # None \/ txProfile[tx] = None
          => /\ \A p \in Procs : ~Holds(p, tx)
             /\ \A n \in Nonces : ~Bound(n, tx)
    /\ txProfile[tx] = None => claims[tx] = None

\* A request knows its transaction once it has one, and a response has a nonce
\* and claims.
Sound(r) ==
    /\ r.pc = "create" => r.profile \in Profiles
    /\ r.pc \in {"setNonce", "sendInitiated", "publish", "verify", "store",
                 "sendSucceeded"} => r.tx \in TxIDs
    /\ r.pc \in {"getNonce", "publish", "sendInitiated"} => r.nonce \in Nonces
    /\ r.pc \in {"getNonce", "verify", "store"} => r.claims \in Claims

SoundRequests == \A p \in Procs : Sound(req[p])

\* Only published request objects are fetched.
FetchedGood == \A tx \in fetched : objects[tx] # None

\* What was retrieved is what is stored.
RetrievedGood ==
    \A r \in retrieved : /\ txProfile[r[2]] # None
                         /\ claims[r[2]] = r[3]
                         /\ OrgOf[txProfile[r[2]]] = r[1]

Tokens == \A tx \in TxIDs : OneToken(tx)

VPInv == TypeOK /\ SoundRequests /\ FetchedGood /\ Tokens /\ RetrievedGood

-----------------------------------------------------------------------------
\* A request that is under way is a well-typed record.
LEMMA ReqType ==
    ASSUME TypeOK, NEW p \in Procs, req[p].pc # "idle"
    PROVE  req[p] \in Request
BY DEF TypeOK, Idle, Initiating

\* An idle process holds nothing.
LEMMA IdleFacts == Idle.pc = "idle" /\ Sound(Idle) /\ \A tx : ~Holding(Idle, tx)
BY DEF Idle, Initiating, Sound, Holding

\* The records the actions build.
LEMMA InitiatingType ==
    ASSUME NEW pc \in InitiatePC, NEW pr \in Profiles \cup {None}, NEW tx \in 0..MaxTx,
           NEW n \in Nonces \cup {None}
    PROVE  /\ Initiating(pc, pr, tx, n, 0) \in Request
           /\ Initiating(pc, pr, tx, n, 0).pc = pc
           /\ Initiating(pc, pr, tx, n, 0).profile = pr
           /\ Initiating(pc, pr, tx, n, 0).tx = tx
           /\ Initiating(pc, pr, tx, n, 0).nonce = n
<1>1. 0 \in 0..(MaxRetries - 1) /\ 0 \in 0..MaxTx
  BY VPAssumption
<1> QED BY <1>1 DEF Initiating, Request, Verdict

\* The record of a response.
LEMMA RespondingType ==
    ASSUME NEW n \in Nonces \cup {None}, NEW st \in TxIDs, NEW vn \in Nonces \cup {None},
           NEW c \in Claims, NEW v \in Verdict
    PROVE  /\ Responding("getNonce", 0, n, st, vn, c, v) \in Request
           /\ Responding("getNonce", 0, n, st, vn, c, v).pc = "getNonce"
           /\ Responding("getNonce", 0, n, st, vn, c, v).nonce = n
           /\ Responding("getNonce", 0, n, st, vn, c, v).claims = c
<1>1. 0 \in 0..(MaxRetries - 1) /\ 0 \in 0..MaxTx /\ st \in 0..MaxTx
  BY VPAssumption DEF TxIDs
<1> QED BY <1>1 DEF Responding, Request, ResponsePC

\* A request moves on, keeping its other locals.
Keeps(r, s) == r.profile = s.profile /\ r.nonce = s.nonce /\ r.claims = s.claims

\* Only the next call changes.
LEMMA MovesPC ==
    ASSUME TypeOK, NEW p \in Procs, req[p] \in Request,
           NEW x \in InitiatePC \cup ResponsePC,
           req' = [req EXCEPT ![p].pc = x]
    PROVE  \E r \in Request : /\ req' = [req EXCEPT ![p] = r]
                              /\ r.pc = x /\ r.tx = req[p].tx /\ Keeps(r, req[p])
<1> DEFINE r == [req[p] EXCEPT !.pc = x]
<1>1. r \in Request /\ r.pc = x /\ r.tx = req[p].tx /\ Keeps(r, req[p])
  BY DEF Request, Keeps
<1>2. req' = [req EXCEPT ![p] = r]
  BY DEF TypeOK
<1> QED BY <1>1, <1>2

\* Only the number of attempts changes.
LEMMA MovesTries ==
    ASSUME TypeOK, NEW p \in Procs, req[p] \in Request, req[p].tries + 1 < MaxRetries,
           req' = [req EXCEPT ![p].tries = @ + 1]
    PROVE  \E r \in Request : /\ req' = [req EXCEPT ![p] = r]
                              /\ r.pc = req[p].pc /\ r.tx = req[p].tx /\ Keeps(r, req[p])
<1> DEFINE k == req[p].tries + 1
           r == [req[p] EXCEPT !.tries = k]
<1>1. k \in 0..(MaxRetries - 1)
  BY VPAssumption DEF Request
<1> HIDE DEF k
<1>2. r \in Request /\ r.pc = req[p].pc /\ r.tx = req[p].tx /\ Keeps(r, req[p])
  BY <1>1 DEF Request, Keeps
<1>3. req' = [req EXCEPT ![p] = r]
  BY DEF TypeOK, k
<1> QED BY <1>2, <1>3

\* Every action leaves the requests typed and sound if what it makes of its own
\* request is.
LEMMA OneRequestChanges ==
    ASSUME TypeOK, SoundRequests, NEW p \in Procs, NEW r \in Request \cup {Idle},
           Sound(r), req' = [req EXCEPT ![p] = r]
    PROVE  /\ req' \in [Procs -> Request \cup {Idle}]
           /\ SoundRequests'
           /\ \A q \in Procs : \A tx : Holds(q, tx)' => (q = p /\ Holding(r, tx)) \/ Holds(q, tx)
           /\ \A tx : Holds(p, tx)' <=> Holding(r, tx)
           /\ \A q \in Procs \ {p} : \A tx : Holds(q, tx)' <=> Holds(q, tx)
<1>1. req \in [Procs -> Request \cup {Idle}]
  BY DEF TypeOK
<1>2. req' \in [Procs -> Request \cup {Idle}] /\ req'[p] = r
      /\ \A q \in Procs \ {p} : req'[q] = req[q]
  BY <1>1
<1>3. SoundRequests'
  <2>1. SUFFICES ASSUME NEW q \in Procs PROVE Sound(req'[q])
    BY DEF SoundRequests, Sound
  <2> QED BY <1>2, <2>1 DEF SoundRequests
<1>4. \A q \in Procs : \A tx : Holds(q, tx)' <=> Holding(req'[q], tx)
  BY DEF Holds, Holding
<1> QED BY <1>2, <1>3, <1>4 DEF Holds

\* A step after which nobody holds more than before keeps the tokens.
LEMMA TokensKept ==
    ASSUME Tokens, UNCHANGED <<claims, txProfile>>,
           \A q \in Procs, tx \in TxIDs : Holds(q, tx)' => Holds(q, tx),
           \A n \in Nonces, tx \in TxIDs : Bound(n, tx)' => Bound(n, tx)
    PROVE  Tokens'
BY DEF Tokens, OneToken

\* The nonce collection is not touched.
LEMMA BoundKept ==
    ASSUME UNCHANGED nonces
    PROVE  \A n \in Nonces, tx \in TxIDs : Bound(n, tx)' <=> Bound(n, tx)
BY DEF Bound

\* Every request may end at any time.
LEMMA FinishKeeps ==
    ASSUME VPInv, NEW p \in Procs, Finish(p)
    PROVE  /\ req' \in [Procs -> Request \cup {Idle}]
           /\ SoundRequests'
           /\ \A q \in Procs : \A tx : Holds(q, tx)' => Holds(q, tx)
<1>1. req' = [req EXCEPT ![p] = Idle]
  BY DEF Finish, Become
<1> QED BY <1>1, IdleFacts, OneRequestChanges DEF VPInv

-----------------------------------------------------------------------------
\* The invariant holds of empty stores.
LEMMA VPInvInit == Init => VPInv
<1> SUFFICES ASSUME Init PROVE VPInv
  OBVIOUS
<1>1. TypeOK
  BY VPAssumption DEF Init, TypeOK
<1>2. \A p \in Procs : req[p] = Idle
  BY DEF Init
<1>3. SoundRequests
  BY <1>2, IdleFacts DEF SoundRequests
<1>4. Tokens
  BY <1>2, IdleFacts DEF Init, Tokens, OneToken, Holds, Bound
<1>5. FetchedGood /\ RetrievedGood
  BY DEF Init, FetchedGood, RetrievedGood
<1> QED BY <1>1, <1>3, <1>4, <1>5 DEF VPInv

\* A new request holds nothing yet.
LEMMA InitiateStep ==
    ASSUME VPInv, NEW p \in Procs, InitiateOidcInteraction(p)
    PROVE  VPInv'
<1> USE DEF VPInv
<1>1. PICK pr \in Ready : req' = [req EXCEPT ![p] = Initiating("create", pr, 0, None, 0)]
  BY DEF InitiateOidcInteraction, Become
<1>2. UNCHANGED <<storeVars, histVars>>
  BY DEF InitiateOidcInteraction
<1> DEFINE r == Initiating("create", pr, 0, None, 0)
<1>3. r \in Request /\ Sound(r) /\ \A tx : ~Holding(r, tx)
  <2>1. pr \in Profiles /\ 0 \in 0..MaxTx
    BY VPAssumption
  <2>2. r \in Request /\ r.pc = "create" /\ r.profile = pr
    BY <2>1, InitiatingType DEF InitiatePC
  <2> QED BY <2>1, <2>2 DEF Sound, Holding
<1> HIDE DEF r
<1>4. /\ req' \in [Procs -> Request \cup {Idle}] /\ SoundRequests'
      /\ \A q \in Procs : \A tx : Holds(q, tx)' => Holds(q, tx)
  BY <1>1, <1>3, OneRequestChanges DEF r
<1>5. TypeOK'
  BY <1>2, <1>4 DEF TypeOK, storeVars, histVars
<1>6. FetchedGood' /\ RetrievedGood'
  BY <1>2 DEF FetchedGood, RetrievedGood, storeVars, histVars
<1>7. Tokens'
  BY <1>2, <1>4, TokensKept, BoundKept DEF storeVars
<1> QED BY <1>4, <1>5, <1>6, <1>7

\* The request that created a transaction holds its token.
LEMMA CreateTxStep ==
    ASSUME VPInv, NEW p \in Procs, CreateTx(p)
    PROVE  VPInv'
<1> USE DEF VPInv
<1>1. req[p] \in Request /\ req[p].profile \in Profiles
  BY ReqType DEF CreateTx, SoundRequests, Sound
<1>2. PICK t \in TxIDs :
         /\ txProfile[t] = None
         /\ txProfile' = [txProfile EXCEPT ![t] = req[p].profile]
         /\ req' = [req EXCEPT ![p] = Initiating("setNonce", req[p].profile, t, None, 0)]
  BY DEF CreateTx, Become
<1>3. UNCHANGED <<claims, nonces, objects, now, events, histVars>>
  BY DEF CreateTx
<1> DEFINE r == Initiating("setNonce", req[p].profile, t, None, 0)
<1>4. r \in Request /\ Sound(r) /\ \A tx : Holding(r, tx) => tx = t
  <2>1. t \in 0..MaxTx
    BY VPAssumption DEF TxIDs
  <2>2. r \in Request /\ r.pc = "setNonce" /\ r.tx = t
    BY <1>1, <2>1, InitiatingType DEF InitiatePC
  <2> QED BY <2>2 DEF Sound, Holding
<1> HIDE DEF r
<1>5. /\ req' \in [Procs -> Request \cup {Idle}] /\ SoundRequests'
      /\ \A q \in Procs : \A tx : Holds(q, tx)' => (q = p /\ tx = t) \/ Holds(q, tx)
  BY <1>2, <1>4, OneRequestChanges DEF r
<1>6. TypeOK'
  <2>1. txProfile' \in [TxIDs -> Profiles \cup {None}]
    BY <1>1, <1>2 DEF TypeOK
  <2> QED BY <1>3, <1>5, <2>1 DEF TypeOK, histVars
<1>7. FetchedGood'
  BY <1>3 DEF FetchedGood, histVars
<1>8. RetrievedGood'
  <2>1. \A x \in retrieved : x[2] # t
    BY <1>2 DEF RetrievedGood
  <2>2. retrieved \subseteq Orgs \X TxIDs \X Claims
    BY DEF TypeOK
  <2>3. \A x \in retrieved : txProfile'[x[2]] = txProfile[x[2]]
    BY <1>2, <2>1, <2>2 DEF TypeOK
  <2> QED BY <1>3, <2>3 DEF RetrievedGood, histVars
<1>9. Tokens'
  <2>1. SUFFICES ASSUME NEW tx \in TxIDs PROVE OneToken(tx)'
    BY DEF Tokens
  <2>2. \A n \in Nonces : Bound(n, tx)' <=> Bound(n, tx)
    BY <1>3, <2>1, BoundKept
  <2>3. OneToken(tx)
    BY <2>1 DEF Tokens
  <2>4. CASE tx # t
    <3>1. \A q \in Procs : Holds(q, tx)' => Holds(q, tx)
      BY <1>5, <2>4
    <3>2. txProfile'[tx] = txProfile[tx] /\ claims'[tx] = claims[tx]
      BY <1>2, <1>3, <2>1, <2>4 DEF TypeOK
    <3> QED BY <2>2, <2>3, <3>1, <3>2 DEF OneToken
  <2>5. CASE tx = t
    <3>1. /\ claims[tx] = None
          /\ \A q \in Procs : ~Holds(q, tx)
          /\ \A n \in Nonces : ~Bound(n, tx)
      BY <1>2, <2>3, <2>5 DEF OneToken
    <3>2. \A q \in Procs : Holds(q, tx)' => q = p
      BY <1>5, <3>1
    <3>3. claims'[tx] = None /\ txProfile'[tx] # None
      BY <1>1, <1>2, <1>3, <2>1, <2>5, <3>1, VPNoneAssumption DEF TypeOK
    <3> QED BY <2>2, <3>1, <3>2, <3>3 DEF OneToken
  <2> QED BY <2>4, <2>5
<1> QED BY <1>5, <1>6, <1>7, <1>8, <1>9

\* The token goes from the request to the nonce document, or is dropped.
LEMMA SetNonceStep ==
    ASSUME VPInv, NEW p \in Procs, SetNonce(p)
    PROVE  VPInv'
<1> USE DEF VPInv
<1>1. /\ req[p] \in Request /\ req[p].tx \in TxIDs /\ req[p].pc = "setNonce"
      /\ Holds(p, req[p].tx)
  BY ReqType DEF SetNonce, SoundRequests, Sound, Holds, Holding
<1>2. UNCHANGED <<txProfile, claims, objects, now, events, fetched, fetches, consumed,
                  origin, retrieved>>
  BY DEF SetNonce
<1>3. FetchedGood' /\ RetrievedGood'
  BY <1>2 DEF FetchedGood, RetrievedGood
<1>4. ASSUME NEW n \in Nonces, nonces[n] = None, BindNonce(p, n)
      PROVE  VPInv'
  <2> DEFINE t == req[p].tx
             r == Initiating("sendInitiated", req[p].profile, t, n, 0)
             doc == [tx |-> t, expireAt |-> now + LifeTime]
  <2>1. /\ nonces' = [nonces EXCEPT ![n] = doc]
        /\ expiry' = [expiry EXCEPT ![t] = now + LifeTime]
        /\ req' = [req EXCEPT ![p] = r]
    BY <1>4 DEF BindNonce, Become
  <2>2. r \in Request /\ Sound(r) /\ \A tx : ~Holding(r, tx)
    <3>1. t \in 0..MaxTx /\ req[p].profile \in Profiles \cup {None}
      BY <1>1, VPAssumption DEF TxIDs, Request
    <3>2. r \in Request /\ r.pc = "sendInitiated" /\ r.tx = t /\ r.nonce = n
      BY <1>4, <3>1, InitiatingType DEF InitiatePC
    <3> QED BY <1>1, <1>4, <3>2 DEF Sound, Holding
  <2>3. doc \in [tx : TxIDs, expireAt : Nat] /\ doc.tx = t /\ now + LifeTime \in Nat
    BY <1>1, VPAssumption DEF TypeOK
  <2> HIDE DEF r, doc
  <2>4. /\ req' \in [Procs -> Request \cup {Idle}] /\ SoundRequests'
        /\ \A q \in Procs : \A tx : Holds(q, tx)' => Holds(q, tx)
        /\ \A tx : ~Holds(p, tx)'
    BY <2>1, <2>2, OneRequestChanges
  <2>5. nonces' \in [Nonces -> [tx : TxIDs, expireAt : Nat] \cup {None}]
        /\ nonces'[n] = doc /\ \A m \in Nonces \ {n} : nonces'[m] = nonces[m]
    BY <1>4, <2>1, <2>3 DEF TypeOK
  <2>6. expiry' \in [TxIDs -> Nat]
    BY <2>1, <2>3 DEF TypeOK
  <2>7. TypeOK'
    BY <1>2, <2>4, <2>5, <2>6 DEF TypeOK
  <2>8. Tokens'
    <3>1. SUFFICES ASSUME NEW tx \in TxIDs PROVE OneToken(tx)'
      BY DEF Tokens
    <3>2. OneToken(tx) /\ claims'[tx] = claims[tx] /\ txProfile'[tx] = txProfile[tx]
      BY <1>2, <3>1 DEF Tokens
    <3>3. \A m \in Nonces : Bound(m, tx)' => (m = n /\ tx = t) \/ Bound(m, tx)
      BY <2>3, <2>5 DEF Bound
    <3>4. CASE tx # t
      <4>1. \A m \in Nonces : Bound(m, tx)' => Bound(m, tx)
        BY <3>3, <3>4
      <4> QED BY <2>4, <3>2, <4>1 DEF OneToken
    <3>5. CASE tx = t
      <4>1. /\ claims[tx] = None /\ txProfile[tx] # None
            /\ \A q \in Procs : Holds(q, tx) => q = p
            /\ \A m \in Nonces : ~Bound(m, tx)
        BY <1>1, <3>2, <3>5 DEF OneToken
      <4>2. /\ \A q \in Procs : ~Holds(q, tx)'
            /\ \A m \in Nonces : Bound(m, tx)' => m = n
        BY <2>4, <3>3, <4>1
      <4> QED BY <3>2, <4>1, <4>2 DEF OneToken
    <3> QED BY <3>4, <3>5
  <2> QED BY <1>3, <2>4, <2>7, <2>8
<1>5. ASSUME UNCHANGED <<nonces, expiry>>,
             req' \in [Procs -> Request \cup {Idle}], SoundRequests',
             \A q \in Procs : \A tx : Holds(q, tx)' => Holds(q, tx)
      PROVE  VPInv'
  <2>1. TypeOK'
    BY <1>2, <1>5 DEF TypeOK
  <2>2. Tokens'
    BY <1>2, <1>5, TokensKept, BoundKept
  <2> QED BY <1>3, <1>5, <2>1, <2>2
<1>6. ASSUME req[p].tries + 1 < MaxRetries, req' = [req EXCEPT ![p].tries = @ + 1],
             UNCHANGED <<nonces, expiry>>
      PROVE  VPInv'
  <2>1. PICK r \in Request : /\ req' = [req EXCEPT ![p] = r]
                             /\ r.pc = req[p].pc /\ r.tx = req[p].tx /\ Keeps(r, req[p])
    BY <1>1, <1>6, MovesTries
  <2>2. Sound(r) /\ \A tx : Holding(r, tx) => Holds(p, tx)
    BY <1>1, <2>1 DEF Sound, Holds, Holding
  <2>3. /\ req' \in [Procs -> Request \cup {Idle}] /\ SoundRequests'
        /\ \A q \in Procs : \A tx : Holds(q, tx)' => Holds(q, tx)
    BY <2>1, <2>2, OneRequestChanges
  <2> QED BY <1>5, <1>6, <2>3
<1>7. ASSUME Finish(p), UNCHANGED <<nonces, expiry>>
      PROVE  VPInv'
  BY <1>5, <1>7, FinishKeeps
<1> QED BY <1>4, <1>6, <1>7 DEF SetNonce

\* The first event leaves the tokens alone.
LEMMA SendInitiatedStep ==
    ASSUME VPInv, NEW p \in Procs, SendInitiated(p)
    PROVE  VPInv'
<1> USE DEF VPInv
<1>1. /\ req[p] \in Request /\ req[p].tx \in TxIDs /\ req[p].nonce \in Nonces
      /\ req' = [req EXCEPT ![p].pc = "publish"]
  BY ReqType DEF SendInitiated, SoundRequests, Sound
<1>2. /\ UNCHANGED <<txProfile, claims, nonces, objects, now, histVars>>
      /\ events' = Append(events, [type |-> "initiated", tx |-> req[p].tx])
  BY DEF SendInitiated, Publish
<1>3. PICK r \in Request : /\ req' = [req EXCEPT ![p] = r]
                           /\ r.pc = "publish" /\ r.tx = req[p].tx /\ Keeps(r, req[p])
  BY <1>1, MovesPC DEF InitiatePC
<1>4. Sound(r) /\ \A tx : ~Holding(r, tx)
  BY <1>1, <1>3 DEF Sound, Holding, Keeps
<1>5. /\ req' \in [Procs -> Request \cup {Idle}] /\ SoundRequests'
      /\ \A q \in Procs : \A tx : Holds(q, tx)' => Holds(q, tx)
  BY <1>3, <1>4, OneRequestChanges
<1>6. events' \in Seq(Event)
  BY <1>1, <1>2 DEF TypeOK, Event, EventType
<1>7. TypeOK'
  BY <1>2, <1>5, <1>6 DEF TypeOK, histVars
<1>8. FetchedGood' /\ RetrievedGood'
  BY <1>2 DEF FetchedGood, RetrievedGood, histVars
<1>9. Tokens'
  BY <1>2, <1>5, TokensKept, BoundKept
<1> QED BY <1>5, <1>7, <1>8, <1>9

\* The request object leaves the tokens alone.
LEMMA PublishObjectStep ==
    ASSUME VPInv, NEW p \in Procs, PublishObject(p)
    PROVE  VPInv'
<1> USE DEF VPInv
<1>1. /\ req[p] \in Request /\ req[p].tx \in TxIDs /\ req[p].nonce \in Nonces
      /\ objects' = [objects EXCEPT ![req[p].tx] = req[p].nonce]
  BY ReqType DEF PublishObject, SoundRequests, Sound
<1>2. UNCHANGED <<txProfile, claims, nonces, now, events, histVars>>
  BY DEF PublishObject
<1>3. /\ req' \in [Procs -> Request \cup {Idle}] /\ SoundRequests'
      /\ \A q \in Procs : \A tx : Holds(q, tx)' => Holds(q, tx)
  BY FinishKeeps DEF PublishObject
<1>4. objects' \in [TxIDs -> Nonces \cup {None}]
  BY <1>1 DEF TypeOK
<1>5. TypeOK'
  BY <1>2, <1>3, <1>4 DEF TypeOK, histVars
<1>6. FetchedGood'
  BY <1>1, <1>2, VPNoneAssumption DEF FetchedGood, TypeOK, histVars
<1>7. RetrievedGood'
  BY <1>2 DEF RetrievedGood, histVars
<1>8. Tokens'
  BY <1>2, <1>3, TokensKept, BoundKept
<1> QED BY <1>3, <1>5, <1>6, <1>7, <1>8

\* A read of the request object leaves the tokens alone.
LEMMA RequestObjectStep ==
    ASSUME VPInv, NEW t \in TxIDs, RequestObjectByUuid(t)
    PROVE  VPInv'
<1> USE DEF VPInv
<1>1. /\ objects[t] # None /\ fetches < MaxFetch
      /\ events' = Append(events, [type |-> "qrScanned", tx |-> t])
      /\ fetched' = fetched \cup {t} /\ fetches' = fetches + 1
      /\ UNCHANGED <<txProfile, claims, nonces, objects, now, req, expiry, consumed, origin,
                     retrieved>>
  BY DEF RequestObjectByUuid, Publish
<1>2. events' \in Seq(Event)
  BY <1>1 DEF TypeOK, Event, EventType
<1>3. fetches' \in 0..MaxFetch
  BY <1>1, VPAssumption DEF TypeOK
<1>4. TypeOK'
  BY <1>1, <1>2, <1>3 DEF TypeOK
<1>5. SoundRequests' /\ FetchedGood' /\ RetrievedGood'
  BY <1>1 DEF SoundRequests, Sound, FetchedGood, RetrievedGood
<1>6. Tokens'
  BY <1>1 DEF Tokens, OneToken, Holds, Holding, Bound
<1> QED BY <1>4, <1>5, <1>6

\* A response holds nothing before its nonce is exchanged.
LEMMA ResponseStep ==
    ASSUME VPInv, NEW p \in Procs, CheckAuthorizationResponse(p)
    PROVE  VPInv'
<1> USE DEF VPInv
<1>1. PICK i, v, st \in fetched : Respond(p, i, v, st)
  BY DEF CheckAuthorizationResponse
<1>2. PICK c \in Claims, d \in Verdict :
         req' = [req EXCEPT ![p] = Responding("getNonce", 0, objects[i], st, objects[v], c, d)]
  BY <1>1 DEF Respond, Become
<1>3. UNCHANGED <<storeVars, histVars>>
  BY <1>1 DEF Respond
<1> DEFINE r == Responding("getNonce", 0, objects[i], st, objects[v], c, d)
<1>4. r \in Request /\ Sound(r) /\ \A tx : ~Holding(r, tx)
  <2>1. st \in TxIDs /\ objects[i] \in Nonces /\ objects[v] \in Nonces
    BY <1>1 DEF FetchedGood, TypeOK
  <2>2. r \in Request /\ r.pc = "getNonce" /\ r.nonce = objects[i] /\ r.claims = c
    BY <2>1, <1>2, RespondingType
  <2> QED BY <1>2, <2>1, <2>2 DEF Sound, Holding
<1> HIDE DEF r
<1>5. /\ req' \in [Procs -> Request \cup {Idle}] /\ SoundRequests'
      /\ \A q \in Procs : \A tx : Holds(q, tx)' => Holds(q, tx)
  BY <1>2, <1>4, OneRequestChanges DEF r
<1>6. TypeOK'
  BY <1>3, <1>5 DEF TypeOK, storeVars, histVars
<1>7. FetchedGood' /\ RetrievedGood'
  BY <1>3 DEF FetchedGood, RetrievedGood, storeVars, histVars
<1>8. Tokens'
  BY <1>3, <1>5, TokensKept, BoundKept DEF storeVars
<1> QED BY <1>5, <1>6, <1>7, <1>8

\* The token goes from the nonce document to the one response that deleted it.
LEMMA GetNonceStep ==
    ASSUME VPInv, NEW p \in Procs, GetNonce(p)
    PROVE  VPInv'
<1> USE DEF VPInv
<1> DEFINE n == req[p].nonce
           doc == nonces[n]
<1>1. /\ req[p] \in Request /\ n \in Nonces /\ req[p].claims \in Claims
      /\ \A tx : ~Holds(p, tx)
  BY ReqType DEF GetNonce, SoundRequests, Sound, Holds, Holding
<1>2. /\ UNCHANGED <<txProfile, claims, objects, now, events, fetched, fetches, expiry,
                     origin, retrieved>>
      /\ nonces' = [nonces EXCEPT ![n] = None]
  BY DEF GetNonce
<1>3. FetchedGood' /\ RetrievedGood'
  BY <1>2 DEF FetchedGood, RetrievedGood
<1>4. /\ nonces' \in [Nonces -> [tx : TxIDs, expireAt : Nat] \cup {None}]
      /\ nonces'[n] = None /\ \A m \in Nonces \ {n} : nonces'[m] = nonces[m]
  BY <1>1, <1>2 DEF TypeOK
<1>5. \A m \in Nonces, tx \in TxIDs : Bound(m, tx)' => Bound(m, tx) /\ m # n
  BY <1>4 DEF Bound
<1>6. ASSUME Finish(p), UNCHANGED consumed
      PROVE  VPInv'
  <2>1. /\ req' \in [Procs -> Request \cup {Idle}] /\ SoundRequests'
        /\ \A q \in Procs : \A tx : Holds(q, tx)' => Holds(q, tx)
    BY <1>6, FinishKeeps
  <2>2. TypeOK'
    BY <1>2, <1>4, <1>6, <2>1 DEF TypeOK
  <2>3. Tokens'
    BY <1>2, <1>5, <2>1, TokensKept
  <2> QED BY <1>3, <2>1, <2>2, <2>3
<1>7. ASSUME doc # None, consumed' = consumed \cup {doc.tx},
             req' = [req EXCEPT ![p].pc = "verify", ![p].tx = doc.tx]
      PROVE  VPInv'
  <2>1. doc.tx \in TxIDs /\ doc.tx \in 0..MaxTx /\ Bound(n, doc.tx)
    <3>1. doc \in [tx : TxIDs, expireAt : Nat]
      BY <1>1, <1>7 DEF TypeOK
    <3> QED BY <1>7, <3>1, VPAssumption DEF TxIDs, Bound
  <2>2. PICK r \in Request : /\ req' = [req EXCEPT ![p] = r]
                             /\ r.pc = "verify" /\ r.tx = doc.tx /\ Keeps(r, req[p])
    <3> DEFINE x == "verify"
               s == [req[p] EXCEPT !.pc = x, !.tx = doc.tx]
    <3>1. req' = [req EXCEPT ![p] = s]
      BY <1>7 DEF TypeOK
    <3>2. s \in Request /\ s.pc = x /\ s.tx = doc.tx /\ Keeps(s, req[p])
      BY <1>1, <2>1 DEF Request, ResponsePC, Keeps
    <3> QED BY <3>1, <3>2
  <2>3. Sound(r) /\ \A tx : Holding(r, tx) => tx = doc.tx
    BY <1>1, <2>1, <2>2 DEF Sound, Holding, Keeps
  <2>4. /\ req' \in [Procs -> Request \cup {Idle}] /\ SoundRequests'
        /\ \A q \in Procs : \A tx : Holds(q, tx)' => (q = p /\ tx = doc.tx) \/ Holds(q, tx)
    BY <2>2, <2>3, OneRequestChanges
  <2>5. TypeOK'
    BY <1>2, <1>4, <1>7, <2>1, <2>4 DEF TypeOK
  <2>6. Tokens'
    <3>1. SUFFICES ASSUME NEW tx \in TxIDs PROVE OneToken(tx)'
      BY DEF Tokens
    <3>2. OneToken(tx) /\ claims'[tx] = claims[tx] /\ txProfile'[tx] = txProfile[tx]
      BY <1>2, <3>1 DEF Tokens
    <3>3. CASE tx # doc.tx
      <4>1. \A q \in Procs : Holds(q, tx)' => Holds(q, tx)
        BY <2>4, <3>3
      <4> QED BY <1>5, <3>1, <3>2, <4>1 DEF OneToken
    <3>4. CASE tx = doc.tx
      <4>1. /\ \A q \in Procs : ~Holds(q, tx)
            /\ \A m \in Nonces : Bound(m, tx) => m = n
            /\ claims[tx] = None /\ txProfile[tx] # None
        BY <1>1, <2>1, <3>2, <3>4 DEF OneToken
      <4>2. /\ \A q \in Procs : Holds(q, tx)' => q = p
            /\ \A m \in Nonces : ~Bound(m, tx)'
        BY <1>5, <2>4, <3>1, <4>1
      <4> QED BY <3>2, <4>1, <4>2 DEF OneToken
    <3> QED BY <3>3, <3>4
  <2> QED BY <1>3, <2>4, <2>5, <2>6
<1> QED BY <1>6, <1>7 DEF GetNonce

\* The response keeps its token or drops it.
LEMMA VerifyStep ==
    ASSUME VPInv, NEW p \in Procs, VerifyPresentation(p)
    PROVE  VPInv'
<1> USE DEF VPInv
<1>1. /\ req[p] \in Request /\ req[p].tx \in TxIDs /\ req[p].claims \in Claims
      /\ Holds(p, req[p].tx)
  BY ReqType DEF VerifyPresentation, SoundRequests, Sound, Holds, Holding
<1>2. UNCHANGED <<storeVars, histVars>>
  BY DEF VerifyPresentation
<1>3. /\ req' \in [Procs -> Request \cup {Idle}] /\ SoundRequests'
      /\ \A q \in Procs : \A tx : Holds(q, tx)' => Holds(q, tx)
  <2>1. CASE Finish(p)
    BY <2>1, FinishKeeps
  <2>2. CASE req' = [req EXCEPT ![p].pc = "store"]
    <3>1. PICK r \in Request : /\ req' = [req EXCEPT ![p] = r]
                               /\ r.pc = "store" /\ r.tx = req[p].tx /\ Keeps(r, req[p])
      BY <1>1, <2>2, MovesPC DEF ResponsePC
    <3>2. Sound(r) /\ \A tx : Holding(r, tx) => Holds(p, tx)
      BY <1>1, <3>1 DEF Sound, Holding, Keeps
    <3> QED BY <3>1, <3>2, OneRequestChanges
  <2> QED BY <2>1, <2>2 DEF VerifyPresentation
<1>4. TypeOK'
  BY <1>2, <1>3 DEF TypeOK, storeVars, histVars
<1>5. FetchedGood' /\ RetrievedGood'
  BY <1>2 DEF FetchedGood, RetrievedGood, storeVars, histVars
<1>6. Tokens'
  BY <1>2, <1>3, TokensKept, BoundKept DEF storeVars
<1> QED BY <1>3, <1>4, <1>5, <1>6

\* The one action that changes claims: the request that stores holds the
\* transaction's token, so no claims are there yet.
LEMMA StoreFacts ==
    ASSUME VPInv, NEW p \in Procs, StoreReceivedClaims(p)
    PROVE  /\ req[p] \in Request /\ req[p].tx \in TxIDs /\ req[p].claims \in Claims
           /\ Holds(p, req[p].tx)
           /\ claims[req[p].tx] = None /\ txProfile[req[p].tx] # None
           /\ claims' = [claims EXCEPT ![req[p].tx] = req[p].claims]
<1> USE DEF VPInv
<1>1. /\ req[p] \in Request /\ req[p].tx \in TxIDs /\ req[p].claims \in Claims
      /\ Holds(p, req[p].tx)
  BY ReqType DEF StoreReceivedClaims, SoundRequests, Sound, Holds, Holding
<1>2. claims[req[p].tx] = None /\ txProfile[req[p].tx] # None
  BY <1>1 DEF Tokens, OneToken
<1> QED BY <1>1, <1>2 DEF StoreReceivedClaims

\* The token is given up for the claims.
LEMMA StoreStep ==
    ASSUME VPInv, NEW p \in Procs, StoreReceivedClaims(p)
    PROVE  VPInv'
<1> USE DEF VPInv
<1> DEFINE t == req[p].tx
<1>1. /\ req[p] \in Request /\ t \in TxIDs /\ req[p].claims \in Claims /\ Holds(p, t)
      /\ claims[t] = None /\ txProfile[t] # None
      /\ claims' = [claims EXCEPT ![t] = req[p].claims]
  BY StoreFacts
<1>2. /\ UNCHANGED <<txProfile, nonces, objects, now, events, fetched, fetches, expiry,
                     consumed, retrieved>>
      /\ origin' = [origin EXCEPT ![t] = req[p].vpNonce]
      /\ req' = [req EXCEPT ![p].pc = "sendSucceeded"]
  BY DEF StoreReceivedClaims
<1>3. PICK r \in Request : /\ req' = [req EXCEPT ![p] = r]
                           /\ r.pc = "sendSucceeded" /\ r.tx = t /\ Keeps(r, req[p])
  BY <1>1, <1>2, MovesPC DEF ResponsePC
<1>4. Sound(r) /\ \A tx : ~Holding(r, tx)
  BY <1>1, <1>3 DEF Sound, Holding
<1>5. /\ req' \in [Procs -> Request \cup {Idle}] /\ SoundRequests'
      /\ \A q \in Procs : \A tx : Holds(q, tx)' => Holds(q, tx)
      /\ \A tx : ~Holds(p, tx)'
  BY <1>3, <1>4, OneRequestChanges
<1>6. claims' \in [TxIDs -> Claims \cup {None}]
  BY <1>1 DEF TypeOK
<1>7. origin' \in [TxIDs -> Nonces \cup {None}]
  BY <1>1, <1>2 DEF TypeOK, Request
<1>8. TypeOK'
  BY <1>2, <1>5, <1>6, <1>7 DEF TypeOK
<1>9. FetchedGood'
  BY <1>2 DEF FetchedGood
<1>10. RetrievedGood'
  <2>1. \A x \in retrieved : x[2] \in TxIDs /\ x[3] \in Claims /\ claims[x[2]] = x[3]
    BY DEF RetrievedGood, TypeOK
  <2>2. \A x \in retrieved : claims[x[2]] # None
    BY <2>1, VPNoneAssumption
  <2>3. \A x \in retrieved : claims'[x[2]] = claims[x[2]]
    BY <1>1, <2>1, <2>2 DEF TypeOK
  <2> QED BY <1>2, <2>3 DEF RetrievedGood
<1>11. Tokens'
  <2>1. SUFFICES ASSUME NEW tx \in TxIDs PROVE OneToken(tx)'
    BY DEF Tokens
  <2>2. \A n \in Nonces : Bound(n, tx)' <=> Bound(n, tx)
    BY <1>2, <2>1, BoundKept
  <2>3. OneToken(tx) /\ txProfile'[tx] = txProfile[tx]
    BY <1>2, <2>1 DEF Tokens
  <2>4. CASE tx # t
    <3>1. claims'[tx] = claims[tx]
      BY <1>1, <2>1, <2>4 DEF TypeOK
    <3> QED BY <1>5, <2>2, <2>3, <3>1 DEF OneToken
  <2>5. CASE tx = t
    <3>1. /\ \A q \in Procs : Holds(q, tx) => q = p
          /\ \A n \in Nonces : ~Bound(n, tx)
      BY <1>1, <2>3, <2>5 DEF OneToken
    <3>2. \A q \in Procs : ~Holds(q, tx)'
      BY <1>5, <3>1
    <3> QED BY <1>1, <2>2, <2>3, <2>5, <3>1, <3>2 DEF OneToken
  <2> QED BY <2>4, <2>5
<1> QED BY <1>5, <1>8, <1>9, <1>10, <1>11

\* The last event leaves the tokens alone.
LEMMA SendSucceededStep ==
    ASSUME VPInv, NEW p \in Procs, SendSucceeded(p)
    PROVE  VPInv'
<1> USE DEF VPInv
<1>1. req[p].tx \in TxIDs
  BY DEF SendSucceeded, SoundRequests, Sound
<1>2. /\ UNCHANGED <<txProfile, claims, nonces, objects, now, histVars>>
      /\ events' = Append(events, [type |-> "succeeded", tx |-> req[p].tx])
  BY DEF SendSucceeded, Publish
<1>3. /\ req' \in [Procs -> Request \cup {Idle}] /\ SoundRequests'
      /\ \A q \in Procs : \A tx : Holds(q, tx)' => Holds(q, tx)
  BY FinishKeeps DEF SendSucceeded
<1>4. events' \in Seq(Event)
  BY <1>1, <1>2 DEF TypeOK, Event, EventType
<1>5. TypeOK'
  BY <1>2, <1>3, <1>4 DEF TypeOK, histVars
<1>6. FetchedGood' /\ RetrievedGood'
  BY <1>2 DEF FetchedGood, RetrievedGood, histVars
<1>7. Tokens'
  BY <1>2, <1>3, TokensKept, BoundKept
<1> QED BY <1>3, <1>5, <1>6, <1>7

\* What is retrieved is what is stored.
LEMMA RetrieveStep ==
    ASSUME VPInv, NEW org \in Orgs, NEW t \in TxIDs, RetrieveInteractionsClaim(org, t)
    PROVE  VPInv'
<1> USE DEF VPInv
<1>1. /\ txProfile[t] # None /\ OrgOf[txProfile[t]] = org /\ claims[t] # None
      /\ retrieved' = retrieved \cup {<<org, t, claims[t]>>}
      /\ UNCHANGED <<storeVars, req, fetched, fetches, expiry, consumed, origin>>
  BY DEF RetrieveInteractionsClaim
<1>2. claims[t] \in Claims
  BY <1>1 DEF TypeOK
<1>3. TypeOK'
  BY <1>1, <1>2 DEF TypeOK, storeVars
<1>4. RetrievedGood'
  BY <1>1 DEF RetrievedGood, storeVars
<1>5. SoundRequests' /\ FetchedGood'
  BY <1>1 DEF SoundRequests, Sound, FetchedGood, storeVars
<1>6. Tokens'
  BY <1>1 DEF Tokens, OneToken, Holds, Holding, Bound, storeVars
<1> QED BY <1>3, <1>4, <1>5, <1>6

\* An expired nonce takes its token away.
LEMMA ExpireStep ==
    ASSUME VPInv, NEW n \in Nonces, ExpireNonce(n)
    PROVE  VPInv'
<1> USE DEF VPInv
<1>1. /\ nonces' = [nonces EXCEPT ![n] = None]
      /\ UNCHANGED <<txProfile, claims, objects, now, events, req, histVars>>
  BY DEF ExpireNonce
<1>2. nonces' \in [Nonces -> [tx : TxIDs, expireAt : Nat] \cup {None}]
  BY <1>1 DEF TypeOK
<1>3. TypeOK'
  BY <1>1, <1>2 DEF TypeOK, histVars
<1>4. SoundRequests' /\ FetchedGood' /\ RetrievedGood'
  BY <1>1 DEF SoundRequests, Sound, FetchedGood, RetrievedGood, histVars
<1>5. \A m \in Nonces, tx \in TxIDs : Bound(m, tx)' => Bound(m, tx)
  BY <1>1 DEF Bound, TypeOK
<1>6. \A q \in Procs, tx \in TxIDs : Holds(q, tx)' => Holds(q, tx)
  BY <1>1 DEF Holds, Holding
<1>7. Tokens'
  BY <1>1, <1>5, <1>6, TokensKept
<1> QED BY <1>3, <1>4, <1>7

\* The clock leaves everything else alone.
LEMMA TickStep ==
    ASSUME VPInv, Tick
    PROVE  VPInv'
<1> USE DEF VPInv
<1>1. now' \in Time
      /\ UNCHANGED <<txProfile, claims, nonces, objects, events, req, histVars>>
  BY DEF Tick
<1>2. TypeOK'
  BY <1>1 DEF TypeOK, histVars
<1>3. SoundRequests' /\ FetchedGood' /\ RetrievedGood'
  BY <1>1 DEF SoundRequests, Sound, FetchedGood, RetrievedGood, histVars
<1>4. Tokens'
  BY <1>1 DEF Tokens, OneToken, Holds, Holding, Bound
<1> QED BY <1>2, <1>3, <1>4

\* A request that ends early drops its token.
LEMMA FailStep ==
    ASSUME VPInv, NEW p \in Procs, Fail(p)
    PROVE  VPInv'
<1> USE DEF VPInv
<1>1. UNCHANGED <<storeVars, histVars>>
  BY DEF Fail
<1>2. /\ req' \in [Procs -> Request \cup {Idle}] /\ SoundRequests'
      /\ \A q \in Procs : \A tx : Holds(q, tx)' => Holds(q, tx)
  BY FinishKeeps DEF Fail
<1>3. TypeOK'
  BY <1>1, <1>2 DEF TypeOK, storeVars, histVars
<1>4. FetchedGood' /\ RetrievedGood'
  BY <1>1 DEF FetchedGood, RetrievedGood, storeVars, histVars
<1>5. Tokens'
  BY <1>1, <1>2, TokensKept, BoundKept DEF storeVars
<1> QED BY <1>2, <1>3, <1>4, <1>5

-----------------------------------------------------------------------------
\* The inductive invariant: the code's single-use nonce gives every transaction
\* one token at most.
THEOREM VPInvariance == Spec => []VPInv
<1>1. Init => VPInv
  BY VPInvInit
<1>2. VPInv /\ [Next]_vars => VPInv'
  <2> SUFFICES ASSUME VPInv, [Next]_vars PROVE VPInv'
    OBVIOUS
  <2>1. CASE UNCHANGED vars
    BY <2>1 DEF vars, storeVars, histVars, VPInv, TypeOK, SoundRequests, Sound, FetchedGood,
             RetrievedGood, Tokens, OneToken, Holds, Holding, Bound
  <2>2. ASSUME NEW p \in Procs,
               InitiateOidcInteraction(p) \/ CheckAuthorizationResponse(p) \/ Step(p)
        PROVE  VPInv'
    BY <2>2, InitiateStep, ResponseStep, CreateTxStep, SetNonceStep, SendInitiatedStep,
       PublishObjectStep, GetNonceStep, VerifyStep, StoreStep, SendSucceededStep DEF Step
  <2>3. ASSUME NEW tx \in TxIDs, RequestObjectByUuid(tx) PROVE VPInv'
    BY <2>3, RequestObjectStep
  <2>4. ASSUME NEW tx \in TxIDs, NEW org \in Orgs, RetrieveInteractionsClaim(org, tx)
        PROVE  VPInv'
    BY <2>4, RetrieveStep
  <2>5. ASSUME NEW n \in Nonces, ExpireNonce(n) PROVE VPInv'
    BY <2>5, ExpireStep
  <2>6. ASSUME NEW p \in Procs, Fail(p) PROVE VPInv'
    BY <2>6, FailStep
  <2> QED BY <2>1, <2>2, <2>3, <2>4, <2>5, <2>6, TickStep DEF Next
<1> QED BY <1>1, <1>2, PTL DEF Spec

\* The documents, the events and the requests keep their types, whatever calls
\* overlap and fail.
THEOREM VPTypeCorrectness == Spec => []TypeOK
<1>1. VPInv => TypeOK
  BY DEF VPInv
<1> QED BY <1>1, VPInvariance, PTL

\* VerifyOIDCVerifiablePresentation stores the claims of a transaction once:
\* no replay, overlap or failure replaces them.
THEOREM ClaimsStoredOnce == Spec => ClaimsFinal
<1>1. VPInv /\ [Next]_vars =>
        [\A tx \in TxIDs : claims[tx] # None => claims'[tx] = claims[tx]]_vars
  <2> SUFFICES ASSUME VPInv, [Next]_vars, NEW tx \in TxIDs, claims[tx] # None
               PROVE  claims'[tx] = claims[tx]
    OBVIOUS
  <2>1. CASE UNCHANGED claims
    BY <2>1
  <2>2. ASSUME NEW p \in Procs, StoreReceivedClaims(p)
        PROVE  claims'[tx] = claims[tx]
    <3>1. req[p].tx # tx /\ claims' = [claims EXCEPT ![req[p].tx] = req[p].claims]
      BY <2>2, StoreFacts
    <3> QED BY <3>1 DEF VPInv, TypeOK
  <2>3. [Next]_vars => UNCHANGED claims \/ \E p \in Procs : StoreReceivedClaims(p)
    BY DEF Next, Step, InitiateOidcInteraction, CreateTx, SetNonce, SendInitiated,
       PublishObject, RequestObjectByUuid, CheckAuthorizationResponse, Respond, GetNonce,
       VerifyPresentation, SendSucceeded, RetrieveInteractionsClaim, ExpireNonce, Tick, Fail,
       vars, storeVars
  <2> QED BY <2>1, <2>2, <2>3
<1> QED BY <1>1, VPInvariance, PTL DEF Spec, ClaimsFinal

\* RetrieveInteractionsClaim answers only the organization of the transaction's
\* profile, and what it answered stays the content of the transaction.
THEOREM RetrievedClaimsStay == Spec => []RetrievedFinal
<1>1. VPInv => RetrievedFinal
  BY DEF VPInv, RetrievedGood, RetrievedFinal
<1> QED BY <1>1, VPInvariance, PTL
=============================================================================
