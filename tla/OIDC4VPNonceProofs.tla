-------------------------- MODULE OIDC4VPNonceProofs --------------------------
(***************************************************************************)
(* Proofs about the nonces and the events of OIDC4VP interactions: a       *)
(* presentation belongs to the transaction whose claims it gives, a        *)
(* published nonce can be used until it expires, and the events of a       *)
(* transaction tell what happened, in order.                               *)
(***************************************************************************)
EXTENDS OIDC4VPProofs

\* A request with the locals r starts transaction tx: it has created it and not
\* yet published its request object.
Starting(r, tx) == r.pc \in {"setNonce", "sendInitiated", "publish"} /\ r.tx = tx

\* It has not published the first event of tx.
Unannounced(r, tx) == r.pc \in {"setNonce", "sendInitiated"} /\ r.tx = tx

\* It has published the first event and not the request object.
Announced(r, tx) == r.pc = "publish" /\ r.tx = tx

\* It has bound nonce n to tx.
Assigned(r, tx, n) == r.pc \in {"sendInitiated", "publish"} /\ r.tx = tx /\ r.nonce = n

\* It has spent nonce n of tx and not stored the claims.
Carrying(r, tx, n) == r.pc \in {"verify", "store"} /\ r.tx = tx /\ r.nonce = n

\* It has stored the claims of tx and not published the last event.
Telling(r, tx) == r.pc = "sendSucceeded" /\ r.tx = tx

\* The two nonces of a response are one, its state is a published transaction,
\* and a response that was verified is about the transaction of its nonce.
SoundResponse(r) ==
    /\ r.pc \in {"getNonce", "verify", "store"} => r.nonce \in Nonces /\ r.vpNonce = r.nonce
    /\ r.pc \in {"getNonce", "verify", "store", "sendSucceeded"} => r.state \in fetched
    /\ r.pc \in {"store", "sendSucceeded"} => r.state = r.tx

SoundResponses == \A p \in Procs : SoundResponse(req[p])

\* A transaction is started by one request, which is done when the request
\* object is published.
OneStart(tx) ==
    /\ \A p, q \in Procs : Starting(req[p], tx) /\ Starting(req[q], tx) => p = q
    /\ txProfile[tx] = None \/ objects[tx] # None => \A p \in Procs : ~Starting(req[p], tx)
    /\ txProfile[tx] = None => objects[tx] = None

\* A nonce that names a transaction, in the collection or spent by a response,
\* is the one in its request object.
OneNonce(tx) ==
    /\ \A n \in Nonces :
          Bound(n, tx) \/ (\E q \in Procs : Carrying(req[q], tx, n)) =>
              /\ objects[tx] \in {None, n}
              /\ \A p \in Procs : \A m \in Nonces : Assigned(req[p], tx, m) => m = n
    /\ claims[tx] # None => objects[tx] # None /\ origin[tx] = objects[tx]

Has(type, tx) == \E i \in DOMAIN events : events[i] = [type |-> type, tx |-> tx]

Silent(tx) == \A i \in DOMAIN events : events[i].tx # tx

\* The events of a transaction say how far it got.
Told(tx) ==
    /\ txProfile[tx] = None \/ (\E p \in Procs : Unannounced(req[p], tx)) => Silent(tx)
    /\ objects[tx] # None \/ (\E p \in Procs : Announced(req[p], tx)) => Has("initiated", tx)
    /\ tx \in fetched => Has("qrScanned", tx)
    /\ (\E p \in Procs : Telling(req[p], tx)) => claims[tx] # None /\ ~Has("succeeded", tx)
    /\ \A p, q \in Procs : Telling(req[p], tx) /\ Telling(req[q], tx) => p = q
    /\ Has("succeeded", tx) => claims[tx] # None

\* The nonce given to a transaction names it until it expires or is spent.
Usable(tx) ==
    /\ \A n \in Nonces : Bound(n, tx) => nonces[n].expireAt = expiry[tx]
    /\ tx \notin consumed /\ now < expiry[tx] =>
          \A n \in Nonces :
              objects[tx] = n \/ (\E p \in Procs : Assigned(req[p], tx, n)) => Bound(n, tx)

OneStarts == \A tx \in TxIDs : OneStart(tx)
OneNonces == \A tx \in TxIDs : OneNonce(tx)
ToldAll == \A tx \in TxIDs : Told(tx)
UsableAll == \A tx \in TxIDs : Usable(tx)

NonceInv ==
    /\ VPInv
    /\ SoundResponses
    /\ OneStarts
    /\ OneNonces
    /\ ToldAll
    /\ EventsInOrder
    /\ UsableAll

-----------------------------------------------------------------------------
\* What a request does with its transaction, it did before the step too.
Quiet(r, s) ==
    /\ \A tx \in TxIDs : /\ Starting(r, tx) => Starting(s, tx)
                         /\ Unannounced(r, tx) => Unannounced(s, tx)
                         /\ Announced(r, tx) => Announced(s, tx)
                         /\ Telling(r, tx) => Telling(s, tx)
    /\ \A tx \in TxIDs : \A n \in Nonces : /\ Assigned(r, tx, n) => Assigned(s, tx, n)
                                           /\ Carrying(r, tx, n) => Carrying(s, tx, n)

QuietStep == \A p \in Procs : Quiet(req'[p], req[p])

\* Only the locals of p change, to r.
Became(p, r) == req'[p] = r /\ \A q \in Procs \ {p} : req'[q] = req[q]

\* An update of the locals of one process.
LEMMA BecameUpdate ==
    ASSUME TypeOK, NEW p \in Procs, NEW r, req' = [req EXCEPT ![p] = r]
    PROVE  Became(p, r)
BY DEF TypeOK, Became

\* An update of the program counter.
LEMMA BecamePC ==
    ASSUME TypeOK, NEW p \in Procs, req[p] \in Request,
           NEW x \in InitiatePC \cup ResponsePC, req' = [req EXCEPT ![p].pc = x]
    PROVE  \E r \in Request : /\ Became(p, r)
                              /\ r.pc = x /\ r.tx = req[p].tx /\ r.nonce = req[p].nonce
                              /\ r.state = req[p].state /\ r.vpNonce = req[p].vpNonce
<1> DEFINE r == [req[p] EXCEPT !.pc = x]
<1>1. /\ r \in Request
      /\ r.pc = x /\ r.tx = req[p].tx /\ r.nonce = req[p].nonce
      /\ r.state = req[p].state /\ r.vpNonce = req[p].vpNonce
  BY DEF Request
<1>2. Became(p, r)
  BY DEF TypeOK, Became
<1> QED BY <1>1, <1>2

\* A process that does nothing with transactions.
LEMMA IdleQuiet == SoundResponse(Idle) /\ \A s : Quiet(Idle, s)
BY DEF Idle, Initiating, SoundResponse, Quiet, Starting, Unannounced, Announced, Assigned,
   Carrying, Telling

\* Every request is quiet compared with itself.
LEMMA SelfQuiet == \A s : Quiet(s, s)
BY DEF Quiet

\* One request changes, to a sound one.
LEMMA OneSound ==
    ASSUME SoundResponses, fetched \subseteq fetched', NEW p \in Procs, NEW r, Became(p, r),
           SoundResponse(r)
    PROVE  SoundResponses'
<1>1. SUFFICES ASSUME NEW q \in Procs PROVE SoundResponse(req[q])'
  BY DEF SoundResponses
<1>2. SoundResponse(req'[q])
  BY <1>1 DEF SoundResponses, Became
<1> QED BY <1>2 DEF SoundResponse

\* One request changes quietly.
LEMMA OneQuiet ==
    ASSUME SoundResponses, fetched \subseteq fetched', NEW p \in Procs, NEW r, Became(p, r),
           Quiet(r, req[p]), SoundResponse(r)
    PROVE  QuietStep /\ SoundResponses'
<1>1. QuietStep
  BY SelfQuiet DEF QuietStep, Became
<1> QED BY <1>1, OneSound

\* Any request that ends does so quietly.
LEMMA FinishQuiet ==
    ASSUME VPInv, SoundResponses, fetched \subseteq fetched', NEW p \in Procs, Finish(p)
    PROVE  QuietStep /\ SoundResponses'
<1>1. Became(p, Idle)
  BY BecameUpdate DEF VPInv, Finish, Become
<1> QED BY <1>1, IdleQuiet, OneQuiet

\* No request changes.
LEMMA SameQuiet ==
    ASSUME SoundResponses, fetched \subseteq fetched', UNCHANGED req
    PROVE  QuietStep /\ SoundResponses'
<1>1. QuietStep
  BY SelfQuiet DEF QuietStep
<1>2. SUFFICES ASSUME NEW q \in Procs PROVE SoundResponse(req[q])'
  BY <1>1 DEF SoundResponses
<1> QED BY <1>2 DEF SoundResponses, SoundResponse

-----------------------------------------------------------------------------
\* A new interaction has no transaction yet.
LEMMA InitiateQuiet ==
    ASSUME VPInv, SoundResponses, NEW p \in Procs, InitiateOidcInteraction(p)
    PROVE  QuietStep /\ SoundResponses'
<1>1. PICK pr \in Ready : req' = [req EXCEPT ![p] = Initiating("create", pr, 0, None, 0)]
  BY DEF InitiateOidcInteraction, Become
<1> DEFINE r == Initiating("create", pr, 0, None, 0)
<1>2. r.pc = "create"
  BY DEF Initiating
<1>3. Quiet(r, req[p]) /\ SoundResponse(r)
  BY <1>2 DEF Quiet, SoundResponse, Starting, Unannounced, Announced, Assigned, Carrying, Telling
<1> HIDE DEF r
<1>4. Became(p, r)
  BY <1>1, BecameUpdate DEF r, VPInv
<1>5. fetched' = fetched
  BY DEF InitiateOidcInteraction, histVars
<1> QED BY <1>3, <1>4, <1>5, OneQuiet

\* A response has no transaction yet; its state is that of a fetched request
\* object, and its tokens have one nonce.
LEMMA ResponseQuiet ==
    ASSUME VPInv, SoundResponses, NEW p \in Procs, CheckAuthorizationResponse(p)
    PROVE  QuietStep /\ SoundResponses'
<1>1. PICK i, v, st \in fetched : objects[v] = objects[i] /\ Respond(p, i, v, st)
  BY DEF CheckAuthorizationResponse
<1>2. PICK c \in Claims, d \in Verdict :
         req' = [req EXCEPT ![p] = Responding("getNonce", 0, objects[i], st, objects[v], c, d)]
  BY <1>1 DEF Respond, Become
<1> DEFINE r == Responding("getNonce", 0, objects[i], st, objects[v], c, d)
<1>3. /\ r.pc = "getNonce" /\ r.nonce = objects[i] /\ r.vpNonce = objects[v] /\ r.state = st
      /\ objects[i] \in Nonces
  BY <1>1 DEF Responding, VPInv, FetchedGood, TypeOK
<1>4. Quiet(r, req[p]) /\ SoundResponse(r)
  BY <1>1, <1>3 DEF Quiet, SoundResponse, Starting, Unannounced, Announced, Assigned,
     Carrying, Telling
<1> HIDE DEF r
<1>5. Became(p, r)
  BY <1>2, BecameUpdate DEF r, VPInv
<1>6. fetched' = fetched
  BY <1>1 DEF Respond, histVars
<1> QED BY <1>4, <1>5, <1>6, OneQuiet

\* A request that goes on to publish its request object keeps its nonce.
LEMMA SendInitiatedQuiet ==
    ASSUME VPInv, SoundResponses, NEW p \in Procs, SendInitiated(p)
    PROVE  /\ SoundResponses'
           /\ \E r : /\ Became(p, r) /\ r.pc = "publish"
                     /\ r.tx = req[p].tx /\ r.nonce = req[p].nonce
<1>1. /\ req[p] \in Request /\ TypeOK /\ "publish" \in InitiatePC \cup ResponsePC
      /\ req' = [req EXCEPT ![p].pc = "publish"]
  BY ReqType DEF SendInitiated, VPInv, InitiatePC
<1>2. PICK r \in Request : /\ Became(p, r) /\ r.pc = "publish" /\ r.tx = req[p].tx
                           /\ r.nonce = req[p].nonce
  BY <1>1, BecamePC
<1>3. SoundResponse(r)
  BY <1>2 DEF SoundResponse
<1>4. fetched' = fetched
  BY DEF SendInitiated, histVars
<1>5. SoundResponses'
  BY <1>2, <1>3, <1>4, OneSound
<1> QED BY <1>2, <1>5

-----------------------------------------------------------------------------
\* Quiet requests and unchanged documents keep the starts.
LEMMA StartsKept ==
    ASSUME OneStarts, QuietStep, UNCHANGED <<txProfile, objects>>
    PROVE  OneStarts'
<1>1. SUFFICES ASSUME NEW tx \in TxIDs PROVE OneStart(tx)'
  BY DEF OneStarts
<1>2. OneStart(tx) /\ \A p \in Procs : Starting(req'[p], tx) => Starting(req[p], tx)
  BY <1>1 DEF OneStarts, QuietStep, Quiet
<1> QED BY <1>2 DEF OneStart, Starting

\* No new nonce and no new holder of one: what names a transaction is as before.
LEMMA NoncesKept ==
    ASSUME OneNonces, QuietStep, UNCHANGED <<objects, claims, origin>>,
           \A n \in Nonces, tx \in TxIDs : Bound(n, tx)' => Bound(n, tx)
    PROVE  OneNonces'
<1>1. SUFFICES ASSUME NEW tx \in TxIDs PROVE OneNonce(tx)'
  BY DEF OneNonces
<1>2. /\ OneNonce(tx)
      /\ \A p \in Procs, n \in Nonces : /\ Assigned(req'[p], tx, n) => Assigned(req[p], tx, n)
                                        /\ Carrying(req'[p], tx, n) => Carrying(req[p], tx, n)
  BY <1>1 DEF OneNonces, QuietStep, Quiet
<1>3. /\ \A p \in Procs, n \in Nonces : Assigned(req[p], tx, n)' => Assigned(req[p], tx, n)
      /\ \A p \in Procs, n \in Nonces : Carrying(req[p], tx, n)' => Carrying(req[p], tx, n)
  BY <1>2 DEF Assigned, Carrying
<1> QED BY <1>2, <1>3 DEF OneNonce

\* No event and no news: what the events say stays true.
LEMMA ToldKept ==
    ASSUME ToldAll, QuietStep, UNCHANGED <<txProfile, objects, events, claims, fetched>>
    PROVE  ToldAll'
<1>1. SUFFICES ASSUME NEW tx \in TxIDs PROVE Told(tx)'
  BY DEF ToldAll
<1>2. /\ Told(tx)
      /\ \A p \in Procs : /\ Unannounced(req'[p], tx) => Unannounced(req[p], tx)
                          /\ Announced(req'[p], tx) => Announced(req[p], tx)
                          /\ Telling(req'[p], tx) => Telling(req[p], tx)
  BY <1>1 DEF ToldAll, QuietStep, Quiet
<1>3. \A p \in Procs : /\ Unannounced(req[p], tx)' => Unannounced(req[p], tx)
                       /\ Announced(req[p], tx)' => Announced(req[p], tx)
                       /\ Telling(req[p], tx)' => Telling(req[p], tx)
  BY <1>2 DEF Unannounced, Announced, Telling
<1>4. \A type : Has(type, tx)' <=> Has(type, tx)
  BY DEF Has
<1>5. Silent(tx)' <=> Silent(tx)
  BY DEF Silent
<1> QED BY <1>2, <1>3, <1>4, <1>5 DEF Told

\* The nonces that name transactions go on doing so.
LEMMA UsableKept ==
    ASSUME UsableAll, QuietStep, UNCHANGED <<objects, expiry, now, nonces>>,
           consumed \subseteq consumed'
    PROVE  UsableAll'
<1>1. SUFFICES ASSUME NEW tx \in TxIDs PROVE Usable(tx)'
  BY DEF UsableAll
<1>2. /\ Usable(tx)
      /\ \A p \in Procs, n \in Nonces : Assigned(req'[p], tx, n) => Assigned(req[p], tx, n)
  BY <1>1 DEF UsableAll, QuietStep, Quiet
<1>3. \A p \in Procs, n \in Nonces : Assigned(req[p], tx, n)' => Assigned(req[p], tx, n)
  BY <1>2 DEF Assigned
<1>4. \A n \in Nonces : Bound(n, tx)' <=> Bound(n, tx)
  BY <1>1, BoundKept
<1> QED BY <1>2, <1>3, <1>4 DEF Usable

\* No event, no disorder.
LEMMA OrderKept == ASSUME EventsInOrder, UNCHANGED events PROVE EventsInOrder'
BY DEF EventsInOrder

-----------------------------------------------------------------------------
\* An event is published: what was said before was said, and one thing more.
LEMMA Appended ==
    ASSUME events \in Seq(Event), NEW type \in EventType, NEW t \in TxIDs, Publish(type, t)
    PROVE  /\ \A tx, u : Has(u, tx)' <=> Has(u, tx) \/ (u = type /\ tx = t)
           /\ \A tx : Silent(tx)' <=> Silent(tx) /\ tx # t
           /\ DOMAIN events = 1..Len(events) /\ DOMAIN events' = 1..(Len(events) + 1)
           /\ \A i \in 1..Len(events) : events'[i] = events[i]
           /\ events'[Len(events) + 1] = [type |-> type, tx |-> t]
           /\ Len(events) \in Nat
<1> DEFINE e == [type |-> type, tx |-> t]
           k == Len(events)
<1>1. e \in Event /\ events' = Append(events, e) /\ k \in Nat
  BY DEF Event, Publish
<1>2. /\ DOMAIN events = 1..k /\ DOMAIN events' = 1..(k + 1)
      /\ \A i \in 1..k : events'[i] = events[i]
      /\ events'[k + 1] = e
  BY <1>1
<1>3. e.type = type /\ e.tx = t /\ \A u, tx : (e = [type |-> u, tx |-> tx]) <=> (u = type /\ tx = t)
  <2>1. ASSUME NEW u, NEW tx, e = [type |-> u, tx |-> tx] PROVE u = type /\ tx = t
    <3>1. e.type = [type |-> u, tx |-> tx].type /\ e.tx = [type |-> u, tx |-> tx].tx
      BY <2>1
    <3> QED BY <3>1
  <2> QED BY <2>1
<1> HIDE DEF e, k
<1>4. \A i : i \in 1..(k + 1) <=> i \in 1..k \/ i = k + 1
  BY <1>1
<1>5. ASSUME NEW tx, NEW u PROVE Has(u, tx)' <=> Has(u, tx) \/ (u = type /\ tx = t)
  <2> DEFINE f == [type |-> u, tx |-> tx]
  <2>1. (e = f) <=> (u = type /\ tx = t)
    BY <1>3
  <2> HIDE DEF f
  <2>2. (\E i \in 1..(k + 1) : events'[i] = f) <=> (\E i \in 1..k : events[i] = f) \/ e = f
    BY <1>2, <1>4
  <2>3. /\ Has(u, tx)' <=> \E i \in 1..(k + 1) : events'[i] = f
        /\ Has(u, tx) <=> \E i \in 1..k : events[i] = f
    BY <1>2 DEF Has, f
  <2> QED BY <2>1, <2>2, <2>3
<1>6. \A tx : Silent(tx)' <=> Silent(tx) /\ tx # t
  BY <1>2, <1>3, <1>4 DEF Silent
<1> QED BY <1>1, <1>2, <1>5, <1>6 DEF e, k

\* Event j comes in order.
InOrder(j) ==
    LET Before(type) == \E i \in 1..(j - 1) : events[i] = [type |-> type, tx |-> events[j].tx]
    IN /\ events[j].type = "initiated" => \A i \in 1..(j - 1) : events[i].tx # events[j].tx
       /\ events[j].type = "qrScanned" => Before("initiated")
       /\ events[j].type = "succeeded" => Before("qrScanned") /\ ~Before("succeeded")

\* The events are in order if each is.
LEMMA OrderMeans == EventsInOrder <=> \A j \in DOMAIN events : InOrder(j)
BY DEF EventsInOrder, InOrder

\* An event that may come next keeps the order.
LEMMA OrderedNext ==
    ASSUME events \in Seq(Event), EventsInOrder, NEW type \in EventType, NEW t \in TxIDs,
           Publish(type, t),
           type = "initiated" => Silent(t),
           type = "qrScanned" => Has("initiated", t),
           type = "succeeded" => Has("qrScanned", t) /\ ~Has("succeeded", t)
    PROVE  EventsInOrder'
<1> DEFINE k == Len(events)
<1>1. /\ DOMAIN events = 1..k /\ DOMAIN events' = 1..(k + 1) /\ k \in Nat
      /\ \A i \in 1..k : events'[i] = events[i]
      /\ events'[k + 1] = [type |-> type, tx |-> t]
  BY Appended
<1> HIDE DEF k
<1>2. \A i : i \in 1..(k + 1) <=> i \in 1..k \/ i = k + 1
  BY <1>1
<1>3. SUFFICES ASSUME NEW j \in DOMAIN events' PROVE InOrder(j)'
  BY DEF EventsInOrder, InOrder
<1>4. CASE j \in 1..k
  <2>1. \A i \in 1..(j - 1) : i \in 1..k /\ events'[i] = events[i]
    BY <1>1, <1>4
  <2>2. InOrder(j) /\ events'[j] = events[j]
    BY <1>1, <1>4, OrderMeans
  <2> QED BY <2>1, <2>2 DEF InOrder
<1>5. CASE j = k + 1
  <2>1. \A i : i \in 1..(j - 1) <=> i \in 1..k
    BY <1>1, <1>5
  <2>2. events'[j].type = type /\ events'[j].tx = t
    BY <1>1, <1>5
  <2>3. /\ Silent(t) <=> \A i \in 1..(j - 1) : events'[i].tx # t
        /\ \A u : Has(u, t) <=> \E i \in 1..(j - 1) : events'[i] = [type |-> u, tx |-> t]
    BY <1>1, <2>1 DEF Silent, Has
  <2> QED BY <2>2, <2>3 DEF InOrder
<1> QED BY <1>1, <1>2, <1>4, <1>5

-----------------------------------------------------------------------------
\* The invariant holds of empty stores.
LEMMA NonceInit == Init => NonceInv
<1> SUFFICES ASSUME Init PROVE NonceInv
  OBVIOUS
<1>1. VPInv
  BY VPInvInit
<1>2. \A p \in Procs : req[p] = Idle
  BY DEF Init
<1>3. SoundResponses
  BY <1>2, IdleQuiet DEF SoundResponses
<1>4. \A p \in Procs, tx \in TxIDs :
         /\ ~Starting(req[p], tx) /\ ~Unannounced(req[p], tx) /\ ~Announced(req[p], tx)
         /\ ~Telling(req[p], tx)
         /\ \A n \in Nonces : ~Assigned(req[p], tx, n) /\ ~Carrying(req[p], tx, n)
  BY <1>2 DEF Idle, Initiating, Starting, Unannounced, Announced, Assigned, Carrying, Telling
<1>5. OneStarts /\ OneNonces
  BY <1>4 DEF Init, OneStarts, OneStart, OneNonces, OneNonce, Bound
<1>6. ToldAll /\ EventsInOrder
  <2>1. DOMAIN events = {}
    BY DEF Init
  <2>2. \A tx \in TxIDs : Silent(tx) /\ \A u : ~Has(u, tx)
    BY <2>1 DEF Silent, Has
  <2>3. fetched = {} /\ \A tx \in TxIDs : objects[tx] = None
    BY DEF Init
  <2>4. EventsInOrder
    BY <2>1 DEF EventsInOrder
  <2> QED BY <1>4, <2>2, <2>3, <2>4 DEF ToldAll, Told
<1>7. UsableAll
  BY <1>4 DEF Init, UsableAll, Usable, Bound
<1> QED BY <1>1, <1>3, <1>5, <1>6, <1>7 DEF NonceInv

\* A step that leaves the documents alone and moves requests quietly.
LEMMA QuietKeeps ==
    ASSUME NonceInv, VPInv', SoundResponses', QuietStep, UNCHANGED storeVars,
           UNCHANGED <<fetched, expiry, origin>>, consumed \subseteq consumed'
    PROVE  NonceInv'
<1>1. /\ SoundResponses /\ OneStarts /\ OneNonces /\ ToldAll /\ EventsInOrder /\ UsableAll
      /\ UNCHANGED <<txProfile, claims, nonces, objects, now, events>>
  BY DEF NonceInv, storeVars
<1>2. \A n \in Nonces, tx \in TxIDs : Bound(n, tx)' => Bound(n, tx)
  BY <1>1, BoundKept
<1>3. OneStarts'
  BY <1>1, StartsKept
<1>4. OneNonces'
  BY <1>1, <1>2, NoncesKept
<1>5. ToldAll'
  BY <1>1, ToldKept
<1>6. EventsInOrder' /\ UsableAll'
  BY <1>1, OrderKept, UsableKept
<1> QED BY <1>3, <1>4, <1>5, <1>6 DEF NonceInv

\* The request that creates a transaction is the one that starts it.
LEMMA CreateNonces ==
    ASSUME NonceInv, VPInv', NEW p \in Procs, CreateTx(p)
    PROVE  NonceInv'
<1>1. PICK t \in TxIDs :
         /\ txProfile[t] = None
         /\ txProfile' = [txProfile EXCEPT ![t] = req[p].profile]
         /\ req' = [req EXCEPT ![p] = Initiating("setNonce", req[p].profile, t, None, 0)]
  BY DEF CreateTx, Become
<1> DEFINE r == Initiating("setNonce", req[p].profile, t, None, 0)
<1>2. UNCHANGED <<claims, nonces, objects, now, events, fetched, fetches, expiry, consumed,
                  origin, retrieved>>
  BY DEF CreateTx, histVars
<1>3. TypeOK /\ SoundResponses /\ OneStarts /\ OneNonces /\ ToldAll /\ EventsInOrder /\ UsableAll
  BY DEF NonceInv, VPInv
<1>4. /\ r.pc = "setNonce" /\ r.tx = t
  BY DEF Initiating
<1> HIDE DEF r
<1>5. Became(p, r)
  BY <1>1, <1>3, BecameUpdate DEF r
<1>6. /\ SoundResponse(r)
      /\ \A tx \in TxIDs : /\ Starting(r, tx) => tx = t
                           /\ Unannounced(r, tx) => tx = t
                           /\ ~Announced(r, tx) /\ ~Telling(r, tx)
                           /\ \A n \in Nonces : ~Assigned(r, tx, n) /\ ~Carrying(r, tx, n)
  BY <1>4 DEF SoundResponse, Starting, Unannounced, Announced, Telling, Assigned, Carrying
<1>7. SoundResponses'
  BY <1>2, <1>3, <1>5, <1>6, OneSound
<1>8. /\ objects[t] = None /\ \A q \in Procs : ~Starting(req[q], t)
      /\ Silent(t)
  BY <1>1, <1>3 DEF OneStarts, OneStart, ToldAll, Told
<1>9. \A tx \in TxIDs : tx # t => txProfile'[tx] = txProfile[tx]
  BY <1>1, <1>3 DEF TypeOK
<1>10. \A q \in Procs, tx \in TxIDs :
          /\ Starting(req'[q], tx) => Starting(req[q], tx) \/ (q = p /\ tx = t)
          /\ Unannounced(req'[q], tx) => Unannounced(req[q], tx) \/ tx = t
          /\ Announced(req'[q], tx) => Announced(req[q], tx)
          /\ Telling(req'[q], tx) => Telling(req[q], tx)
          /\ \A n \in Nonces : /\ Assigned(req'[q], tx, n) => Assigned(req[q], tx, n)
                               /\ Carrying(req'[q], tx, n) => Carrying(req[q], tx, n)
  BY <1>5, <1>6 DEF Became
<1>11. txProfile'[t] # None
  BY <1>1, <1>3, ReqType, VPNoneAssumption DEF TypeOK, CreateTx, NonceInv, VPInv, SoundRequests, Sound
<1>12. OneStarts'
  <2>1. SUFFICES ASSUME NEW tx \in TxIDs PROVE OneStart(tx)'
    BY DEF OneStarts
  <2>2. OneStart(tx)
    BY <2>1, <1>3 DEF OneStarts
  <2> QED BY <1>2, <1>8, <1>9, <1>10, <1>11, <2>1, <2>2 DEF OneStart
<1>13. OneNonces'
  <2>1. SUFFICES ASSUME NEW tx \in TxIDs PROVE OneNonce(tx)'
    BY DEF OneNonces
  <2>2. OneNonce(tx) /\ \A n \in Nonces : Bound(n, tx)' <=> Bound(n, tx)
    BY <2>1, <1>2, <1>3, BoundKept DEF OneNonces
  <2> QED BY <1>2, <1>10, <2>1, <2>2 DEF OneNonce
<1>14. ToldAll'
  <2>1. SUFFICES ASSUME NEW tx \in TxIDs PROVE Told(tx)'
    BY DEF ToldAll
  <2>2. Told(tx) /\ (\A u : Has(u, tx)' <=> Has(u, tx)) /\ (Silent(tx)' <=> Silent(tx))
    BY <2>1, <1>2, <1>3 DEF ToldAll, Has, Silent
  <2> QED BY <1>2, <1>8, <1>9, <1>10, <2>1, <2>2 DEF Told
<1>15. UsableAll'
  <2>1. SUFFICES ASSUME NEW tx \in TxIDs PROVE Usable(tx)'
    BY DEF UsableAll
  <2>2. Usable(tx) /\ \A n \in Nonces : Bound(n, tx)' <=> Bound(n, tx)
    BY <2>1, <1>2, <1>3, BoundKept DEF UsableAll
  <2> QED BY <1>2, <1>10, <2>1, <2>2 DEF Usable
<1> QED BY <1>2, <1>3, <1>7, <1>12, <1>13, <1>14, <1>15, OrderKept DEF NonceInv

\* A nonce value is taken by one transaction: the document names it, and the
\* request that goes on to the request object has it.
LEMMA BindNonces ==
    ASSUME NonceInv, VPInv', NEW p \in Procs, SetNonce(p), NEW n \in Nonces,
           nonces[n] = None, BindNonce(p, n)
    PROVE  NonceInv'
<1> DEFINE t == req[p].tx
           r == Initiating("sendInitiated", req[p].profile, t, n, 0)
           doc == [tx |-> t, expireAt |-> now + LifeTime]
<1>1. /\ nonces' = [nonces EXCEPT ![n] = doc]
      /\ expiry' = [expiry EXCEPT ![t] = now + LifeTime]
      /\ req' = [req EXCEPT ![p] = r]
  BY DEF BindNonce, Become
<1>2. UNCHANGED <<txProfile, claims, objects, now, events, fetched, fetches, consumed,
                  origin, retrieved>>
  BY DEF SetNonce
<1>3. TypeOK /\ SoundResponses /\ OneStarts /\ OneNonces /\ ToldAll /\ EventsInOrder /\ UsableAll
  BY DEF NonceInv, VPInv
<1>4. /\ t \in TxIDs /\ req[p].pc = "setNonce" /\ Holds(p, t)
      /\ Starting(req[p], t) /\ Unannounced(req[p], t)
  BY DEF SetNonce, NonceInv, VPInv, SoundRequests, Sound, Holds, Holding, Starting, Unannounced
<1>5. /\ r.pc = "sendInitiated" /\ r.tx = t /\ r.nonce = n
      /\ doc.tx = t /\ doc.expireAt = now + LifeTime
  BY DEF Initiating
<1> HIDE DEF r, doc
<1>6. Became(p, r)
  BY <1>1, <1>3, BecameUpdate
<1>7. /\ SoundResponse(r)
      /\ \A tx \in TxIDs : /\ Starting(r, tx) => tx = t
                           /\ Unannounced(r, tx) => tx = t
                           /\ ~Announced(r, tx) /\ ~Telling(r, tx)
                           /\ \A m \in Nonces : /\ Assigned(r, tx, m) => tx = t /\ m = n
                                                /\ ~Carrying(r, tx, m)
  BY <1>5 DEF SoundResponse, Starting, Unannounced, Announced, Telling, Assigned, Carrying
<1>8. SoundResponses'
  BY <1>2, <1>3, <1>6, <1>7, OneSound
<1>9. /\ nonces'[n] = doc /\ \A m \in Nonces \ {n} : nonces'[m] = nonces[m]
      /\ expiry'[t] = now + LifeTime /\ \A tx \in TxIDs \ {t} : expiry'[tx] = expiry[tx]
  BY <1>1, <1>3, <1>4 DEF TypeOK
<1>10. doc # None
  <2>1. now + LifeTime \in Nat
    BY <1>3, VPAssumption DEF TypeOK
  <2> QED BY <1>4, <2>1, VPNoneAssumption DEF doc
<1>11. /\ objects[t] = None /\ \A q \in Procs : Starting(req[q], t) => q = p
       /\ \A m \in Nonces : ~Bound(m, t)
       /\ \A q \in Procs, m \in Nonces : ~Carrying(req[q], t, m)
       /\ claims[t] = None /\ txProfile[t] # None
  <2>1. OneStart(t) /\ OneToken(t) /\ OneNonce(t)
    BY <1>3, <1>4 DEF NonceInv, VPInv, Tokens, OneStarts, OneNonces
  <2>2. \A q \in Procs, m \in Nonces : Carrying(req[q], t, m) => Holds(q, t) /\ q # p
    BY <1>4 DEF Carrying, Holds, Holding
  <2> QED BY <1>4, <2>1, <2>2 DEF OneStart, OneToken, OneNonce
<1>12. \A q \in Procs, tx \in TxIDs :
          /\ Starting(req'[q], tx) => Starting(req[q], tx)
          /\ Unannounced(req'[q], tx) => Unannounced(req[q], tx)
          /\ Announced(req'[q], tx) => Announced(req[q], tx)
          /\ Telling(req'[q], tx) => Telling(req[q], tx)
          /\ \A m \in Nonces :
                /\ Assigned(req'[q], tx, m) => Assigned(req[q], tx, m) \/ (q = p /\ tx = t /\ m = n)
                /\ Carrying(req'[q], tx, m) => Carrying(req[q], tx, m)
  BY <1>4, <1>6, <1>7 DEF Became
<1>13. \A m \in Nonces, tx \in TxIDs : Bound(m, tx)' <=> (m = n /\ tx = t) \/ Bound(m, tx)
  BY <1>5, <1>9, <1>10 DEF Bound
<1>14. \A q \in Procs, m \in Nonces : Assigned(req'[q], t, m) => m = n
  BY <1>4, <1>11, <1>12 DEF Starting, Assigned
<1>15. OneStarts'
  <2>1. SUFFICES ASSUME NEW tx \in TxIDs PROVE OneStart(tx)'
    BY DEF OneStarts
  <2>2. OneStart(tx)
    BY <2>1, <1>3 DEF OneStarts
  <2> QED BY <1>2, <1>12, <2>1, <2>2 DEF OneStart
<1>16. OneNonces'
  <2>1. SUFFICES ASSUME NEW tx \in TxIDs PROVE OneNonce(tx)'
    BY DEF OneNonces
  <2>2. OneNonce(tx)
    BY <2>1, <1>3 DEF OneNonces
  <2>3. CASE tx = t
    BY <1>2, <1>11, <1>12, <1>13, <1>14, <2>3 DEF OneNonce
  <2>4. CASE tx # t
    BY <1>2, <1>12, <1>13, <2>1, <2>2, <2>4 DEF OneNonce
  <2> QED BY <2>3, <2>4
<1>17. ToldAll'
  <2>1. SUFFICES ASSUME NEW tx \in TxIDs PROVE Told(tx)'
    BY DEF ToldAll
  <2>2. Told(tx) /\ (\A u : Has(u, tx)' <=> Has(u, tx)) /\ (Silent(tx)' <=> Silent(tx))
    BY <2>1, <1>2, <1>3 DEF ToldAll, Has, Silent
  <2> QED BY <1>2, <1>12, <2>1, <2>2 DEF Told
<1>18. UsableAll'
  <2>1. SUFFICES ASSUME NEW tx \in TxIDs PROVE Usable(tx)'
    BY DEF UsableAll
  <2>2. Usable(tx)
    BY <2>1, <1>3 DEF UsableAll
  <2>3. CASE tx = t
    <3>1. objects'[t] = None /\ \A m \in Nonces : m # None
      BY <1>2, <1>11, VPNoneAssumption
    <3> QED BY <1>5, <1>9, <1>11, <1>13, <1>14, <2>3, <3>1 DEF Usable
  <2>4. CASE tx # t
    <3>1. \A m \in Nonces : Bound(m, tx) => m # n
      BY DEF Bound
    <3> QED BY <1>2, <1>9, <1>12, <1>13, <2>1, <2>2, <2>4, <3>1 DEF Usable
  <2> QED BY <2>3, <2>4
<1> QED BY <1>2, <1>3, <1>8, <1>15, <1>16, <1>17, <1>18, OrderKept DEF NonceInv

\* A round of tryCreateTxNonce that binds nothing leaves everything as it was.
LEMMA SetNonceNonces ==
    ASSUME NonceInv, VPInv', NEW p \in Procs, SetNonce(p)
    PROVE  NonceInv'
<1>1. VPInv /\ SoundResponses /\ TypeOK
  BY DEF NonceInv, VPInv
<1>2. UNCHANGED <<txProfile, claims, objects, now, events, fetched, fetches, consumed,
                  origin, retrieved>>
  BY DEF SetNonce
<1>3. CASE UNCHANGED <<nonces, expiry>> /\ Finish(p)
  BY <1>1, <1>2, <1>3, FinishQuiet, QuietKeeps DEF storeVars
<1>4. CASE /\ UNCHANGED <<nonces, expiry>>
           /\ req' = [req EXCEPT ![p].tries = @ + 1]
  <2> DEFINE k == req[p].tries + 1
             r == [req[p] EXCEPT !.tries = k]
  <2>1. req[p] \in Request /\ req[p].pc = "setNonce"
    BY <1>1, ReqType DEF SetNonce
  <2>2. r.pc = req[p].pc /\ r.tx = req[p].tx
    BY <2>1 DEF Request
  <2>3. req' = [req EXCEPT ![p] = r]
    BY <1>1, <1>4 DEF TypeOK
  <2> HIDE DEF r
  <2>4. Quiet(r, req[p]) /\ SoundResponse(r)
    BY <2>1, <2>2 DEF Quiet, SoundResponse, Starting, Unannounced, Announced, Assigned,
       Carrying, Telling
  <2>5. QuietStep /\ SoundResponses'
    BY <1>1, <1>2, <2>3, <2>4, BecameUpdate, OneQuiet
  <2> QED BY <1>2, <1>4, <2>5, QuietKeeps DEF storeVars
<1> QED BY <1>3, <1>4, BindNonces DEF SetNonce

\* The first event of a transaction is the first: nobody announced it before.
LEMMA SendInitiatedNonces ==
    ASSUME NonceInv, VPInv', NEW p \in Procs, SendInitiated(p)
    PROVE  NonceInv'
<1> DEFINE t == req[p].tx
<1>1. /\ VPInv /\ TypeOK /\ SoundResponses /\ OneStarts /\ OneNonces /\ ToldAll
      /\ EventsInOrder /\ UsableAll
  BY DEF NonceInv, VPInv
<1>2. PICK r : Became(p, r) /\ r.pc = "publish" /\ r.tx = t /\ r.nonce = req[p].nonce
  BY <1>1, SendInitiatedQuiet
<1>3. SoundResponses'
  BY <1>1, SendInitiatedQuiet
<1>4. /\ UNCHANGED <<txProfile, claims, nonces, objects, now, fetched, fetches, expiry, consumed,
                     origin, retrieved>>
      /\ Publish("initiated", t) /\ req[p].pc = "sendInitiated"
  BY DEF SendInitiated, histVars
<1>5. /\ t \in TxIDs /\ Starting(req[p], t) /\ Unannounced(req[p], t)
  BY <1>1, <1>4 DEF VPInv, SoundRequests, Sound, Starting, Unannounced
<1>6. \A q \in Procs, tx \in TxIDs :
          /\ Starting(req'[q], tx) => Starting(req[q], tx)
          /\ Unannounced(req'[q], tx) => Unannounced(req[q], tx) /\ q # p
          /\ Announced(req'[q], tx) => Announced(req[q], tx) \/ tx = t
          /\ Telling(req'[q], tx) => Telling(req[q], tx)
          /\ \A m \in Nonces : /\ Assigned(req'[q], tx, m) => Assigned(req[q], tx, m)
                               /\ Carrying(req'[q], tx, m) => Carrying(req[q], tx, m)
  BY <1>2, <1>4 DEF Became, Starting, Unannounced, Announced, Telling, Assigned, Carrying
<1>7. /\ \A tx, u : Has(u, tx)' <=> Has(u, tx) \/ (u = "initiated" /\ tx = t)
      /\ \A tx : Silent(tx)' <=> Silent(tx) /\ tx # t
  BY <1>1, <1>4, <1>5, Appended DEF TypeOK, EventType
<1>8. Silent(t) /\ txProfile[t] # None /\ \A q \in Procs : Unannounced(req[q], t) => q = p
  BY <1>1, <1>5 DEF ToldAll, Told, OneStarts, OneStart, Unannounced, Starting
<1>9. EventsInOrder'
  BY <1>1, <1>4, <1>5, <1>8, OrderedNext DEF TypeOK, EventType
<1>10. ToldAll'
  <2>1. SUFFICES ASSUME NEW tx \in TxIDs PROVE Told(tx)'
    BY DEF ToldAll
  <2>2. Told(tx)
    BY <2>1, <1>1 DEF ToldAll
  <2>3. CASE tx = t
    BY <1>4, <1>6, <1>7, <1>8, <2>1, <2>2, <2>3 DEF Told
  <2>4. CASE tx # t
    BY <1>4, <1>6, <1>7, <2>1, <2>2, <2>4 DEF Told
  <2> QED BY <2>3, <2>4
<1>11. OneStarts'
  <2>1. SUFFICES ASSUME NEW tx \in TxIDs PROVE OneStart(tx)'
    BY DEF OneStarts
  <2>2. OneStart(tx)
    BY <2>1, <1>1 DEF OneStarts
  <2> QED BY <1>4, <1>6, <2>1, <2>2 DEF OneStart
<1>12. OneNonces'
  <2>1. SUFFICES ASSUME NEW tx \in TxIDs PROVE OneNonce(tx)'
    BY DEF OneNonces
  <2>2. OneNonce(tx) /\ \A n \in Nonces : Bound(n, tx)' <=> Bound(n, tx)
    BY <2>1, <1>1, <1>4, BoundKept DEF OneNonces
  <2> QED BY <1>4, <1>6, <2>1, <2>2 DEF OneNonce
<1>13. UsableAll'
  <2>1. SUFFICES ASSUME NEW tx \in TxIDs PROVE Usable(tx)'
    BY DEF UsableAll
  <2>2. Usable(tx) /\ \A n \in Nonces : Bound(n, tx)' <=> Bound(n, tx)
    BY <2>1, <1>1, <1>4, BoundKept DEF UsableAll
  <2> QED BY <1>4, <1>6, <2>1, <2>2 DEF Usable
<1> QED BY <1>3, <1>9, <1>10, <1>11, <1>12, <1>13 DEF NonceInv

\* The request object gets the nonce bound to its transaction.
LEMMA PublishObjectNonces ==
    ASSUME NonceInv, VPInv', NEW p \in Procs, PublishObject(p)
    PROVE  NonceInv'
<1> DEFINE t == req[p].tx
           n == req[p].nonce
<1>1. /\ VPInv /\ TypeOK /\ SoundResponses /\ OneStarts /\ OneNonces /\ ToldAll
      /\ EventsInOrder /\ UsableAll
  BY DEF NonceInv, VPInv
<1>2. /\ UNCHANGED <<txProfile, claims, nonces, now, events, fetched, fetches, expiry, consumed,
                     origin, retrieved>>
      /\ objects' = [objects EXCEPT ![t] = n]
      /\ req[p].pc = "publish" /\ Finish(p)
  BY DEF PublishObject, histVars
<1>3. /\ t \in TxIDs /\ n \in Nonces /\ n # None
      /\ Starting(req[p], t) /\ Announced(req[p], t) /\ Assigned(req[p], t, n)
  BY <1>1, <1>2, VPNoneAssumption
  DEF VPInv, SoundRequests, Sound, Starting, Announced, Assigned
<1>4. /\ objects'[t] = n /\ \A tx \in TxIDs : tx # t => objects'[tx] = objects[tx]
  BY <1>1, <1>2, <1>3 DEF TypeOK
<1>5. QuietStep /\ SoundResponses' /\ Became(p, Idle)
  BY <1>1, <1>2, FinishQuiet, BecameUpdate DEF Finish, Become
<1>6. \A q \in Procs, tx \in TxIDs :
          /\ Starting(req'[q], tx) => Starting(req[q], tx) /\ q # p
          /\ Unannounced(req'[q], tx) => Unannounced(req[q], tx)
          /\ Announced(req'[q], tx) => Announced(req[q], tx)
          /\ Telling(req'[q], tx) => Telling(req[q], tx)
          /\ \A m \in Nonces : /\ Assigned(req'[q], tx, m) => Assigned(req[q], tx, m) /\ q # p
                               /\ Carrying(req'[q], tx, m) => Carrying(req[q], tx, m)
  BY <1>5 DEF Became, QuietStep, Quiet, Idle, Initiating, Starting, Assigned
<1>7. /\ objects[t] = None /\ txProfile[t] # None /\ claims[t] = None
      /\ \A q \in Procs : Starting(req[q], t) => q = p
      /\ \A q \in Procs, m \in Nonces : ~Assigned(req'[q], t, m)
      /\ Has("initiated", t)
      /\ \A m \in Nonces : Bound(m, t) \/ (\E q \in Procs : Carrying(req[q], t, m)) => m = n
  <2>1. OneStart(t) /\ OneNonce(t) /\ Told(t)
    BY <1>1, <1>3 DEF OneStarts, OneNonces, ToldAll
  <2>2. \A q \in Procs, m \in Nonces : Assigned(req[q], t, m) => Starting(req[q], t)
    BY DEF Assigned, Starting
  <2>3. /\ objects[t] = None /\ txProfile[t] # None /\ claims[t] = None
        /\ \A q \in Procs : Starting(req[q], t) => q = p
    BY <1>3, <2>1 DEF OneStart, OneNonce
  <2>4. \A q \in Procs, m \in Nonces : ~Assigned(req'[q], t, m)
    BY <1>3, <1>6, <2>2, <2>3
  <2>5. Has("initiated", t)
    BY <1>3, <2>1 DEF Told
  <2>6. \A m \in Nonces : Bound(m, t) \/ (\E q \in Procs : Carrying(req[q], t, m)) => m = n
    BY <1>3, <2>1 DEF OneNonce
  <2> QED BY <2>3, <2>4, <2>5, <2>6
<1>8. \A m \in Nonces, tx \in TxIDs : Bound(m, tx)' <=> Bound(m, tx)
  BY <1>2, BoundKept
<1>9. OneStarts'
  <2>1. SUFFICES ASSUME NEW tx \in TxIDs PROVE OneStart(tx)'
    BY DEF OneStarts
  <2>2. OneStart(tx)
    BY <2>1, <1>1 DEF OneStarts
  <2> QED BY <1>2, <1>4, <1>6, <1>7, <2>1, <2>2 DEF OneStart
<1>10. OneNonces'
  <2>1. SUFFICES ASSUME NEW tx \in TxIDs PROVE OneNonce(tx)'
    BY DEF OneNonces
  <2>2. OneNonce(tx)
    BY <2>1, <1>1 DEF OneNonces
  <2>3. CASE tx = t
    BY <1>2, <1>4, <1>6, <1>7, <1>8, <2>1, <2>3 DEF OneNonce
  <2>4. CASE tx # t
    BY <1>2, <1>4, <1>6, <1>8, <2>1, <2>2, <2>4 DEF OneNonce
  <2> QED BY <2>3, <2>4
<1>11. ToldAll'
  <2>1. SUFFICES ASSUME NEW tx \in TxIDs PROVE Told(tx)'
    BY DEF ToldAll
  <2>2. Told(tx) /\ (\A u : Has(u, tx)' <=> Has(u, tx)) /\ (Silent(tx)' <=> Silent(tx))
    BY <2>1, <1>1, <1>2 DEF ToldAll, Has, Silent
  <2> QED BY <1>2, <1>4, <1>6, <1>7, <2>1, <2>2 DEF Told
<1>12. UsableAll'
  <2>1. SUFFICES ASSUME NEW tx \in TxIDs PROVE Usable(tx)'
    BY DEF UsableAll
  <2>2. Usable(tx)
    BY <2>1, <1>1 DEF UsableAll
  <2> QED BY <1>2, <1>3, <1>4, <1>6, <1>7, <1>8, <2>1, <2>2 DEF Usable
<1>13. EventsInOrder'
  BY <1>1, <1>2, OrderKept
<1> QED BY <1>5, <1>9, <1>10, <1>11, <1>12, <1>13 DEF NonceInv

\* Requests that reach no transaction yet, or give theirs up, and readers.
LEMMA InitiateNonces ==
    ASSUME NonceInv, VPInv', NEW p \in Procs, InitiateOidcInteraction(p)
    PROVE  NonceInv'
<1>1. QuietStep /\ SoundResponses'
  BY InitiateQuiet DEF NonceInv
<1> QED BY <1>1, QuietKeeps DEF InitiateOidcInteraction, histVars

\* A response that begins has not touched a transaction.
LEMMA ResponseNonces ==
    ASSUME NonceInv, VPInv', NEW p \in Procs, CheckAuthorizationResponse(p)
    PROVE  NonceInv'
<1>1. QuietStep /\ SoundResponses'
  BY ResponseQuiet DEF NonceInv
<1>2. UNCHANGED storeVars /\ UNCHANGED histVars
  BY DEF CheckAuthorizationResponse, Respond
<1> QED BY <1>1, <1>2, QuietKeeps DEF histVars

\* A verified response goes on with the transaction its state names.
LEMMA VerifyNonces ==
    ASSUME NonceInv, VPInv', NEW p \in Procs, VerifyPresentation(p)
    PROVE  NonceInv'
<1>1. VPInv /\ TypeOK /\ SoundResponses
  BY DEF NonceInv, VPInv
<1>2. UNCHANGED storeVars /\ UNCHANGED histVars /\ fetched' = fetched
  BY DEF VerifyPresentation, histVars
<1>3. QuietStep /\ SoundResponses'
  <2>1. CASE Finish(p)
    BY <1>1, <1>2, <2>1, FinishQuiet
  <2>2. CASE req[p].tx = req[p].state /\ req' = [req EXCEPT ![p].pc = "store"]
    <3>1. /\ req[p] \in Request /\ req[p].pc = "verify" /\ SoundResponse(req[p])
          /\ "store" \in InitiatePC \cup ResponsePC
      BY <1>1, ReqType DEF VerifyPresentation, SoundResponses, ResponsePC
    <3>2. PICK r \in Request : /\ Became(p, r) /\ r.pc = "store" /\ r.tx = req[p].tx
                               /\ r.nonce = req[p].nonce /\ r.state = req[p].state
                               /\ r.vpNonce = req[p].vpNonce
      BY <1>1, <2>2, <3>1, BecamePC
    <3>3. Quiet(r, req[p]) /\ SoundResponse(r)
      BY <2>2, <3>1, <3>2 DEF Quiet, SoundResponse, Starting, Unannounced, Announced, Assigned,
         Carrying, Telling
    <3> QED BY <1>1, <1>2, <3>2, <3>3, OneQuiet
  <2> QED BY <2>1, <2>2 DEF VerifyPresentation
<1> QED BY <1>2, <1>3, QuietKeeps DEF histVars

\* A request that fails leaves its transaction as it is.
LEMMA FailNonces ==
    ASSUME NonceInv, VPInv', NEW p \in Procs, Fail(p)
    PROVE  NonceInv'
<1>1. UNCHANGED storeVars /\ UNCHANGED histVars /\ fetched' = fetched
  BY DEF Fail, histVars
<1>2. QuietStep /\ SoundResponses'
  BY <1>1, FinishQuiet DEF NonceInv, Fail
<1> QED BY <1>1, <1>2, QuietKeeps DEF histVars

\* Reading claims changes nothing here.
LEMMA RetrieveNonces ==
    ASSUME NonceInv, VPInv', NEW org \in Orgs, NEW t \in TxIDs, RetrieveInteractionsClaim(org, t)
    PROVE  NonceInv'
<1>1. /\ UNCHANGED storeVars
      /\ UNCHANGED <<req, fetched, fetches, expiry, consumed, origin>>
  BY DEF RetrieveInteractionsClaim
<1>2. QuietStep /\ SoundResponses'
  BY <1>1, SameQuiet DEF NonceInv
<1> QED BY <1>1, <1>2, QuietKeeps

\* A nonce that goes was spent or has expired.
LEMMA UsableShrinks ==
    ASSUME UsableAll, UNCHANGED <<objects, expiry>>, now \in Nat, now' \in Nat, now <= now',
           expiry \in [TxIDs -> Nat], consumed \subseteq consumed',
           \A p \in Procs, tx \in TxIDs, n \in Nonces :
              Assigned(req'[p], tx, n) => Assigned(req[p], tx, n),
           \A n \in Nonces, tx \in TxIDs :
              /\ Bound(n, tx)' => Bound(n, tx) /\ nonces'[n] = nonces[n]
              /\ Bound(n, tx) => Bound(n, tx)' \/ tx \in consumed' \/ ~(now' < expiry[tx])
    PROVE  UsableAll'
<1>1. SUFFICES ASSUME NEW tx \in TxIDs PROVE Usable(tx)'
  BY DEF UsableAll
<1>2. Usable(tx)
  BY <1>1 DEF UsableAll
<1>3. now' < expiry[tx] => now < expiry[tx]
  BY <1>1
<1> QED BY <1>1, <1>2, <1>3 DEF Usable

\* The nonce of a response is deleted; if it named a transaction in time, the
\* response is its only holder.
LEMMA GetNonceNonces ==
    ASSUME NonceInv, VPInv', NEW p \in Procs, GetNonce(p)
    PROVE  NonceInv'
<1> DEFINE n == req[p].nonce
           doc == nonces[n]
<1>1. /\ VPInv /\ TypeOK /\ SoundResponses /\ OneStarts /\ OneNonces /\ ToldAll
      /\ EventsInOrder /\ UsableAll
  BY DEF NonceInv, VPInv
<1>2. /\ UNCHANGED <<txProfile, claims, objects, now, events, fetched, fetches, expiry, origin>>
      /\ nonces' = [nonces EXCEPT ![n] = None] /\ req[p].pc = "getNonce"
      /\ fetched' = fetched
  BY DEF GetNonce
<1>3. req[p] \in Request /\ n \in Nonces /\ SoundResponse(req[p])
  BY <1>1, <1>2, ReqType DEF SoundResponses, SoundResponse
<1>4. nonces'[n] = None /\ \A m \in Nonces \ {n} : nonces'[m] = nonces[m]
  BY <1>1, <1>2, <1>3 DEF TypeOK
<1>5. \A m \in Nonces, tx \in TxIDs :
         /\ Bound(m, tx)' => Bound(m, tx) /\ nonces'[m] = nonces[m]
         /\ Bound(m, tx) => Bound(m, tx)' \/ m = n
  BY <1>4 DEF Bound
<1>6. /\ SoundResponses' /\ consumed \subseteq consumed'
      /\ \A tx \in TxIDs : Bound(n, tx) => tx \in consumed' \/ ~(now' < expiry[tx])
      /\ \A q \in Procs, tx \in TxIDs :
            /\ Starting(req'[q], tx) => Starting(req[q], tx)
            /\ Unannounced(req'[q], tx) => Unannounced(req[q], tx)
            /\ Announced(req'[q], tx) => Announced(req[q], tx)
            /\ Telling(req'[q], tx) => Telling(req[q], tx)
            /\ \A m \in Nonces :
                  /\ Assigned(req'[q], tx, m) => Assigned(req[q], tx, m)
                  /\ Carrying(req'[q], tx, m) => Carrying(req[q], tx, m) \/ Bound(m, tx)
  <2>1. CASE Finish(p) /\ UNCHANGED consumed /\ (doc = None \/ doc.expireAt < now)
    <3>1. QuietStep /\ SoundResponses'
      BY <1>1, <1>2, <2>1, FinishQuiet
    <3>2. ASSUME NEW tx \in TxIDs, Bound(n, tx) PROVE ~(now' < expiry[tx])
      <4>1. doc # None /\ doc.expireAt = expiry[tx]
        BY <1>1, <1>3, <3>2 DEF UsableAll, Usable, Bound
      <4>2. expiry[tx] < now
        BY <2>1, <4>1
      <4>3. now \in Nat /\ expiry[tx] \in Nat
        BY <1>1, <3>2, VPAssumption DEF TypeOK
      <4> QED BY <1>2, <4>2, <4>3
    <3> QED BY <2>1, <3>1, <3>2 DEF QuietStep, Quiet
  <2>2. CASE /\ doc # None /\ consumed' = consumed \cup {doc.tx}
             /\ req' = [req EXCEPT ![p].pc = "verify", ![p].tx = doc.tx]
    <3> DEFINE r == [req[p] EXCEPT !.pc = "verify", !.tx = doc.tx]
    <3>1. /\ r.pc = "verify" /\ r.tx = doc.tx /\ r.nonce = n /\ r.state = req[p].state
          /\ r.vpNonce = req[p].vpNonce
      BY <1>3 DEF Request
    <3>2. req' = [req EXCEPT ![p] = r]
      BY <1>1, <2>2 DEF TypeOK
    <3> HIDE DEF r
    <3>3. Became(p, r)
      BY <1>1, <3>2, BecameUpdate
    <3>4. SoundResponse(r)
      BY <1>2, <1>3, <3>1 DEF SoundResponse
    <3>5. \A tx \in TxIDs :
             /\ ~Starting(r, tx) /\ ~Unannounced(r, tx) /\ ~Announced(r, tx) /\ ~Telling(r, tx)
             /\ \A m \in Nonces : /\ ~Assigned(r, tx, m)
                                  /\ Carrying(r, tx, m) => m = n /\ Bound(n, tx)
      BY <2>2, <3>1 DEF Starting, Unannounced, Announced, Telling, Assigned, Carrying, Bound
    <3>6. SoundResponses'
      BY <1>1, <1>2, <3>3, <3>4, OneSound
    <3>7. \A tx \in TxIDs : Bound(n, tx) => tx \in consumed'
      BY <2>2 DEF Bound
    <3> QED BY <2>2, <3>3, <3>5, <3>6, <3>7 DEF Became
  <2> QED BY <2>1, <2>2 DEF GetNonce
<1>7. OneStarts'
  <2>1. SUFFICES ASSUME NEW tx \in TxIDs PROVE OneStart(tx)'
    BY DEF OneStarts
  <2>2. OneStart(tx)
    BY <2>1, <1>1 DEF OneStarts
  <2> QED BY <1>2, <1>6, <2>1, <2>2 DEF OneStart
<1>8. OneNonces'
  <2>1. SUFFICES ASSUME NEW tx \in TxIDs PROVE OneNonce(tx)'
    BY DEF OneNonces
  <2>2. OneNonce(tx)
    BY <2>1, <1>1 DEF OneNonces
  <2>3. \A m \in Nonces : Bound(m, tx)' => Bound(m, tx)
    BY <1>5, <2>1
  <2> QED BY <1>2, <1>6, <2>1, <2>2, <2>3 DEF OneNonce
<1>9. ToldAll'
  <2>1. SUFFICES ASSUME NEW tx \in TxIDs PROVE Told(tx)'
    BY DEF ToldAll
  <2>2. Told(tx) /\ (\A u : Has(u, tx)' <=> Has(u, tx)) /\ (Silent(tx)' <=> Silent(tx))
    BY <2>1, <1>1, <1>2 DEF ToldAll, Has, Silent
  <2> QED BY <1>2, <1>6, <2>1, <2>2 DEF Told
<1>10. UsableAll'
  <2>1. now \in Nat /\ now' \in Nat /\ now <= now' /\ expiry \in [TxIDs -> Nat]
    BY <1>1, <1>2, VPAssumption DEF TypeOK
  <2> QED BY <1>1, <1>2, <1>5, <1>6, <2>1, UsableShrinks
<1>11. EventsInOrder'
  BY <1>1, <1>2, OrderKept
<1> QED BY <1>6, <1>7, <1>8, <1>9, <1>10, <1>11 DEF NonceInv

\* The claims of a transaction come from a presentation for the nonce of its
\* request object: the response spent that nonce.
LEMMA StoreNonces ==
    ASSUME NonceInv, VPInv', NEW p \in Procs, StoreReceivedClaims(p)
    PROVE  NonceInv'
<1> DEFINE t == req[p].tx
           n == req[p].nonce
<1>1. /\ VPInv /\ TypeOK /\ SoundResponses /\ OneStarts /\ OneNonces /\ ToldAll
      /\ EventsInOrder /\ UsableAll /\ FetchedGood
  BY DEF NonceInv, VPInv
<1>2. /\ UNCHANGED <<txProfile, nonces, objects, now, events, fetched, fetches, expiry, consumed>>
      /\ origin' = [origin EXCEPT ![t] = req[p].vpNonce]
      /\ req' = [req EXCEPT ![p].pc = "sendSucceeded"] /\ req[p].pc = "store"
  BY DEF StoreReceivedClaims
<1>3. /\ req[p] \in Request /\ t \in TxIDs /\ req[p].claims \in Claims /\ Holds(p, t)
      /\ claims[t] = None /\ claims' = [claims EXCEPT ![t] = req[p].claims]
      /\ "sendSucceeded" \in InitiatePC \cup ResponsePC
  BY <1>1, StoreFacts DEF ResponsePC
<1>4. PICK r \in Request : /\ Became(p, r) /\ r.pc = "sendSucceeded" /\ r.tx = t /\ r.nonce = n
                           /\ r.state = req[p].state /\ r.vpNonce = req[p].vpNonce
  BY <1>1, <1>2, <1>3, BecamePC
<1>5. /\ SoundResponse(req[p]) /\ n \in Nonces /\ req[p].vpNonce = n
      /\ req[p].state = t /\ t \in fetched
  BY <1>1, <1>2 DEF SoundResponses, SoundResponse
<1>6. objects[t] = n /\ n # None
  <2>1. Carrying(req[p], t, n)
    BY <1>2 DEF Carrying
  <2>2. objects[t] # None /\ OneNonce(t)
    BY <1>1, <1>3, <1>5 DEF FetchedGood, OneNonces
  <2> QED BY <1>5, <2>1, <2>2 DEF OneNonce
<1>7. /\ claims'[t] # None /\ origin'[t] = n
      /\ \A tx \in TxIDs : tx # t => claims'[tx] = claims[tx] /\ origin'[tx] = origin[tx]
  BY <1>1, <1>2, <1>3, <1>5, VPNoneAssumption DEF TypeOK
<1>8. SoundResponse(r)
  BY <1>4, <1>5 DEF SoundResponse
<1>9. SoundResponses'
  BY <1>1, <1>2, <1>4, <1>8, OneSound
<1>10. \A q \in Procs, tx \in TxIDs :
          /\ Starting(req'[q], tx) => Starting(req[q], tx)
          /\ Unannounced(req'[q], tx) => Unannounced(req[q], tx)
          /\ Announced(req'[q], tx) => Announced(req[q], tx)
          /\ Telling(req'[q], tx) => Telling(req[q], tx) \/ (tx = t /\ q = p)
          /\ \A m \in Nonces : /\ Assigned(req'[q], tx, m) => Assigned(req[q], tx, m)
                               /\ Carrying(req'[q], tx, m) => Carrying(req[q], tx, m)
  BY <1>4 DEF Became, Starting, Unannounced, Announced, Telling, Assigned, Carrying
<1>11. OneStarts'
  <2>1. SUFFICES ASSUME NEW tx \in TxIDs PROVE OneStart(tx)'
    BY DEF OneStarts
  <2>2. OneStart(tx)
    BY <2>1, <1>1 DEF OneStarts
  <2> QED BY <1>2, <1>10, <2>1, <2>2 DEF OneStart
<1>12. OneNonces'
  <2>1. SUFFICES ASSUME NEW tx \in TxIDs PROVE OneNonce(tx)'
    BY DEF OneNonces
  <2>2. OneNonce(tx) /\ \A m \in Nonces : Bound(m, tx)' <=> Bound(m, tx)
    BY <2>1, <1>1, <1>2, BoundKept DEF OneNonces
  <2>3. claims'[tx] # None => objects[tx] # None /\ origin'[tx] = objects[tx]
    BY <1>6, <1>7, <2>1, <2>2 DEF OneNonce
  <2> QED BY <1>2, <1>10, <2>1, <2>2, <2>3 DEF OneNonce
<1>13. ToldAll'
  <2>1. SUFFICES ASSUME NEW tx \in TxIDs PROVE Told(tx)'
    BY DEF ToldAll
  <2>2. Told(tx) /\ (\A u : Has(u, tx)' <=> Has(u, tx)) /\ (Silent(tx)' <=> Silent(tx))
    BY <2>1, <1>1, <1>2 DEF ToldAll, Has, Silent
  <2>3. CASE tx = t
    BY <1>2, <1>3, <1>7, <1>10, <2>1, <2>2, <2>3 DEF Told
  <2>4. CASE tx # t
    BY <1>2, <1>7, <1>10, <2>1, <2>2, <2>4 DEF Told
  <2> QED BY <2>3, <2>4
<1>14. UsableAll'
  <2>1. SUFFICES ASSUME NEW tx \in TxIDs PROVE Usable(tx)'
    BY DEF UsableAll
  <2>2. Usable(tx) /\ \A m \in Nonces : Bound(m, tx)' <=> Bound(m, tx)
    BY <2>1, <1>1, <1>2, BoundKept DEF UsableAll
  <2> QED BY <1>2, <1>10, <2>1, <2>2 DEF Usable
<1>15. EventsInOrder'
  BY <1>1, <1>2, OrderKept
<1> QED BY <1>9, <1>11, <1>12, <1>13, <1>14, <1>15 DEF NonceInv

\* An event of a transaction is published and no document changes.
LEMMA EventKeeps ==
    ASSUME NonceInv, QuietStep, UNCHANGED <<txProfile, claims, nonces, objects, now, expiry,
           consumed, origin>>, NEW type \in EventType, NEW t \in TxIDs, Publish(type, t),
           fetched \subseteq fetched',
           type = "initiated" => Silent(t),
           type = "qrScanned" => Has("initiated", t),
           type = "succeeded" => Has("qrScanned", t) /\ ~Has("succeeded", t)
    PROVE  /\ EventsInOrder' /\ OneStarts' /\ OneNonces' /\ UsableAll'
           /\ \A tx, u : Has(u, tx)' <=> Has(u, tx) \/ (u = type /\ tx = t)
           /\ \A tx : Silent(tx)' <=> Silent(tx) /\ tx # t
<1>1. /\ events \in Seq(Event) /\ OneStarts /\ OneNonces /\ EventsInOrder /\ UsableAll
  BY DEF NonceInv, VPInv, TypeOK
<1>2. \A n \in Nonces, tx \in TxIDs : Bound(n, tx)' => Bound(n, tx)
  BY BoundKept
<1>3. EventsInOrder'
  BY <1>1, OrderedNext
<1>4. OneStarts' /\ OneNonces' /\ UsableAll'
  BY <1>1, <1>2, StartsKept, NoncesKept, UsableKept
<1> QED BY <1>1, <1>3, <1>4, Appended

\* The last event: the claims are there, the request object was fetched, and no
\* other response got this far.
LEMMA SendSucceededNonces ==
    ASSUME NonceInv, VPInv', NEW p \in Procs, SendSucceeded(p)
    PROVE  NonceInv'
<1> DEFINE t == req[p].tx
<1>1. VPInv /\ TypeOK /\ SoundResponses /\ ToldAll
  BY DEF NonceInv, VPInv
<1>2. /\ UNCHANGED <<txProfile, claims, nonces, objects, now, fetched, fetches, expiry, consumed,
                     origin>>
      /\ Publish("succeeded", t) /\ Finish(p) /\ req[p].pc = "sendSucceeded"
  BY DEF SendSucceeded, histVars
<1>3. t \in TxIDs /\ t \in fetched /\ Telling(req[p], t)
  BY <1>1, <1>2 DEF VPInv, SoundRequests, Sound, SoundResponses, SoundResponse, Telling
<1>4. QuietStep /\ SoundResponses' /\ Became(p, Idle)
  BY <1>1, <1>2, FinishQuiet, BecameUpdate DEF Finish, Become
<1>5. /\ claims[t] # None /\ ~Has("succeeded", t) /\ Has("qrScanned", t) /\ Has("initiated", t)
      /\ \A q \in Procs : Telling(req[q], t) => q = p
      /\ txProfile[t] # None /\ \A q \in Procs : ~Unannounced(req[q], t)
  <2>1. Told(t) /\ OneNonce(t) /\ OneStart(t)
    BY <1>1, <1>3 DEF ToldAll, NonceInv, OneNonces, OneStarts
  <2>2. claims[t] # None /\ objects[t] # None /\ txProfile[t] # None
    BY <1>3, <2>1 DEF Told, OneNonce, OneStart
  <2>3. \A q \in Procs : Unannounced(req[q], t) => Starting(req[q], t)
    BY DEF Unannounced, Starting
  <2> QED BY <1>3, <2>1, <2>2, <2>3 DEF Told, OneStart
<1>6. /\ EventsInOrder' /\ OneStarts' /\ OneNonces' /\ UsableAll'
      /\ \A tx, u : Has(u, tx)' <=> Has(u, tx) \/ (u = "succeeded" /\ tx = t)
      /\ \A tx : Silent(tx)' <=> Silent(tx) /\ tx # t
  BY <1>2, <1>3, <1>4, <1>5, EventKeeps DEF EventType
<1>7. \A q \in Procs : ~Telling(req'[q], t)
  <2>1. ~Telling(Idle, t)
    BY DEF Idle, Initiating, Telling
  <2> QED BY <1>4, <1>5, <2>1 DEF Became
<1>8. \A q \in Procs, tx \in TxIDs : /\ Unannounced(req'[q], tx) => Unannounced(req[q], tx)
                                     /\ Announced(req'[q], tx) => Announced(req[q], tx)
                                     /\ Telling(req'[q], tx) => Telling(req[q], tx)
  BY <1>4 DEF QuietStep, Quiet
<1>9. ToldAll'
  <2>1. SUFFICES ASSUME NEW tx \in TxIDs PROVE Told(tx)'
    BY DEF ToldAll
  <2>2. Told(tx)
    BY <2>1, <1>1 DEF ToldAll
  <2>3. CASE tx = t
    BY <1>2, <1>5, <1>6, <1>7, <1>8, <2>1, <2>2, <2>3 DEF Told
  <2>4. CASE tx # t
    BY <1>2, <1>6, <1>8, <2>1, <2>2, <2>4 DEF Told
  <2> QED BY <2>3, <2>4
<1> QED BY <1>4, <1>6, <1>9 DEF NonceInv

\* A request object that is read was published after the first event.
LEMMA RequestObjectNonces ==
    ASSUME NonceInv, VPInv', NEW t \in TxIDs, RequestObjectByUuid(t)
    PROVE  NonceInv'
<1>1. VPInv /\ SoundResponses /\ ToldAll
  BY DEF NonceInv
<1>2. /\ UNCHANGED <<txProfile, claims, nonces, objects, now, expiry, consumed, origin>>
      /\ UNCHANGED req /\ fetched' = fetched \cup {t}
      /\ Publish("qrScanned", t) /\ objects[t] # None
  BY DEF RequestObjectByUuid
<1>3. QuietStep /\ SoundResponses'
  BY <1>1, <1>2, SameQuiet
<1>4. /\ Has("initiated", t) /\ txProfile[t] # None
      /\ \A q \in Procs : ~Unannounced(req[q], t)
  <2>1. Told(t) /\ OneStart(t)
    BY <1>1 DEF ToldAll, NonceInv, OneStarts
  <2>2. \A q \in Procs : Unannounced(req[q], t) => Starting(req[q], t)
    BY DEF Unannounced, Starting
  <2> QED BY <1>2, <2>1, <2>2 DEF Told, OneStart
<1>5. /\ EventsInOrder' /\ OneStarts' /\ OneNonces' /\ UsableAll'
      /\ \A tx, u : Has(u, tx)' <=> Has(u, tx) \/ (u = "qrScanned" /\ tx = t)
      /\ \A tx : Silent(tx)' <=> Silent(tx) /\ tx # t
  BY <1>2, <1>3, <1>4, EventKeeps DEF EventType
<1>6. ToldAll'
  <2>1. SUFFICES ASSUME NEW tx \in TxIDs PROVE Told(tx)'
    BY DEF ToldAll
  <2>2. Told(tx)
    BY <2>1, <1>1 DEF ToldAll
  <2>3. CASE tx = t
    BY <1>2, <1>4, <1>5, <2>1, <2>2, <2>3 DEF Told, Unannounced, Announced, Telling
  <2>4. CASE tx # t
    BY <1>2, <1>5, <2>1, <2>2, <2>4 DEF Told, Unannounced, Announced, Telling
  <2> QED BY <2>3, <2>4
<1> QED BY <1>3, <1>5, <1>6 DEF NonceInv

\* The TTL monitor takes only nonces whose time has come.
LEMMA ExpireNonces ==
    ASSUME NonceInv, VPInv', NEW n \in Nonces, ExpireNonce(n)
    PROVE  NonceInv'
<1>1. /\ VPInv /\ TypeOK /\ SoundResponses /\ OneStarts /\ OneNonces /\ ToldAll
      /\ EventsInOrder /\ UsableAll
  BY DEF NonceInv, VPInv
<1>2. /\ UNCHANGED <<txProfile, claims, objects, now, events, req, fetched, expiry, consumed,
                     origin>>
      /\ nonces' = [nonces EXCEPT ![n] = None] /\ nonces[n].expireAt <= now
  BY DEF ExpireNonce, histVars
<1>3. QuietStep /\ SoundResponses'
  BY <1>1, <1>2, SameQuiet
<1>4. nonces'[n] = None /\ \A m \in Nonces \ {n} : nonces'[m] = nonces[m]
  BY <1>1, <1>2 DEF TypeOK
<1>5. \A m \in Nonces, tx \in TxIDs :
         /\ Bound(m, tx)' => Bound(m, tx) /\ nonces'[m] = nonces[m]
         /\ Bound(m, tx) => Bound(m, tx)' \/ m = n
  BY <1>4 DEF Bound
<1>6. now \in Nat /\ now' \in Nat /\ now <= now' /\ expiry \in [TxIDs -> Nat]
  BY <1>1, <1>2, VPAssumption DEF TypeOK
<1>7. ASSUME NEW tx \in TxIDs, Bound(n, tx) PROVE ~(now' < expiry[tx])
  <2>1. nonces[n].expireAt = expiry[tx]
    BY <1>1, <1>7 DEF UsableAll, Usable
  <2>2. expiry[tx] <= now /\ expiry[tx] \in Nat
    BY <1>2, <1>6, <2>1
  <2> QED BY <1>2, <1>6, <2>2
<1>8. OneStarts' /\ OneNonces' /\ ToldAll' /\ EventsInOrder'
  BY <1>1, <1>2, <1>3, <1>5, StartsKept, NoncesKept, ToldKept, OrderKept
<1>9. UsableAll'
  BY <1>1, <1>2, <1>3, <1>5, <1>6, <1>7, UsableShrinks DEF QuietStep, Quiet
<1> QED BY <1>3, <1>8, <1>9 DEF NonceInv

\* Time passes: fewer nonces have to be there.
LEMMA TickNonces ==
    ASSUME NonceInv, VPInv', Tick
    PROVE  NonceInv'
<1>1. /\ VPInv /\ TypeOK /\ SoundResponses /\ OneStarts /\ OneNonces /\ ToldAll
      /\ EventsInOrder /\ UsableAll
  BY DEF NonceInv, VPInv
<1>2. /\ UNCHANGED <<txProfile, claims, nonces, objects, events, req, fetched, expiry, consumed,
                     origin>>
      /\ now' \in Time
      /\ now < now'
  BY DEF Tick, histVars
<1>3. QuietStep /\ SoundResponses'
  BY <1>1, <1>2, SameQuiet
<1>4. \A m \in Nonces, tx \in TxIDs : Bound(m, tx)' <=> Bound(m, tx)
  BY <1>2, BoundKept
<1>5. now \in Nat /\ now' \in Nat /\ now <= now' /\ expiry \in [TxIDs -> Nat]
  BY <1>1, <1>2, VPAssumption DEF TypeOK
<1>6. OneStarts' /\ OneNonces' /\ ToldAll' /\ EventsInOrder'
  BY <1>1, <1>2, <1>3, <1>4, StartsKept, NoncesKept, ToldKept, OrderKept
<1>7. UsableAll'
  BY <1>1, <1>2, <1>3, <1>4, <1>5, UsableShrinks DEF QuietStep, Quiet
<1> QED BY <1>3, <1>6, <1>7 DEF NonceInv

-----------------------------------------------------------------------------
\* The inductive invariant: a transaction has one starting request, one nonce
\* and a history its events tell.
THEOREM NonceInvariance == Spec => []NonceInv
<1>1. Init => NonceInv
  BY NonceInit
<1>2. VPInv' /\ NonceInv /\ [Next]_vars => NonceInv'
  <2> SUFFICES ASSUME VPInv', NonceInv, [Next]_vars PROVE NonceInv'
    OBVIOUS
  <2>1. CASE UNCHANGED vars
    <3>1. UNCHANGED storeVars /\ UNCHANGED req /\ UNCHANGED <<fetched, expiry, origin, consumed>>
      BY <2>1 DEF vars, histVars
    <3>2. QuietStep /\ SoundResponses'
      BY <3>1, SameQuiet DEF NonceInv
    <3> QED BY <3>1, <3>2, QuietKeeps
  <2>2. ASSUME NEW p \in Procs,
               InitiateOidcInteraction(p) \/ CheckAuthorizationResponse(p) \/ Step(p) \/ Fail(p)
        PROVE  NonceInv'
    BY <2>2, InitiateNonces, ResponseNonces, CreateNonces, SetNonceNonces, SendInitiatedNonces,
       PublishObjectNonces, GetNonceNonces, VerifyNonces, StoreNonces, SendSucceededNonces,
       FailNonces DEF Step
  <2>3. ASSUME NEW tx \in TxIDs, RequestObjectByUuid(tx) PROVE NonceInv'
    BY <2>3, RequestObjectNonces
  <2>4. ASSUME NEW tx \in TxIDs, NEW org \in Orgs, RetrieveInteractionsClaim(org, tx)
        PROVE  NonceInv'
    BY <2>4, RetrieveNonces
  <2>5. ASSUME NEW n \in Nonces, ExpireNonce(n) PROVE NonceInv'
    BY <2>5, ExpireNonces
  <2> QED BY <2>1, <2>2, <2>3, <2>4, <2>5, TickNonces DEF Next
<1> QED BY <1>1, <1>2, VPInvariance, PTL DEF Spec

\* The claims that a verifier retrieves for a transaction were presented for the
\* nonce of that transaction's request object, however nonce values come up
\* again and responses mix request objects.
THEOREM ClaimsFromOwnPresentation == Spec => []OwnPresentation
<1>1. NonceInv => OwnPresentation
  BY DEF NonceInv, OneNonces, OneNonce, OwnPresentation
<1> QED BY <1>1, NonceInvariance, PTL

\* The events of every transaction are published in the order of the protocol,
\* "succeeded" once at most.
THEOREM EventsComeInOrder == Spec => []EventsInOrder
<1>1. NonceInv => EventsInOrder
  BY DEF NonceInv
<1> QED BY <1>1, NonceInvariance, PTL

\* Whoever is told that an interaction succeeded finds its claims.
THEOREM SuccessIsBackedByClaims == Spec => []SucceededMeansClaims
<1>1. NonceInv => SucceededMeansClaims
  <2> SUFFICES ASSUME NonceInv, NEW j \in DOMAIN events, events[j].type = "succeeded"
               PROVE  claims[events[j].tx] # None
    BY DEF SucceededMeansClaims
  <2>1. events \in Seq(Event) /\ ToldAll
    BY DEF NonceInv, VPInv, TypeOK
  <2>2. events[j] \in Event
    BY <2>1
  <2>3. events[j].tx \in TxIDs /\ events[j] = [type |-> "succeeded", tx |-> events[j].tx]
    BY <2>2 DEF Event
  <2>4. Has("succeeded", events[j].tx)
    BY <2>3 DEF Has
  <2> QED BY <2>1, <2>3, <2>4 DEF ToldAll, Told
<1> QED BY <1>1, NonceInvariance, PTL

\* A nonce in a published request object can be spent until it expires, whatever
\* nonces are drawn, expire or are spent for other transactions.
THEOREM PublishedNonceIsUsable == Spec => []NonceUsableInTime
<1>1. NonceInv => NonceUsableInTime
  <2> SUFFICES ASSUME NonceInv, NEW tx \in TxIDs, objects[tx] # None, tx \notin consumed,
                      now < expiry[tx]
               PROVE  nonces[objects[tx]] # None /\ nonces[objects[tx]].tx = tx
    BY DEF NonceUsableInTime
  <2>1. objects[tx] \in Nonces /\ Usable(tx)
    BY DEF NonceInv, VPInv, TypeOK, UsableAll
  <2> QED BY <2>1 DEF Usable, Bound
<1> QED BY <1>1, NonceInvariance, PTL

-----------------------------------------------------------------------------
\* What has been said of a transaction is the same on both levels.
LEMMA SaidIsHas == \A type, tx : Interaction!Said(type, tx) <=> Has(type, tx)
BY DEF Interaction!Said, Has

\* A new transaction is one nobody has heard of.
LEMMA CreateRefines ==
    ASSUME NonceInv, NEW p \in Procs, CreateTx(p)
    PROVE  Interaction!Next
<1>1. PICK tx \in TxIDs : txProfile[tx] = None /\ txProfile' = [txProfile EXCEPT ![tx] = req[p].profile]
  BY DEF CreateTx
<1>2. req[p].profile \in Profiles
  BY DEF NonceInv, VPInv, SoundRequests, Sound, CreateTx
<1>3. \A i \in DOMAIN events : events[i].tx # tx
  BY <1>1 DEF NonceInv, ToldAll, Told, Silent
<1>4. Interaction!Begin(tx)
  BY <1>1, <1>2, <1>3 DEF Interaction!Begin, CreateTx, histVars
<1> QED BY <1>4 DEF Interaction!Next

\* The first event of a transaction is the only one so far.
LEMMA InitiatedRefines ==
    ASSUME NonceInv, NEW p \in Procs, SendInitiated(p)
    PROVE  Interaction!Next
<1> DEFINE tx == req[p].tx
<1>1. tx \in TxIDs
  BY DEF NonceInv, VPInv, SoundRequests, Sound, SendInitiated
<1>2. Unannounced(req[p], tx) /\ Starting(req[p], tx)
  BY DEF SendInitiated, Unannounced, Starting
<1>3. txProfile[tx] # None
  BY <1>1, <1>2 DEF NonceInv, OneStarts, OneStart
<1>4. Silent(tx)
  BY <1>1, <1>2 DEF NonceInv, ToldAll, Told
<1>5. Interaction!Say("initiated", tx)
  BY DEF Interaction!Say, SendInitiated, Publish, histVars
<1>6. Interaction!Announce(tx)
  BY <1>3, <1>4, <1>5 DEF Interaction!Announce, Silent
<1> QED BY <1>1, <1>6 DEF Interaction!Next

\* The request object is published after the first event, and once.
LEMMA ObjectRefines ==
    ASSUME NonceInv, NEW p \in Procs, PublishObject(p)
    PROVE  Interaction!Next
<1> DEFINE tx == req[p].tx
<1>1. tx \in TxIDs /\ req[p].nonce \in Nonces
  BY DEF NonceInv, VPInv, SoundRequests, Sound, PublishObject
<1>2. Announced(req[p], tx) /\ Starting(req[p], tx)
  BY DEF PublishObject, Announced, Starting
<1>3. objects[tx] = None
  BY <1>1, <1>2 DEF NonceInv, OneStarts, OneStart
<1>4. Interaction!Said("initiated", tx)
  BY <1>1, <1>2, SaidIsHas DEF NonceInv, ToldAll, Told
<1>5. Interaction!Offer(tx)
  BY <1>1, <1>3, <1>4 DEF Interaction!Offer, PublishObject, histVars
<1> QED BY <1>1, <1>5 DEF Interaction!Next

\* Every read of a request object is a scan.
LEMMA ReadRefines ==
    ASSUME NEW tx \in TxIDs, RequestObjectByUuid(tx)
    PROVE  Interaction!Next
<1>1. Interaction!Scan(tx)
  BY DEF Interaction!Scan, Interaction!Say, RequestObjectByUuid, Publish
<1> QED BY <1>1 DEF Interaction!Next

\* Claims are stored once, for the nonce on offer, after a scan.
LEMMA StoreRefines ==
    ASSUME NonceInv, NEW p \in Procs, StoreReceivedClaims(p)
    PROVE  Interaction!Next
<1> DEFINE tx == req[p].tx
<1>1. tx \in TxIDs /\ req[p].claims \in Claims
  BY DEF NonceInv, VPInv, SoundRequests, Sound, StoreReceivedClaims
<1>2. SoundResponse(req[p]) /\ req[p].pc = "store"
  BY DEF NonceInv, SoundResponses, StoreReceivedClaims
<1>3. tx \in fetched /\ req[p].nonce \in Nonces /\ req[p].vpNonce = req[p].nonce
  BY <1>2 DEF SoundResponse
<1>4. objects[tx] # None
  BY <1>3 DEF NonceInv, VPInv, FetchedGood
<1>5. Carrying(req[p], tx, req[p].nonce) /\ Holds(p, tx)
  BY <1>2 DEF Carrying, Holds, Holding
<1>6. objects[tx] = req[p].vpNonce
  BY <1>1, <1>3, <1>4, <1>5 DEF NonceInv, OneNonces, OneNonce
<1>7. claims[tx] = None
  BY <1>1, <1>5 DEF NonceInv, VPInv, Tokens, OneToken
<1>8. Interaction!Said("qrScanned", tx)
  BY <1>1, <1>3, SaidIsHas DEF NonceInv, ToldAll, Told
<1>9. Interaction!Answer(tx)
  BY <1>1, <1>4, <1>6, <1>7, <1>8 DEF Interaction!Answer, StoreReceivedClaims
<1> QED BY <1>1, <1>9 DEF Interaction!Next

\* The last event follows the claims, and comes once.
LEMMA SucceededRefines ==
    ASSUME NonceInv, NEW p \in Procs, SendSucceeded(p)
    PROVE  Interaction!Next
<1> DEFINE tx == req[p].tx
<1>1. tx \in TxIDs
  BY DEF NonceInv, VPInv, SoundRequests, Sound, SendSucceeded
<1>2. Telling(req[p], tx)
  BY DEF SendSucceeded, Telling
<1>3. claims[tx] # None /\ ~Interaction!Said("succeeded", tx)
  BY <1>1, <1>2, SaidIsHas DEF NonceInv, ToldAll, Told
<1>4. Interaction!Say("succeeded", tx)
  BY DEF Interaction!Say, SendSucceeded, Publish, histVars
<1>5. Interaction!Report(tx)
  BY <1>3, <1>4 DEF Interaction!Report
<1> QED BY <1>1, <1>5 DEF Interaction!Next

\* Claims are retrieved for the owner's organization.
LEMMA RetrieveRefines ==
    ASSUME NEW tx \in TxIDs, NEW org \in Orgs, RetrieveInteractionsClaim(org, tx)
    PROVE  Interaction!Next
<1>1. Interaction!Retrieve(tx)
  BY DEF Interaction!Retrieve, RetrieveInteractionsClaim, storeVars
<1> QED BY <1>1 DEF Interaction!Next

\* The rest of the service's work is not seen from outside.
LEMMA HiddenSteps ==
    ASSUME NEW p \in Procs,
           \/ InitiateOidcInteraction(p) \/ CheckAuthorizationResponse(p) \/ SetNonce(p)
           \/ GetNonce(p) \/ VerifyPresentation(p) \/ Fail(p)
    PROVE  UNCHANGED Interaction!vars
<1>1. CASE InitiateOidcInteraction(p)
  BY <1>1 DEF InitiateOidcInteraction, storeVars, histVars, Interaction!vars
<1>2. CASE CheckAuthorizationResponse(p)
  BY <1>2 DEF CheckAuthorizationResponse, Respond, storeVars, histVars, Interaction!vars
<1>3. CASE SetNonce(p)
  BY <1>3 DEF SetNonce, Interaction!vars
<1>4. CASE GetNonce(p)
  BY <1>4 DEF GetNonce, Interaction!vars
<1>5. CASE VerifyPresentation(p)
  BY <1>5 DEF VerifyPresentation, storeVars, histVars, Interaction!vars
<1>6. CASE Fail(p)
  BY <1>6 DEF Fail, storeVars, histVars, Interaction!vars
<1> QED BY <1>1, <1>2, <1>3, <1>4, <1>5, <1>6

\* For any number of requests, transactions and nonce values, with calls failing
\* anywhere, the service implements the interactions of VPInteraction: every
\* step is one step of an interaction or is not seen from outside.
THEOREM ImplementsPromisedInteraction == Spec => ImplementsInteraction
<1>1. Init => Interaction!Init
  BY DEF Init, Interaction!Init
<1>2. NonceInv /\ [Next]_vars => [Interaction!Next]_(Interaction!vars)
  <2> SUFFICES ASSUME NonceInv, [Next]_vars PROVE Interaction!Next \/ UNCHANGED Interaction!vars
    OBVIOUS
  <2>1. CASE UNCHANGED vars
    BY <2>1 DEF vars, storeVars, histVars, Interaction!vars
  <2>2. ASSUME NEW p \in Procs,
               InitiateOidcInteraction(p) \/ CheckAuthorizationResponse(p) \/ Step(p) \/ Fail(p)
        PROVE  Interaction!Next \/ UNCHANGED Interaction!vars
    BY <2>2, HiddenSteps, CreateRefines, InitiatedRefines, ObjectRefines, StoreRefines,
       SucceededRefines DEF Step
  <2>3. ASSUME NEW tx \in TxIDs, RequestObjectByUuid(tx) PROVE Interaction!Next
    BY <2>3, ReadRefines
  <2>4. ASSUME NEW tx \in TxIDs, NEW org \in Orgs, RetrieveInteractionsClaim(org, tx)
        PROVE  Interaction!Next
    BY <2>4, RetrieveRefines
  <2>5. ASSUME NEW n \in Nonces, ExpireNonce(n) PROVE UNCHANGED Interaction!vars
    BY <2>5 DEF ExpireNonce, histVars, Interaction!vars
  <2>6. Tick => UNCHANGED Interaction!vars
    BY DEF Tick, histVars, Interaction!vars
  <2> QED BY <2>1, <2>2, <2>3, <2>4, <2>5, <2>6 DEF Next
<1> QED
  BY <1>1, <1>2, NonceInvariance, PTL DEF Spec, ImplementsInteraction, Interaction!Spec
=============================================================================
