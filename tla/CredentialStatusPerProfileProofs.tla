------------------- MODULE CredentialStatusPerProfileProofs -----------------
(***************************************************************************)
(* Proofs about SpecPerProfile: as long as no two requests of one profile  *)
(* overlap, the copy of the list a request works on is never stale, and    *)
(* with that the service hands out every entry once and keeps every        *)
(* acknowledged revocation, also when calls fail.                          *)
(***************************************************************************)
EXTENDS CredentialStatusProofs

\* The copy of the list that request p is about to write back is the stored
\* list with the change p makes, the index p took is nobody else's, and the
\* credential p reinstates is not one whose revocation counts.
Current(p) ==
    LET stored == csl[req[p].profile][req[p].list]
        slot == <<req[p].profile, req[p].list, req[p].idx>>
    IN /\ req[p].pc = "upsert"
             => \/ stored # None /\ req[p].wrap = stored
                \/ stored = None /\ req[p].wrap = FreshWrapper(req[p].list)
       /\ req[p].pc \in {"updateLatest", "putVC"}
             => /\ req[p].idx < stored.index
                /\ \A i \in DOMAIN vcs : Slot(i) # slot
       /\ req[p].pc = "upsertBits"
             => /\ stored # None
                /\ req[p].wrap.index = stored.index
                /\ req[p].status = "true" => req[p].wrap.bits = stored.bits \cup {req[p].idx}
                /\ req[p].status # "true" => req[p].wrap.bits = stored.bits \ {req[p].idx}
       /\ req[p].pc \in {"getList", "upsertBits", "ack"} /\ req[p].status # "true"
             => req[p].doc \notin acked
       /\ req[p].pc = "ack" /\ req[p].status = "true"
             => stored # None /\ req[p].idx \in stored.bits

\* Every index in use is below the next index of its list.
IndexesTaken == \A i \in DOMAIN vcs : vcs[i].idx < ListOf(i).index

\* Before the latest list identifier exists there is no list, and no request
\* that writes one.
LatestFirst ==
    latest = 0 =>
        /\ \A pr \in Profiles, l \in ListIDs : csl[pr][l] = None
        /\ \A p \in Procs : req[p].pc \notin {"getCSL", "upsert", "updateLatest",
                                              "putVC", "upsertBits"}

ExclInv ==
    /\ IndInv
    /\ LatestFirst
    /\ OneRequestPerProfile
    /\ \A p \in Procs : Current(p)
    /\ IndexesTaken
    /\ UniqueEntries
    /\ AckedRevocationHolds

-----------------------------------------------------------------------------
\* Stored credentials have a list that is in the store.
LEMMA DocType ==
    ASSUME IndInv, NEW i \in DOMAIN vcs
    PROVE  /\ vcs[i].profile \in Profiles
           /\ vcs[i].list \in ListIDs
           /\ vcs[i].idx \in Nat
           /\ csl[vcs[i].profile][vcs[i].list] \in Wrapper
           /\ i \in Nat
<1>1. vcs[i] \in Credential /\ i \in Nat
  BY DEF IndInv, TypeOK
<1>2. vcs[i].profile \in Profiles /\ vcs[i].list \in ListIDs /\ vcs[i].idx \in Nat
  BY <1>1 DEF Credential
<1>3. csl[vcs[i].profile][vcs[i].list] \in Wrapper \cup {None}
  BY <1>2 DEF IndInv, TypeOK
<1> QED
  BY <1>1, <1>2, <1>3 DEF IndInv, IssuedListExists, ListOf

\* A step by p writes only lists of p's profile, adds only credentials of p's
\* profile, and counts as revoked only the credential p loaded.
LEMMA ActorLocal ==
    ASSUME IndInv, NEW p \in Procs,
           StartIssue(p) \/ StartUpdate(p) \/ Step(p) \/ Fail(p)
    PROVE  /\ \A pr \in Profiles, l \in ListIDs :
                 csl'[pr][l] # csl[pr][l] => req[p].pc # "idle" /\ pr = req[p].profile
           /\ \A i \in DOMAIN vcs' :
                 \/ i \in DOMAIN vcs /\ vcs'[i] = vcs[i]
                 \/ req[p].pc # "idle" /\ vcs'[i].profile = req[p].profile
           /\ \A i \in acked' : i \in acked \/ (req[p].pc = "ack" /\ i = req[p].doc)
<1> USE DEF IndInv
<1>1. ASSUME NEW w, NEW l \in ListIDs, NEW pr \in Profiles,
             csl' = [csl EXCEPT ![pr][l] = w]
      PROVE  \A pr2 \in Profiles, l2 \in ListIDs : csl'[pr2][l2] # csl[pr2][l2] => pr2 = pr
  BY <1>1 DEF TypeOK
<1>2. CASE Upsert(p)
  <2>1. req[p] \in Request /\ req[p].list \in ListIDs
    BY <1>2, ReqType DEF Upsert, UpsertAs, ReqGood
  <2>2. csl' = [csl EXCEPT ![req[p].profile][req[p].list] = Bump(req[p].wrap)]
    BY <1>2 DEF Upsert, UpsertAs
  <2> QED BY <1>1, <1>2, <2>1, <2>2 DEF Upsert, UpsertAs, Request
<1>3. CASE UpsertBits(p)
  <2>1. req[p] \in Request /\ req[p].list \in ListIDs
    BY <1>3, ReqType DEF UpsertBits, ReqGood
  <2> QED BY <1>1, <1>3, <2>1 DEF UpsertBits, Request
<1>4. CASE PutVC(p)
  <2>1. req[p].list \in ListIDs
    BY <1>4 DEF PutVC, ReqGood
  <2> QED BY <1>4, <2>1, PutVCAppends DEF PutVC
<1> QED
  BY <1>2, <1>3, <1>4 DEF Step, StartIssue, StartUpdate, GetLatestListID,
      CreateLatestListID, GetCSLWrapper, UpdateLatestListID,
      Reply, GetVC, GetList, GetListAs, Ack, Fail

\* A request that p's step leaves alone keeps a current copy.
LEMMA OthersCurrent ==
    ASSUME ExclInv, NEW p \in Procs, NEW q \in Procs \ {p},
           StartIssue(p) \/ StartUpdate(p) \/ Step(p) \/ Fail(p),
           req'[q] = req[q]
    PROVE  Current(q)'
<1> USE DEF ExclInv
<1>1. CASE req[q].pc = "idle"
  BY <1>1 DEF Current
<1>2. CASE req[q].pc # "idle"
  <2>1. req[q] \in Request
    BY <1>2, ReqType DEF IndInv
  <2>2. req[p].pc # "idle" => req[p] \in Request /\ req[p].profile # req[q].profile
    BY <1>2, <2>1, ReqType DEF IndInv, OneRequestPerProfile, Idle, NewRequest
  <2>3. ReqGood(q) /\ Current(q)
    BY DEF IndInv
  <2>4. req[q].pc \in {"upsert", "updateLatest", "putVC", "upsertBits"}
            => req[q].list \in ListIDs
    BY <2>3 DEF ReqGood
  <2>5. req[q].list \in ListIDs
            => csl'[req[q].profile][req[q].list] = csl[req[q].profile][req[q].list]
    BY <2>1, <2>2, ActorLocal DEF Request
  <2>6. \A i \in DOMAIN vcs' :
            \/ i \in DOMAIN vcs /\ Slot(i)' = Slot(i)
            \/ Slot(i)' # <<req[q].profile, req[q].list, req[q].idx>>
    BY <2>1, <2>2, ActorLocal DEF Slot, Request
  <2>7. req[q].pc \in {"getList", "upsertBits", "ack"}
            => req[q].doc \in DOMAIN vcs /\ vcs[req[q].doc].profile = req[q].profile
                 /\ vcs[req[q].doc].list = req[q].list
    BY <2>3 DEF ReqGood, Slot
  <2>8. req[p].pc = "ack" => vcs[req[p].doc].profile = req[p].profile
    BY DEF IndInv, ReqGood, Slot
  <2>9. req[q].pc \in {"getList", "upsertBits", "ack"} /\ req[q].doc \notin acked
            => req[q].doc \notin acked'
    BY <2>2, <2>7, <2>8, ActorLocal
  <2>10. req[q].pc = "ack" => req[q].list \in ListIDs
    BY <2>7, DocType
  <2> QED
    BY <2>3, <2>4, <2>5, <2>6, <2>9, <2>10 DEF Current
<1> QED
  BY <1>1, <1>2

\* An idle request has nothing to keep current.
LEMMA IdleCurrent ==
    ASSUME NEW p \in Procs, req'[p].pc \in {"idle", "getLatest", "createLatest",
                                            "getCSL", "reply", "getVC"}
    PROVE  Current(p)'
BY DEF Current

\* The latest list identifier comes first, and stays.
LEMMA LatestFirstStep ==
    ASSUME ExclInv, NEW p \in Procs,
           StartIssue(p) \/ StartUpdate(p) \/ Step(p) \/ Fail(p)
    PROVE  LatestFirst'
<1> USE DEF ExclInv
<1>0. p \in DOMAIN req /\ req \in [Procs -> Request \cup {Idle}]
  BY DEF IndInv, TypeOK
<1>1. CASE StartIssue(p) \/ StartUpdate(p) \/ Reply(p) \/ Ack(p) \/ Fail(p)
  BY <1>0, <1>1 DEF StartIssue, StartUpdate, Reply, Ack, Fail, Finish, Idle, NewRequest,
      LatestFirst
<1>2. CASE GetLatestListID(p)
  <2>1. req[p] \in Request
    BY <1>2, ReqType DEF GetLatestListID, IndInv
  <2>2. CASE latest = 0 /\ req' = [req EXCEPT ![p].pc = "createLatest"]
    BY <1>0, <1>2, <2>1, <2>2 DEF GetLatestListID, LatestFirst, Request
  <2> QED BY <1>2, <2>2 DEF GetLatestListID, LatestFirst
<1>3. CASE CreateLatestListID(p)
  BY <1>3 DEF CreateLatestListID, LatestFirst
<1>4. CASE GetCSLWrapper(p) \/ Upsert(p) \/ PutVC(p) \/ UpsertBits(p)
  BY <1>4 DEF GetCSLWrapper, Upsert, UpsertAs, PutVC, UpsertBits, LatestFirst
<1>5. CASE UpdateLatestListID(p)
  <2>1. req[p] \in Request /\ req[p].wrap \in Wrapper
    BY <1>5, ReqType DEF UpdateLatestListID, ReqGood, Request, IndInv
  <2>2. latest' # 0
    BY <1>5, <2>1 DEF UpdateLatestListID, Wrapper, ListIDs
  <2> QED BY <2>2 DEF LatestFirst
<1>6. CASE GetVC(p)
  <2>1. req[p] \in Request
    BY <1>6, ReqType DEF GetVC, IndInv
  <2>2. \A q \in Procs \ {p} : req'[q] = req[q]
    BY <1>0, <1>6 DEF GetVC, Finish
  <2>3. req'[p].pc \in {"idle", "getList"}
    <3>1. CASE Finish(p)
      BY <1>0, <3>1 DEF Finish, Idle, NewRequest
    <3>2. ASSUME NEW i, req' = [req EXCEPT ![p].pc = "getList", ![p].doc = i,
                                          ![p].list = vcs[i].list,
                                          ![p].idx = vcs[i].idx]
          PROVE  req'[p].pc = "getList"
      BY <1>0, <2>1, <3>2 DEF Request
    <3> QED BY <1>6, <3>1, <3>2 DEF GetVC
  <2> QED BY <1>6, <2>2, <2>3 DEF GetVC, LatestFirst
<1>7. CASE GetList(p)
  <2>1. req[p].doc \in DOMAIN vcs
    BY <1>7 DEF GetList, GetListAs, IndInv, ReqGood
  <2>2. latest # 0
    BY <2>1, DocType, NoneAssumption DEF LatestFirst
  <2> QED BY <1>7, <2>2 DEF GetList, GetListAs, LatestFirst
<1> QED
  BY <1>1, <1>2, <1>3, <1>4, <1>5, <1>6, <1>7 DEF Step

\* The acting request has a current copy at its next call.
LEMMA ActorCurrent ==
    ASSUME ExclInv, NEW p \in Procs,
           StartIssue(p) \/ StartUpdate(p) \/ Step(p) \/ Fail(p)
    PROVE  Current(p)'
<1> USE DEF ExclInv
<1>0. p \in DOMAIN req /\ ReqGood(p) /\ Current(p)
  BY DEF IndInv, TypeOK
<1>1. CASE StartIssue(p) \/ StartUpdate(p)
  BY <1>0, <1>1, IdleCurrent DEF StartIssue, StartUpdate, NewRequest
<1>2. CASE Reply(p) \/ Ack(p) \/ Fail(p)
  BY <1>0, <1>2, IdleCurrent DEF Reply, Ack, Fail, Finish, Idle, NewRequest
<1>3. CASE GetLatestListID(p)
  <2>1. req[p] \in Request
    BY <1>3, ReqType DEF GetLatestListID, IndInv
  <2>2. CASE req' = [req EXCEPT ![p].pc = "createLatest"]
    BY <1>0, <2>1, <2>2, IdleCurrent DEF Request
  <2>3. CASE req' = [req EXCEPT ![p].pc = "getCSL", ![p].list = latest]
    BY <1>0, <2>1, <2>3, IdleCurrent DEF Request
  <2> QED BY <1>3, <2>2, <2>3 DEF GetLatestListID
<1>4. CASE CreateLatestListID(p)
  <2>1. req[p] \in Request
    BY <1>4, ReqType DEF CreateLatestListID, IndInv
  <2>2. CASE Finish(p)
    BY <1>0, <2>2, IdleCurrent DEF Finish, Idle, NewRequest
  <2>3. CASE latest = 0 /\ req' = [req EXCEPT ![p].pc = "upsert", ![p].list = 1,
                                             ![p].wrap = FreshWrapper(1)]
    <3>1. csl[req[p].profile][1] = None
      BY <2>1, <2>3, BoundAssumption DEF LatestFirst, Request, ListIDs
    <3>2. csl' = csl
      BY <1>4 DEF CreateLatestListID
    <3>3. /\ req'[p].pc = "upsert" /\ req'[p].list = 1
          /\ req'[p].wrap = FreshWrapper(1) /\ req'[p].profile = req[p].profile
      BY <1>0, <2>1, <2>3 DEF Request
    <3> QED BY <3>1, <3>2, <3>3 DEF Current
  <2> QED BY <1>4, <2>2, <2>3 DEF CreateLatestListID
<1>5. CASE GetCSLWrapper(p)
  <2>1. req[p] \in Request
    BY <1>5, ReqType DEF GetCSLWrapper, IndInv
  <2> DEFINE stored == csl[req[p].profile][req[p].list]
             w == IF stored # None THEN stored ELSE FreshWrapper(req[p].list)
  <2>2. /\ req'[p].pc = "upsert" /\ req'[p].list = req[p].list
        /\ req'[p].wrap = w /\ req'[p].profile = req[p].profile
    <3>1. req' = [req EXCEPT ![p].pc = "upsert", ![p].wrap = w]
      BY <1>5 DEF GetCSLWrapper
    <3> HIDE DEF w
    <3> QED BY <1>0, <2>1, <3>1 DEF Request
  <2>3. csl' = csl
    BY <1>5 DEF GetCSLWrapper
  <2> QED BY <2>2, <2>3 DEF Current
<1>6. CASE Upsert(p)
  <2>1. /\ req[p] \in Request
        /\ req[p].list \in ListIDs
        /\ req[p].wrap \in Wrapper
    BY <1>6, ReqType DEF Upsert, UpsertAs, ReqGood, Request, IndInv
  <2> DEFINE w2 == Bump(req[p].wrap)
             stored == csl[req[p].profile][req[p].list]
  <2>2. w2.index = req[p].wrap.index + 1 /\ req[p].wrap.index \in Nat
    BY <2>1, BumpType DEF Wrapper
  <2>3. ASSUME NEW i \in DOMAIN vcs
        PROVE  Slot(i) # <<req[p].profile, req[p].list, req[p].wrap.index>>
    <3>1. CASE stored # None /\ req[p].wrap = stored
      BY <3>1, <2>2, DocType DEF IndexesTaken, ListOf, Slot
    <3>2. CASE stored = None
      BY <3>2, DocType, NoneAssumption DEF Slot
    <3> QED BY <1>0, <1>6, <3>1, <3>2 DEF Current, Upsert, UpsertAs
  <2> HIDE DEF w2
  <2>4. UpsertAs(p, w2, req[p].list, ListSize)
    BY <1>6 DEF Upsert, w2
  <2>5. /\ req'[p].pc \in {"updateLatest", "putVC"}
        /\ req'[p].idx = req[p].wrap.index
        /\ req'[p].list = req[p].list
        /\ req'[p].profile = req[p].profile
    BY <1>0, <2>1, <2>4 DEF UpsertAs, Request
  <2>6. csl'[req[p].profile][req[p].list] = w2 /\ vcs' = vcs
    BY <2>1, <2>4 DEF UpsertAs, IndInv, TypeOK, Request
  <2> QED BY <2>2, <2>3, <2>5, <2>6 DEF Current, Slot
<1>7. CASE UpdateLatestListID(p)
  <2>1. req[p] \in Request
    BY <1>7, ReqType DEF UpdateLatestListID, IndInv
  <2>2. /\ req'[p].pc = "putVC" /\ req'[p].idx = req[p].idx
        /\ req'[p].list = req[p].list /\ req'[p].profile = req[p].profile
    BY <1>0, <1>7, <2>1 DEF UpdateLatestListID, Request
  <2> QED BY <1>0, <1>7, <2>2 DEF UpdateLatestListID, Current, Slot
<1>8. CASE PutVC(p)
  <2>1. req[p] \in Request
    BY <1>8, ReqType DEF PutVC, IndInv
  <2> QED BY <1>0, <1>8, <2>1, IdleCurrent DEF PutVC, Request
<1>9. CASE GetVC(p)
  <2>1. req[p] \in Request
    BY <1>9, ReqType DEF GetVC, IndInv
  <2>2. CASE Finish(p)
    BY <1>0, <2>2, IdleCurrent DEF Finish, Idle, NewRequest
  <2>3. ASSUME NEW i \in Matching(req[p].profile, req[p].cred),
               req' = [req EXCEPT ![p].pc = "getList", ![p].doc = i,
                                  ![p].list = vcs[i].list, ![p].idx = vcs[i].idx],
               req[p].status # "true" => acked' = acked \ {i}
        PROVE  Current(p)'
    <3>1. /\ req'[p].pc = "getList" /\ req'[p].doc = i
          /\ req'[p].status = req[p].status
      BY <1>0, <2>1, <2>3 DEF Request
    <3> QED BY <2>3, <3>1 DEF Current
  <2> QED BY <1>9, <2>2, <2>3 DEF GetVC
<1>10. CASE GetList(p)
  <2>1. /\ req[p] \in Request
        /\ req[p].list \in ListIDs
        /\ req[p].status # "true" => req[p].doc \notin acked
    BY <1>0, <1>10, ReqType DEF GetList, GetListAs, ReqGood, IndInv, Current
  <2> DEFINE w == csl[req[p].profile][req[p].list]
             w2 == [w EXCEPT !.bits = IF req[p].status = "true"
                                      THEN @ \cup {req[p].idx}
                                      ELSE @ \ {req[p].idx}]
  <2>2. CASE Finish(p)
    BY <1>0, <2>2, IdleCurrent DEF Finish, Idle, NewRequest
  <2>3. CASE w # None /\ req' = [req EXCEPT ![p].pc = "upsertBits", ![p].wrap = w2]
    <3>1. w \in Wrapper
      BY <2>1, <2>3 DEF IndInv, TypeOK, Request
    <3>2. /\ w2.index = w.index
          /\ req[p].status = "true" => w2.bits = w.bits \cup {req[p].idx}
          /\ req[p].status # "true" => w2.bits = w.bits \ {req[p].idx}
      BY <3>1 DEF Wrapper
    <3> HIDE DEF w2
    <3>3. csl' = csl /\ acked' = acked
      BY <1>10 DEF GetList, GetListAs
    <3>4. /\ req'[p].pc = "upsertBits"
          /\ req'[p].wrap = w2
          /\ req'[p].profile = req[p].profile
          /\ req'[p].list = req[p].list
          /\ req'[p].idx = req[p].idx
          /\ req'[p].doc = req[p].doc
          /\ req'[p].status = req[p].status
      BY <1>0, <2>1, <2>3 DEF Request
    <3>5. csl'[req'[p].profile][req'[p].list] = w
      BY <3>3, <3>4
    <3>6. w # None
      BY <2>3
    <3> HIDE DEF w
    <3> QED BY <2>1, <3>2, <3>3, <3>4, <3>5, <3>6 DEF Current
  <2> QED BY <1>10, <2>2, <2>3 DEF GetList, GetListAs
<1>11. CASE UpsertBits(p)
  <2>1. /\ req[p] \in Request
        /\ req[p].list \in ListIDs
        /\ req[p].wrap # None
        /\ req[p].status # "true" => req[p].doc \notin acked
        /\ req[p].status = "true" => req[p].idx \in req[p].wrap.bits
    BY <1>0, <1>11, ReqType DEF UpsertBits, ReqGood, IndInv, Current
  <2>2. /\ req'[p].pc = "ack"
        /\ req'[p].profile = req[p].profile
        /\ req'[p].list = req[p].list
        /\ req'[p].idx = req[p].idx
        /\ req'[p].doc = req[p].doc
        /\ req'[p].status = req[p].status
    BY <1>0, <1>11, <2>1 DEF UpsertBits, Request
  <2>3. csl'[req[p].profile][req[p].list] = req[p].wrap /\ acked' = acked
    BY <1>11, <2>1 DEF UpsertBits, IndInv, TypeOK, Request
  <2> QED BY <2>1, <2>2, <2>3 DEF Current
<1> QED
  BY <1>1, <1>2, <1>3, <1>4, <1>5, <1>6, <1>7, <1>8, <1>9, <1>10, <1>11 DEF Step

-----------------------------------------------------------------------------
\* A step keeps every taken index below the next index of its list.
LEMMA IndexesTakenStep ==
    ASSUME ExclInv, NEW p \in Procs,
           StartIssue(p) \/ StartUpdate(p) \/ Step(p) \/ Fail(p)
    PROVE  IndexesTaken'
<1> USE DEF ExclInv
<1>0. ReqGood(p) /\ Current(p)
  BY DEF IndInv
<1>1. CASE PutVC(p)
  <2>1. req[p].list \in ListIDs /\ req[p].idx < csl[req[p].profile][req[p].list].index
    BY <1>0, <1>1 DEF PutVC, ReqGood, Current
  <2>2. csl' = csl
    BY <1>1 DEF PutVC
  <2>3. ASSUME NEW i \in DOMAIN vcs'
        PROVE  vcs'[i].idx < csl'[vcs'[i].profile][vcs'[i].list].index
    <3>1. CASE i \in DOMAIN vcs
      BY <1>1, <2>1, <2>2, <3>1, PutVCAppends DEF IndexesTaken, ListOf, IndInv
    <3>2. CASE i = Len(vcs) + 1
      BY <1>1, <2>1, <2>2, <3>2, PutVCAppends DEF IndInv
    <3> QED BY <1>1, <2>1, <3>1, <3>2, PutVCAppends DEF IndInv
  <2> QED BY <2>3 DEF IndexesTaken, ListOf
<1>2. ASSUME NEW pr \in Profiles, NEW l \in ListIDs, NEW w,
             csl' = [csl EXCEPT ![pr][l] = w], vcs' = vcs, w.index \in Nat,
             csl[pr][l] # None => csl[pr][l].index <= w.index
      PROVE  IndexesTaken'
  <2>1. ASSUME NEW i \in DOMAIN vcs
        PROVE  vcs[i].idx < csl'[vcs[i].profile][vcs[i].list].index
    <3>1. /\ csl[vcs[i].profile][vcs[i].list] # None
          /\ csl[vcs[i].profile][vcs[i].list].index \in Nat
          /\ vcs[i].idx \in Nat
          /\ vcs[i].idx < csl[vcs[i].profile][vcs[i].list].index
      BY DocType, NoneAssumption DEF IndexesTaken, ListOf, Wrapper
    <3>2. CASE vcs[i].profile = pr /\ vcs[i].list = l
      <4>1. csl'[pr][l] = w
        BY <1>2 DEF IndInv, TypeOK
      <4> QED BY <1>2, <3>1, <3>2, <4>1
    <3>3. CASE ~(vcs[i].profile = pr /\ vcs[i].list = l)
      BY <1>2, <3>1, <3>3, DocType DEF IndInv, TypeOK
    <3> QED BY <3>2, <3>3
  <2> QED BY <1>2, <2>1 DEF IndexesTaken, ListOf
<1>3. CASE Upsert(p)
  <2>1. /\ req[p] \in Request
        /\ req[p].list \in ListIDs
        /\ req[p].wrap \in Wrapper
    BY <1>3, ReqType DEF Upsert, UpsertAs, ReqGood, Request, IndInv
  <2>2. /\ Bump(req[p].wrap).index = req[p].wrap.index + 1
        /\ req[p].wrap.index \in Nat
    BY <2>1, BumpType DEF Wrapper
  <2>3. csl[req[p].profile][req[p].list] # None
            => csl[req[p].profile][req[p].list].index = req[p].wrap.index
    BY <1>0, <1>3 DEF Current, Upsert, UpsertAs
  <2>4. csl' = [csl EXCEPT ![req[p].profile][req[p].list] = Bump(req[p].wrap)] /\ vcs' = vcs
    BY <1>3 DEF Upsert, UpsertAs
  <2>5. req[p].profile \in Profiles
    BY <2>1 DEF Request
  <2>6. /\ csl[req[p].profile][req[p].list] # None
              => csl[req[p].profile][req[p].list].index <= Bump(req[p].wrap).index
        /\ Bump(req[p].wrap).index \in Nat
    BY <2>2, <2>3
  <2> QED BY ONLY <1>2, <2>1, <2>4, <2>5, <2>6
<1>4. CASE UpsertBits(p)
  <2>1. /\ req[p] \in Request
        /\ req[p].list \in ListIDs
        /\ req[p].wrap \in Wrapper
    BY <1>4, ReqType DEF UpsertBits, ReqGood, Request, IndInv
  <2>2. csl[req[p].profile][req[p].list].index = req[p].wrap.index /\ req[p].wrap.index \in Nat
    BY <1>0, <1>4, <2>1 DEF Current, UpsertBits, Wrapper
  <2>3. csl' = [csl EXCEPT ![req[p].profile][req[p].list] = req[p].wrap] /\ vcs' = vcs
    BY <1>4 DEF UpsertBits
  <2>4. req[p].profile \in Profiles
    BY <2>1 DEF Request
  <2>5. csl[req[p].profile][req[p].list].index <= req[p].wrap.index
    BY <2>2
  <2> QED BY ONLY <1>2, <2>1, <2>2, <2>3, <2>4, <2>5
<1>5. ASSUME csl' = csl, vcs' = vcs PROVE IndexesTaken'
  BY <1>5 DEF IndexesTaken, ListOf
<1> QED
  BY <1>1, <1>3, <1>4, <1>5 DEF Step, StartIssue, StartUpdate, GetLatestListID,
      CreateLatestListID, GetCSLWrapper, UpdateLatestListID, Reply, GetVC, GetList,
      GetListAs, Ack, Fail

\* A step gives no entry to two credentials.
LEMMA UniqueEntriesStep ==
    ASSUME ExclInv, NEW p \in Procs,
           StartIssue(p) \/ StartUpdate(p) \/ Step(p) \/ Fail(p)
    PROVE  UniqueEntries'
<1> USE DEF ExclInv
<1>1. CASE PutVC(p)
  <2>1. /\ req[p].list \in ListIDs
        /\ \A i \in DOMAIN vcs : Slot(i) # <<req[p].profile, req[p].list, req[p].idx>>
    BY <1>1 DEF PutVC, ReqGood, Current, IndInv
  <2>2. \A i \in DOMAIN vcs : Slot(i)' = Slot(i)
    BY <1>1, <2>1, PutVCAppends DEF IndInv, Slot
  <2>3. \A i \in DOMAIN vcs' : i \notin DOMAIN vcs =>
            /\ i = Len(vcs) + 1
            /\ Slot(i)' = <<req[p].profile, req[p].list, req[p].idx>>
    BY <1>1, <2>1, PutVCAppends DEF IndInv, Slot
  <2> QED BY <2>1, <2>2, <2>3 DEF UniqueEntries
<1>2. ASSUME vcs' = vcs PROVE UniqueEntries'
  BY <1>2 DEF UniqueEntries, Slot
<1> QED
  BY <1>1, <1>2 DEF Step, StartIssue, StartUpdate, GetLatestListID, CreateLatestListID,
      GetCSLWrapper, Upsert, UpsertAs, UpdateLatestListID, Reply, GetVC, GetList,
      GetListAs, UpsertBits, Ack, Fail

\* A step loses no acknowledged revocation.
LEMMA AckedStep ==
    ASSUME ExclInv, NEW p \in Procs, Next,
           StartIssue(p) \/ StartUpdate(p) \/ Step(p) \/ Fail(p)
    PROVE  AckedRevocationHolds'
<1> USE DEF ExclInv
<1>0. ReqGood(p) /\ Current(p) /\ acked \subseteq DOMAIN vcs
  BY DEF IndInv, TypeOK
<1>1. ASSUME NEW i \in acked
      PROVE  /\ i \in DOMAIN vcs
             /\ vcs'[i] = vcs[i]
             /\ csl[vcs[i].profile][vcs[i].list] # None
             /\ csl'[vcs[i].profile][vcs[i].list] # None
             /\ vcs[i].idx \in csl[vcs[i].profile][vcs[i].list].bits
  BY <1>0, DocType, StepKeeps DEF AckedRevocationHolds, ListOf
<1>2. ASSUME acked' \subseteq acked,
             \A i \in acked' : vcs[i].idx \in csl'[vcs[i].profile][vcs[i].list].bits
      PROVE  AckedRevocationHolds'
  BY <1>1, <1>2 DEF AckedRevocationHolds, ListOf
<1>3. CASE Upsert(p)
  <2>1. /\ req[p] \in Request
        /\ req[p].list \in ListIDs
        /\ req[p].wrap \in Wrapper
    BY <1>3, ReqType DEF Upsert, UpsertAs, ReqGood, Request, IndInv
  <2>2. req[p].profile \in Profiles /\ Bump(req[p].wrap).bits = req[p].wrap.bits
    BY <2>1, BumpType DEF Request
  <2>3. csl' = [csl EXCEPT ![req[p].profile][req[p].list] = Bump(req[p].wrap)] /\ acked' = acked
    BY <1>3 DEF Upsert, UpsertAs
  <2>4. csl[req[p].profile][req[p].list] # None
            => csl[req[p].profile][req[p].list].bits = req[p].wrap.bits
    BY <1>0, <1>3 DEF Current, Upsert, UpsertAs
  <2>5. ASSUME NEW i \in acked
        PROVE  vcs[i].idx \in csl'[vcs[i].profile][vcs[i].list].bits
    <3>1. CASE vcs[i].profile = req[p].profile /\ vcs[i].list = req[p].list
      <4>1. csl'[req[p].profile][req[p].list] = Bump(req[p].wrap)
        BY <2>1, <2>2, <2>3 DEF IndInv, TypeOK
      <4> QED BY <1>1, <2>2, <2>4, <3>1, <4>1
    <3>2. CASE ~(vcs[i].profile = req[p].profile /\ vcs[i].list = req[p].list)
      <4>1. csl'[vcs[i].profile][vcs[i].list] = csl[vcs[i].profile][vcs[i].list]
        BY <1>1, <2>1, <2>2, <2>3, <3>2, DocType DEF IndInv, TypeOK
      <4> QED BY <1>1, <4>1
    <3> QED BY <3>1, <3>2
  <2> QED BY <1>2, <2>3, <2>5
<1>4. CASE UpsertBits(p)
  <2>1. /\ req[p] \in Request
        /\ req[p].list \in ListIDs
        /\ req[p].doc \in DOMAIN vcs
        /\ Slot(req[p].doc) = <<req[p].profile, req[p].list, req[p].idx>>
    BY <1>0, <1>4, ReqType DEF UpsertBits, ReqGood, IndInv
  <2>2. req[p].profile \in Profiles
    BY <2>1 DEF Request
  <2>3. csl' = [csl EXCEPT ![req[p].profile][req[p].list] = req[p].wrap] /\ acked' = acked
    BY <1>4 DEF UpsertBits
  <2>4. LET bits == csl[req[p].profile][req[p].list].bits
        IN /\ req[p].status = "true" => req[p].wrap.bits = bits \cup {req[p].idx}
           /\ req[p].status # "true" => /\ req[p].wrap.bits = bits \ {req[p].idx}
                                        /\ req[p].doc \notin acked
    BY <1>0, <1>4 DEF Current, UpsertBits
  <2>5. ASSUME NEW i \in acked
        PROVE  vcs[i].idx \in csl'[vcs[i].profile][vcs[i].list].bits
    <3>1. CASE vcs[i].profile = req[p].profile /\ vcs[i].list = req[p].list
      <4>1. csl'[req[p].profile][req[p].list] = req[p].wrap
        BY <2>1, <2>2, <2>3 DEF IndInv, TypeOK
      <4>2. vcs[i].idx = req[p].idx => i = req[p].doc
        BY <1>1, <2>1, <3>1 DEF UniqueEntries, Slot
      <4> QED BY <1>1, <2>4, <3>1, <4>1, <4>2
    <3>2. CASE ~(vcs[i].profile = req[p].profile /\ vcs[i].list = req[p].list)
      <4>1. csl'[vcs[i].profile][vcs[i].list] = csl[vcs[i].profile][vcs[i].list]
        BY <1>1, <2>1, <2>2, <2>3, <3>2, DocType DEF IndInv, TypeOK
      <4> QED BY <1>1, <4>1
    <3> QED BY <3>1, <3>2
  <2> QED BY <1>2, <2>3, <2>5
<1>5. CASE Ack(p)
  <2>1. csl' = csl /\ vcs' = vcs
    BY <1>5 DEF Ack
  <2>2. /\ req[p].doc \in DOMAIN vcs
        /\ Slot(req[p].doc) = <<req[p].profile, req[p].list, req[p].idx>>
    BY <1>0, <1>5 DEF Ack, ReqGood
  <2>3. req[p].status = "true"
            => /\ csl[req[p].profile][req[p].list] # None
               /\ req[p].idx \in csl[req[p].profile][req[p].list].bits
    BY <1>0, <1>5 DEF Ack, Current
  <2>4. \/ acked' = acked
        \/ req[p].status = "true" /\ acked' = acked \cup {req[p].doc}
    BY <1>5 DEF Ack
  <2>5. ASSUME NEW i \in acked'
        PROVE  /\ csl[vcs[i].profile][vcs[i].list] # None
               /\ vcs[i].idx \in csl[vcs[i].profile][vcs[i].list].bits
    BY <1>1, <2>2, <2>3, <2>4 DEF Slot
  <2> QED BY <2>1, <2>5 DEF AckedRevocationHolds, ListOf
<1>6. ASSUME csl' = csl, acked' \subseteq acked PROVE AckedRevocationHolds'
  BY <1>1, <1>2, <1>6
<1> QED
  BY <1>3, <1>4, <1>5, <1>6 DEF Step, StartIssue, StartUpdate, GetLatestListID,
      CreateLatestListID, GetCSLWrapper, UpdateLatestListID, PutVC, Reply, GetVC, GetList,
      GetListAs, Fail

\* Every step of SpecPerProfile preserves the inductive invariant.
LEMMA ExclInvStep ==
    ASSUME ExclInv, Next, OneRequestPerProfile'
    PROVE  ExclInv'
<1>1. PICK p \in Procs : StartIssue(p) \/ StartUpdate(p) \/ Step(p) \/ Fail(p)
  BY DEF Next, FaultFreeNext
<1>2. IndInv'
  BY IndInvStep DEF ExclInv
<1>3. \A q \in Procs \ {p} : req'[q] = req[q]
  BY <1>1 DEF ExclInv, IndInv, TypeOK, Step, StartIssue, StartUpdate, GetLatestListID,
      CreateLatestListID, GetCSLWrapper, Upsert, UpsertAs, UpdateLatestListID, PutVC,
      Reply, GetVC, GetList, GetListAs, UpsertBits, Ack, Fail, Finish
<1>4. \A q \in Procs : Current(q)'
  BY <1>1, <1>3, OthersCurrent, ActorCurrent
<1> QED
  BY <1>1, <1>2, <1>4, LatestFirstStep, IndexesTakenStep, UniqueEntriesStep, AckedStep
  DEF ExclInv

\* The invariant holds of an empty store.
LEMMA ExclInvInit == Init => ExclInv
<1> SUFFICES ASSUME Init PROVE ExclInv
  OBVIOUS
<1>1. \A p \in Procs : req[p] = Idle
  BY DEF Init
<1>2. \A p \in Procs : Current(p)
  <2>1. SUFFICES ASSUME NEW p \in Procs PROVE Current(p)
    OBVIOUS
  <2>2. req[p].pc = "idle"
    BY <1>1 DEF Idle, NewRequest
  <2> QED BY ONLY <2>2 DEF Current
<1>3. LatestFirst
  BY <1>1 DEF Init, LatestFirst, Idle, NewRequest
<1>4. DOMAIN vcs = {} /\ acked = {}
  BY DEF Init
<1>5. IndexesTaken /\ UniqueEntries /\ AckedRevocationHolds
  BY <1>4 DEF IndexesTaken, UniqueEntries, AckedRevocationHolds
<1>6. OneRequestPerProfile
  BY <1>1 DEF OneRequestPerProfile
<1> QED
  BY <1>2, <1>3, <1>5, <1>6, IndInvInit DEF ExclInv

\* A step that changes nothing keeps the invariant.
LEMMA ExclInvStutter == ExclInv /\ UNCHANGED vars => ExclInv'
<1> SUFFICES ASSUME ExclInv, UNCHANGED vars PROVE ExclInv'
  OBVIOUS
<1>1. IndInv'
  BY IndInvStutter DEF ExclInv
<1>2. \A p \in Procs : Current(p)'
  BY DEF ExclInv, vars, Current, Slot
<1> QED
  BY <1>1, <1>2 DEF ExclInv, vars, OneRequestPerProfile, LatestFirst, IndexesTaken,
      UniqueEntries, AckedRevocationHolds, ListOf, Slot

\* The inductive invariant for requests that do not overlap within a profile:
\* the copy CreateStatusID and UpdateVC write back is never stale.
THEOREM PerProfileInvariance == SpecPerProfile => []ExclInv
<1>1. ExclInv /\ [Next /\ OneRequestPerProfile']_vars => ExclInv'
  BY ExclInvStep, ExclInvStutter
<1> QED
  BY <1>1, ExclInvInit, PTL DEF SpecPerProfile

\* As long as no two requests of one profile overlap, no status list entry is
\* given to two credentials, whatever calls fail.
THEOREM EntriesAreUnique == SpecPerProfile => []UniqueEntries
<1>1. ExclInv => UniqueEntries
  BY DEF ExclInv
<1> QED
  BY <1>1, PerProfileInvariance, PTL

\* As long as no two requests of one profile overlap, an acknowledged
\* revocation stays visible until a request asks to reinstate the credential.
THEOREM AckedRevocationsHold == SpecPerProfile => []AckedRevocationHolds
<1>1. ExclInv => AckedRevocationHolds
  BY DEF ExclInv
<1> QED
  BY <1>1, PerProfileInvariance, PTL

\* As long as no two requests of one profile overlap, a credential nobody asked
\* to revoke does not read as revoked.
THEOREM OnlyRequestedRevocations == SpecPerProfile => []RevokedOnlyOnRequest
<1>1. ExclInv => RevokedOnlyOnRequest
  <2> SUFFICES ASSUME ExclInv, NEW i \in DOMAIN vcs, ListOf(i) # None,
                      vcs[i].idx \in ListOf(i).bits
               PROVE  i \in asked
    BY DEF RevokedOnlyOnRequest
  <2> USE DEF ExclInv
  <2>1. vcs[i].profile \in Profiles /\ vcs[i].list \in ListIDs
    BY DocType
  <2>2. <<vcs[i].profile, vcs[i].list, vcs[i].idx>> \in AskedSlots
    BY <2>1 DEF IndInv, StoredGood, GoodList, ListOf
  <2>3. PICK j \in asked : Slot(j) = Slot(i)
    BY <2>2 DEF AskedSlots, Slot
  <2>4. asked \subseteq DOMAIN vcs
    BY DEF IndInv, TypeOK
  <2> QED BY <2>3, <2>4 DEF UniqueEntries
<1> QED
  BY <1>1, PerProfileInvariance, PTL

-----------------------------------------------------------------------------
\* A stored credential appears as a registered entry that was free.
LEMMA PutVCRefines ==
    ASSUME ExclInv, NEW p \in Procs, PutVC(p)
    PROVE  Registry!Issue
<1> USE DEF ExclInv
<1> DEFINE s == <<req[p].profile, req[p].list, req[p].idx>>
<1>1. /\ req[p] \in Request
      /\ req[p].list \in ListIDs
      /\ \A i \in DOMAIN vcs : Slot(i) # s
  BY ReqType DEF PutVC, ReqGood, Current, IndInv
<1>2. s \in Profiles \X ListIDs \X Nat
  BY <1>1 DEF Request
<1>3. s \notin RevokedSlots
  <2>1. SUFFICES ASSUME s \in RevokedSlots PROVE FALSE
    OBVIOUS
  <2>2. /\ csl[req[p].profile][req[p].list] # None
        /\ req[p].idx \in csl[req[p].profile][req[p].list].bits
    BY <2>1 DEF RevokedSlots
  <2>3. s \in AskedSlots
    BY <1>1, <2>2 DEF IndInv, StoredGood, GoodList, Request
  <2> QED BY <1>1, <2>3 DEF AskedSlots, IndInv, TypeOK
<1>4. /\ DOMAIN vcs' = DOMAIN vcs \cup {Len(vcs) + 1}
      /\ Len(vcs) \in Nat
      /\ DOMAIN vcs = 1..Len(vcs)
      /\ \A i \in DOMAIN vcs : Slot(i)' = Slot(i)
      /\ \A i \in DOMAIN vcs' : i \notin DOMAIN vcs => i = Len(vcs) + 1 /\ Slot(i)' = s
  <2>1. vcs \in Seq(Credential)
    BY DEF IndInv, TypeOK
  <2>2. Len(vcs) \in Nat /\ DOMAIN vcs = 1..Len(vcs)
    BY <2>1
  <2>3. vcs' = Append(vcs, [profile |-> req[p].profile, cred |-> req[p].cred,
                            list |-> req[p].list, idx |-> req[p].idx])
    BY DEF PutVC
  <2>4. DOMAIN vcs' = DOMAIN vcs \cup {Len(vcs) + 1}
    BY <2>1, <2>2, <2>3
  <2>5. \A i \in DOMAIN vcs : vcs'[i] = vcs[i]
    BY <2>1, <2>2, <2>3
  <2>6. vcs'[Len(vcs) + 1] = [profile |-> req[p].profile, cred |-> req[p].cred,
                              list |-> req[p].list, idx |-> req[p].idx]
    BY <2>1, <2>2, <2>3
  <2>7. \A i \in DOMAIN vcs : Slot(i)' = Slot(i)
    BY <2>5 DEF Slot
  <2>8. \A i \in DOMAIN vcs' : i \notin DOMAIN vcs => i = Len(vcs) + 1 /\ Slot(i)' = s
    BY <2>4, <2>6 DEF Slot
  <2> QED BY <2>2, <2>4, <2>7, <2>8
<1> HIDE DEF s
<1>5. Entries' = Append(Entries, s)
  <2>1. Entries = [i \in 1..Len(vcs) |-> Slot(i)] /\ Len(Entries) = Len(vcs)
    BY <1>4 DEF Entries
  <2>2. Append(Entries, s) = [i \in 1..(Len(vcs) + 1) |->
                                 IF i = Len(vcs) + 1 THEN s ELSE Slot(i)]
    BY <1>4, <2>1
  <2>3. Entries' = [i \in DOMAIN vcs' |-> Slot(i)']
    BY DEF Entries
  <2> QED BY <1>4, <2>2, <2>3
<1>6. RevokedSlots' = RevokedSlots
  BY DEF PutVC, RevokedSlots
<1>7. \A n \in DOMAIN Entries : Entries[n] # s
  BY <1>1 DEF Entries
<1>8. Entries' # <<>> /\ Entries'[Len(Entries')] = s
  <2>1. Entries = [i \in 1..Len(vcs) |-> Slot(i)] /\ Len(vcs) \in Nat
    BY <1>4 DEF Entries
  <2> QED BY <1>5, <2>1
<1> QED
  BY <1>2, <1>3, <1>5, <1>6, <1>7, <1>8 DEF Registry!Issue

\* A write of the flags of a list sets the status of the credential the
\* request is about.
LEMMA UpsertBitsRefines ==
    ASSUME ExclInv, NEW p \in Procs, UpsertBits(p)
    PROVE  Registry!SetStatus
<1> USE DEF ExclInv
<1> DEFINE pr == req[p].profile
           l == req[p].list
           b == req[p].idx
           n == req[p].doc
<1>1. req[p].pc = "upsertBits" /\ ReqGood(p) /\ Current(p)
  BY DEF UpsertBits, IndInv
<1>2. /\ req[p] \in Request
      /\ l \in ListIDs
      /\ n \in DOMAIN vcs
      /\ Slot(n) = <<pr, l, b>>
      /\ req[p].wrap # None
      /\ req[p].wrap.bits \subseteq 0..(BitLen - 1)
  BY <1>1, ReqType DEF ReqGood, IndInv, GoodList
<1>3. pr \in Profiles
  BY <1>2 DEF Request
<1>4. csl' = [csl EXCEPT ![pr][l] = req[p].wrap] /\ UNCHANGED vcs
  BY DEF UpsertBits
<1>5. /\ csl[pr][l] # None
      /\ \/ req[p].wrap.bits = csl[pr][l].bits \cup {b}
         \/ req[p].wrap.bits = csl[pr][l].bits \ {b}
  BY <1>1 DEF Current
<1>6. csl'[pr][l] = req[p].wrap
  BY <1>2, <1>3, <1>4 DEF IndInv, TypeOK
<1>7. \A pr2 \in Profiles, l2 \in ListIDs :
          pr2 # pr \/ l2 # l => csl'[pr2][l2] = csl[pr2][l2]
  BY <1>2, <1>3, <1>4 DEF IndInv, TypeOK
<1> HIDE DEF pr, l, b, n
<1>8. CASE req[p].wrap.bits = csl[pr][l].bits \cup {b}
  <2>1. RevokedSlots' = RevokedSlots \cup {<<pr, l, b>>}
    BY <1>2, <1>3, <1>5, <1>6, <1>7, <1>8 DEF RevokedSlots
  <2> QED
    BY <1>2, <1>4, <2>1 DEF Registry!SetStatus, Entries, Slot
<1>9. CASE req[p].wrap.bits = csl[pr][l].bits \ {b}
  <2>1. RevokedSlots' = RevokedSlots \ {<<pr, l, b>>}
    BY <1>2, <1>3, <1>5, <1>6, <1>7, <1>9 DEF RevokedSlots
  <2> QED
    BY <1>2, <1>4, <2>1 DEF Registry!SetStatus, Entries, Slot
<1> QED
  BY <1>5, <1>8, <1>9

\* The write of CreateStatusID changes no status: the request's copy of the
\* list has the flags of the stored list.
LEMMA UpsertRefines ==
    ASSUME ExclInv, NEW p \in Procs, Upsert(p)
    PROVE  UNCHANGED <<Entries, RevokedSlots>>
<1> USE DEF ExclInv
<1> DEFINE pr == req[p].profile
           l == req[p].list
           w == Bump(req[p].wrap)
<1>1. req[p].pc = "upsert" /\ ReqGood(p) /\ Current(p)
  BY DEF Upsert, UpsertAs, IndInv
<1>2. req[p] \in Request /\ l \in ListIDs /\ req[p].wrap # None
  BY <1>1, ReqType DEF ReqGood, IndInv
<1>3. pr \in Profiles /\ req[p].wrap \in Wrapper
  BY <1>2 DEF Request
<1>4. csl' = [csl EXCEPT ![pr][l] = w] /\ UNCHANGED vcs
  BY DEF Upsert, UpsertAs
<1>5. w # None /\ w.bits = req[p].wrap.bits
  BY <1>3, BumpType, NoneAssumption
<1>6. \/ csl[pr][l] # None /\ w.bits = csl[pr][l].bits
      \/ csl[pr][l] = None /\ w.bits = {}
  BY <1>1, <1>5 DEF Current, FreshWrapper
<1>7. csl'[pr][l] = w
  BY <1>2, <1>3, <1>4 DEF IndInv, TypeOK
<1>8. \A pr2 \in Profiles, l2 \in ListIDs :
          pr2 # pr \/ l2 # l => csl'[pr2][l2] = csl[pr2][l2]
  BY <1>2, <1>3, <1>4 DEF IndInv, TypeOK
<1> HIDE DEF pr, l, w
<1>9. RevokedSlots' = RevokedSlots
  BY <1>2, <1>3, <1>5, <1>6, <1>7, <1>8 DEF RevokedSlots
<1> QED
  BY <1>4, <1>9 DEF Entries, Slot

\* Every step is a step of the registry or leaves it alone.
LEMMA StepRefines ==
    ASSUME ExclInv, Next
    PROVE  [Registry!Next]_(Registry!vars)
<1>1. PICK p \in Procs : StartIssue(p) \/ StartUpdate(p) \/ Step(p) \/ Fail(p)
  BY DEF Next, FaultFreeNext
<1>2. CASE PutVC(p)
  BY <1>2, PutVCRefines DEF Registry!Next
<1>3. CASE UpsertBits(p)
  BY <1>3, UpsertBitsRefines DEF Registry!Next
<1>4. CASE Upsert(p)
  BY <1>4, UpsertRefines DEF Registry!vars
<1>5. CASE UNCHANGED <<csl, vcs>>
  BY <1>5 DEF Registry!vars, Entries, RevokedSlots, Slot
<1> QED
  BY <1>1, <1>2, <1>3, <1>4, <1>5
  DEF Step, StartIssue, StartUpdate, GetLatestListID, CreateLatestListID, GetCSLWrapper,
      UpdateLatestListID, Reply, GetVC, GetList, GetListAs, Ack, Fail

\* As long as no two requests of one profile overlap, the service implements
\* the registry, whatever calls fail: a credential is given an entry that is
\* free and not revoked, and a status changes only by a request about the
\* credential that owns the entry.
THEOREM ImplementsPromise == SpecPerProfile => ImplementsRegistry
<1>1. Init => Registry!Init
  <2> SUFFICES ASSUME Init PROVE Registry!Init
    OBVIOUS
  <2>1. vcs = <<>> /\ \A pr \in Profiles, l \in ListIDs : csl[pr][l] = None
    BY DEF Init
  <2>2. Entries = <<>>
    BY <2>1 DEF Entries
  <2>3. RevokedSlots = {}
    BY <2>1 DEF RevokedSlots
  <2> QED BY <2>2, <2>3 DEF Registry!Init
<1>2. UNCHANGED vars => UNCHANGED Registry!vars
  BY DEF vars, Registry!vars, Entries, RevokedSlots, Slot
<1>3. ExclInv /\ [Next /\ OneRequestPerProfile']_vars => [Registry!Next]_(Registry!vars)
  BY <1>2, StepRefines
<1> QED
  BY <1>1, <1>3, PerProfileInvariance, PTL DEF SpecPerProfile, ImplementsRegistry, Registry!Spec
=============================================================================
