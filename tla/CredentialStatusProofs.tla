----------------------- MODULE CredentialStatusProofs -----------------------
(***************************************************************************)
(* Proofs about CredentialStatus, for every set of processes, profiles and *)
(* credential identifiers, every list size and every bound.                *)
(***************************************************************************)
EXTENDS CredentialStatus, TLAPS

\* The entries some request asked to revoke.
AskedSlots == {Slot(i) : i \in asked}

\* A wrapper that may be stored as list l of profile pr when the entries in A
\* were asked to be revoked.
GoodList(pr, l, w, A) ==
    /\ w.size = w.index
    /\ w.listID = l
    /\ w.bits \subseteq 0..(BitLen - 1)
    /\ \A b \in w.bits : <<pr, l, b>> \in A

StoredGood ==
    \A pr \in Profiles, l \in ListIDs :
        csl[pr][l] # None => GoodList(pr, l, csl[pr][l], AskedSlots)

\* What a request knows at the call it is about to make.
ReqGood(p) ==
    /\ req[p].pc \in {"getCSL", "upsert", "updateLatest", "putVC", "getList",
                      "upsertBits"}
          => req[p].list \in ListIDs
    /\ req[p].pc \in {"upsert", "updateLatest", "upsertBits"}
          => /\ req[p].wrap # None
             /\ GoodList(req[p].profile, req[p].list, req[p].wrap, AskedSlots)
    /\ req[p].pc \in {"updateLatest", "putVC"}
          => csl[req[p].profile][req[p].list] # None
    /\ req[p].pc \in {"getList", "upsertBits", "ack"}
          => /\ req[p].doc \in DOMAIN vcs
             /\ Slot(req[p].doc) = <<req[p].profile, req[p].list, req[p].idx>>
             /\ req[p].status = "true" => req[p].doc \in asked

\* The inductive invariant for requests that overlap in every way.
IndInv ==
    /\ TypeOK
    /\ StoredGood
    /\ IssuedListExists
    /\ \A p \in Procs : ReqGood(p)

-----------------------------------------------------------------------------
\* The requests and the documents the model works on have their types.
LEMMA ReqType ==
    ASSUME TypeOK, NEW p \in Procs, req[p].pc # "idle"
    PROVE  req[p] \in Request
BY DEF TypeOK, Idle, NewRequest

\* A list that createVC makes is a wrapper.
LEMMA FreshType ==
    ASSUME NEW l \in ListIDs
    PROVE  FreshWrapper(l) \in Wrapper
BY DEF FreshWrapper, Wrapper

\* CreateStatusID advances both counters and keeps the rest.
LEMMA BumpType ==
    ASSUME NEW w \in Wrapper
    PROVE  /\ Bump(w) \in Wrapper
           /\ Bump(w).size = w.size + 1
           /\ Bump(w).index = w.index + 1
           /\ Bump(w).listID = w.listID
           /\ Bump(w).bits = w.bits
BY DEF Bump, Wrapper

\* PutVC adds one document at the end and keeps the others.
LEMMA PutVCAppends ==
    ASSUME TypeOK, NEW p \in Procs, PutVC(p), req[p].list \in ListIDs
    PROVE  /\ vcs' \in Seq(Credential)
           /\ DOMAIN vcs' = DOMAIN vcs \cup {Len(vcs) + 1}
           /\ Len(vcs) + 1 \notin DOMAIN vcs
           /\ \A i \in DOMAIN vcs : vcs'[i] = vcs[i]
           /\ vcs'[Len(vcs) + 1].profile = req[p].profile
           /\ vcs'[Len(vcs) + 1].list = req[p].list
           /\ vcs'[Len(vcs) + 1].idx = req[p].idx
<1>1. req[p] \in Request
  BY ReqType DEF PutVC
<1> DEFINE d == [profile |-> req[p].profile, cred |-> req[p].cred,
                 list |-> req[p].list, idx |-> req[p].idx]
<1>2. d \in Credential
  BY <1>1 DEF Credential, Request
<1>3. vcs \in Seq(Credential) /\ vcs' = Append(vcs, d)
  BY DEF TypeOK, PutVC
<1>4. d.profile = req[p].profile /\ d.list = req[p].list /\ d.idx = req[p].idx
  OBVIOUS
<1> HIDE DEF d
<1>5. /\ vcs' \in Seq(Credential)
      /\ DOMAIN vcs' = DOMAIN vcs \cup {Len(vcs) + 1}
      /\ Len(vcs) + 1 \notin DOMAIN vcs
      /\ \A i \in DOMAIN vcs : vcs'[i] = vcs[i]
      /\ vcs'[Len(vcs) + 1] = d
  BY <1>2, <1>3
<1> QED
  BY <1>4, <1>5

-----------------------------------------------------------------------------
\* Type correctness of one step.
LEMMA TypeStep ==
    ASSUME IndInv, Next
    PROVE  TypeOK'
<1> USE DEF IndInv
<1>1. ASSUME NEW p \in Procs, StartIssue(p) PROVE TypeOK'
  <2>1. PICK pr \in Profiles, c \in Creds :
            req' = [req EXCEPT ![p] = NewRequest("getLatest", pr, c, "invalid")]
    BY <1>1 DEF StartIssue
  <2>2. NewRequest("getLatest", pr, c, "invalid") \in Request
    BY BoundAssumption DEF NewRequest, Request, IssuePC, Statuses
  <2>3. req' \in [Procs -> Request \cup {Idle}]
    BY <2>1, <2>2 DEF TypeOK
  <2> QED BY <1>1, <2>3, BoundAssumption DEF StartIssue, TypeOK
<1>2. ASSUME NEW p \in Procs, StartUpdate(p) PROVE TypeOK'
  <2>1. PICK pr \in Profiles, c \in Creds, st \in Statuses :
            req' = [req EXCEPT ![p] = NewRequest("getVC", pr, c, st)]
    BY <1>2 DEF StartUpdate
  <2>2. NewRequest("getVC", pr, c, st) \in Request
    BY BoundAssumption DEF NewRequest, Request, UpdatePC, Statuses
  <2>3. req' \in [Procs -> Request \cup {Idle}]
    BY <2>1, <2>2 DEF TypeOK
  <2> QED BY <1>2, <2>3 DEF StartUpdate, TypeOK
<1>3. ASSUME NEW p \in Procs, GetLatestListID(p) PROVE TypeOK'
  <2>1. req[p] \in Request
    BY <1>3, ReqType DEF GetLatestListID
  <2>2. req' \in [Procs -> Request \cup {Idle}]
    <3>1. CASE req' = [req EXCEPT ![p].pc = "createLatest"]
      BY <2>1, <3>1 DEF TypeOK, Request, IssuePC
    <3>2. CASE req' = [req EXCEPT ![p].pc = "getCSL", ![p].list = latest]
      BY <2>1, <3>2 DEF TypeOK, Request, IssuePC
    <3> QED BY <1>3, <3>1, <3>2 DEF GetLatestListID
  <2> QED BY <1>3, <2>2 DEF GetLatestListID, TypeOK
<1>4. ASSUME NEW p \in Procs, CreateLatestListID(p) PROVE TypeOK'
  <2>1. req[p] \in Request
    BY <1>4, ReqType DEF CreateLatestListID
  <2>2. 1 \in ListIDs
    BY BoundAssumption DEF ListIDs
  <2>3. FreshWrapper(1) \in Wrapper /\ 1 \in 0..MaxListID
    BY <2>2, FreshType, BoundAssumption
  <2>4. req' \in [Procs -> Request \cup {Idle}]
    BY <1>4, <2>1, <2>3 DEF CreateLatestListID, TypeOK, Request, IssuePC, Finish
  <2> QED BY <1>4, <2>3, <2>4 DEF CreateLatestListID, TypeOK
<1>5. ASSUME NEW p \in Procs, GetCSLWrapper(p) PROVE TypeOK'
  <2>1. req[p] \in Request /\ req[p].list \in ListIDs
    BY <1>5, ReqType DEF GetCSLWrapper, ReqGood
  <2>2. csl[req[p].profile][req[p].list] \in Wrapper \cup {None}
    BY <2>1 DEF TypeOK, Request
  <2> QED BY <1>5, <2>1, <2>2, FreshType
          DEF GetCSLWrapper, TypeOK, Request, IssuePC
<1>6. ASSUME NEW p \in Procs, Upsert(p) PROVE TypeOK'
  <2>1. /\ req[p] \in Request
        /\ req[p].list \in ListIDs
        /\ req[p].wrap \in Wrapper
    BY <1>6, ReqType DEF Upsert, UpsertAs, ReqGood, Request
  <2> DEFINE w2 == Bump(req[p].wrap)
  <2>2. w2 \in Wrapper
    BY <2>1, BumpType
  <2> HIDE DEF w2
  <2>3. UpsertAs(p, w2, req[p].list, ListSize)
    BY <1>6 DEF Upsert, w2
  <2>4. csl' \in [Profiles -> [ListIDs -> Wrapper \cup {None}]]
    BY <2>1, <2>2, <2>3 DEF UpsertAs, TypeOK, Request
  <2>5. req' \in [Procs -> Request \cup {Idle}]
    <3>1. req[p].wrap.index \in Nat
      BY <2>1 DEF Wrapper
    <3> QED BY <2>1, <2>2, <2>3, <3>1 DEF UpsertAs, TypeOK, Request, IssuePC
  <2> QED BY <2>3, <2>4, <2>5 DEF UpsertAs, TypeOK
<1>7. ASSUME NEW p \in Procs, UpdateLatestListID(p) PROVE TypeOK'
  <2>1. req[p] \in Request /\ req[p].wrap \in Wrapper
    BY <1>7, ReqType DEF UpdateLatestListID, ReqGood, Request
  <2>2. req[p].wrap.listID + 1 \in 0..MaxListID
    BY <1>7, <2>1, BoundAssumption DEF UpdateLatestListID, Wrapper, ListIDs
  <2> QED BY <1>7, <2>1, <2>2 DEF UpdateLatestListID, TypeOK, Request, IssuePC
<1>8. ASSUME NEW p \in Procs, PutVC(p) PROVE TypeOK'
  <2>1. req[p] \in Request /\ req[p].list \in ListIDs
    BY <1>8, ReqType DEF PutVC, ReqGood
  <2>2. vcs' \in Seq(Credential) /\ DOMAIN vcs \subseteq DOMAIN vcs'
    BY <1>8, <2>1, PutVCAppends
  <2> QED BY <1>8, <2>1, <2>2 DEF PutVC, TypeOK, Request, IssuePC
<1>9. ASSUME NEW p \in Procs, Reply(p) \/ Fail(p) PROVE TypeOK'
  BY <1>9 DEF Reply, Fail, TypeOK, Finish
<1>10. ASSUME NEW p \in Procs, GetVC(p) PROVE TypeOK'
  <2>1. req[p] \in Request
    BY <1>10, ReqType DEF GetVC
  <2>2. CASE Finish(p) /\ UNCHANGED <<asked, acked>>
    BY <1>10, <2>2 DEF GetVC, TypeOK, Finish
  <2>3. ASSUME NEW i \in Matching(req[p].profile, req[p].cred),
               req' = [req EXCEPT ![p].pc = "getList", ![p].doc = i,
                                  ![p].list = vcs[i].list, ![p].idx = vcs[i].idx],
               asked' = asked \cup {i} \/ asked' = asked,
               acked' = acked \/ acked' = acked \ {i}
        PROVE  TypeOK'
    <3>1. i \in DOMAIN vcs /\ i \in Nat /\ vcs[i] \in Credential
      BY DEF Matching, TypeOK
    <3>2. vcs[i].list \in 0..MaxListID /\ vcs[i].idx \in Nat
      BY <3>1, BoundAssumption DEF Credential, ListIDs
    <3>3. req' \in [Procs -> Request \cup {Idle}]
      BY <2>1, <2>3, <3>1, <3>2 DEF TypeOK, Request, UpdatePC
    <3> QED BY <1>10, <2>3, <3>1, <3>3 DEF GetVC, TypeOK
  <2> QED BY <1>10, <2>2, <2>3 DEF GetVC
<1>11. ASSUME NEW p \in Procs, GetList(p) PROVE TypeOK'
  <2>1. req[p] \in Request /\ req[p].list \in ListIDs
    BY <1>11, ReqType DEF GetList, GetListAs, ReqGood
  <2> DEFINE w == csl[req[p].profile][req[p].list]
             w2 == [w EXCEPT !.bits = IF req[p].status = "true"
                                      THEN @ \cup {req[p].idx}
                                      ELSE @ \ {req[p].idx}]
  <2>2. w \in Wrapper \cup {None}
    BY <2>1 DEF TypeOK, Request
  <2>3. CASE Finish(p)
    BY <1>11, <2>3 DEF GetList, GetListAs, TypeOK, Finish
  <2>4. CASE w # None /\ req' = [req EXCEPT ![p].pc = "upsertBits", ![p].wrap = w2]
    <3>1. w2 \in Wrapper
      BY <2>1, <2>2, <2>4 DEF Wrapper, Request
    <3> HIDE DEF w2
    <3> QED BY <1>11, <2>1, <2>4, <3>1
            DEF GetList, GetListAs, TypeOK, Request, UpdatePC
  <2> QED BY <1>11, <2>3, <2>4 DEF GetList, GetListAs
<1>12. ASSUME NEW p \in Procs, UpsertBits(p) PROVE TypeOK'
  <2>1. /\ req[p] \in Request
        /\ req[p].list \in ListIDs
        /\ req[p].wrap \in Wrapper
    BY <1>12, ReqType DEF UpsertBits, ReqGood, Request
  <2>2. csl' \in [Profiles -> [ListIDs -> Wrapper \cup {None}]]
    BY <1>12, <2>1 DEF UpsertBits, TypeOK, Request
  <2> QED BY <1>12, <2>1, <2>2 DEF UpsertBits, TypeOK, Request, UpdatePC
<1>13. ASSUME NEW p \in Procs, Ack(p) PROVE TypeOK'
  <2>1. req[p].doc \in DOMAIN vcs
    BY <1>13 DEF Ack, ReqGood
  <2> QED BY <1>13, <2>1 DEF Ack, TypeOK, Finish
<1> QED
  BY <1>1, <1>2, <1>3, <1>4, <1>5, <1>6, <1>7, <1>8, <1>9, <1>10, <1>11, <1>12, <1>13
  DEF Next, FaultFreeNext, Step

-----------------------------------------------------------------------------
\* No request is about to make a call when it is idle.
LEMMA IdleGood ==
    ASSUME NEW p \in Procs, req'[p] = Idle
    PROVE  ReqGood(p)'
BY DEF ReqGood, Idle, NewRequest

\* A list stays good when more entries are asked to be revoked.
LEMMA GoodListMonotone ==
    ASSUME NEW pr, NEW l, NEW w, NEW A, NEW B, GoodList(pr, l, w, A), A \subseteq B
    PROVE  GoodList(pr, l, w, B)
BY DEF GoodList

\* A step keeps the stored documents and what was asked, and removes no list.
LEMMA StepKeeps ==
    ASSUME IndInv, Next
    PROVE  /\ \A i \in DOMAIN vcs : i \in DOMAIN vcs' /\ vcs'[i] = vcs[i]
           /\ asked \subseteq asked'
           /\ AskedSlots \subseteq AskedSlots'
           /\ \A pr \in Profiles, l \in ListIDs :
                 csl[pr][l] # None => csl'[pr][l] # None
<1> USE DEF IndInv
<1>1. \A i \in DOMAIN vcs : i \in DOMAIN vcs' /\ vcs'[i] = vcs[i]
  <2>1. ASSUME NEW p \in Procs, PutVC(p)
        PROVE  \A i \in DOMAIN vcs : i \in DOMAIN vcs' /\ vcs'[i] = vcs[i]
    <3>1. req[p].list \in ListIDs
      BY <2>1 DEF PutVC, ReqGood
    <3> QED BY <2>1, <3>1, PutVCAppends
  <2> QED
    BY <2>1 DEF Next, FaultFreeNext, Step, StartIssue, StartUpdate, GetLatestListID,
        CreateLatestListID, GetCSLWrapper, Upsert, UpsertAs, UpdateLatestListID,
        Reply, GetVC, GetList, GetListAs, UpsertBits, Ack, Fail
<1>2. asked \subseteq asked'
  BY DEF Next, FaultFreeNext, Step, StartIssue, StartUpdate, GetLatestListID,
      CreateLatestListID, GetCSLWrapper, Upsert, UpsertAs, UpdateLatestListID, PutVC,
      Reply, GetVC, GetList, GetListAs, UpsertBits, Ack, Fail
<1>3. AskedSlots \subseteq AskedSlots'
  BY <1>1, <1>2 DEF AskedSlots, Slot, TypeOK
<1>4. ASSUME NEW pr \in Profiles, NEW l \in ListIDs, csl[pr][l] # None
      PROVE  csl'[pr][l] # None
  <2>1. ASSUME NEW p \in Procs, NEW w \in Wrapper,
               req[p].profile \in Profiles, req[p].list \in ListIDs,
               csl' = [csl EXCEPT ![req[p].profile][req[p].list] = w]
        PROVE  csl'[pr][l] # None
    BY <1>4, <2>1, NoneAssumption DEF TypeOK
  <2>2. ASSUME NEW p \in Procs, Upsert(p) PROVE csl'[pr][l] # None
    <3>1. /\ req[p] \in Request
          /\ req[p].list \in ListIDs
          /\ req[p].wrap \in Wrapper
      BY <2>2, ReqType DEF Upsert, UpsertAs, ReqGood, Request
    <3>2. Bump(req[p].wrap) \in Wrapper
      BY <3>1, BumpType
    <3> QED BY <2>1, <2>2, <3>1, <3>2 DEF Upsert, UpsertAs, Request
  <2>3. ASSUME NEW p \in Procs, UpsertBits(p) PROVE csl'[pr][l] # None
    <3>1. /\ req[p] \in Request
          /\ req[p].list \in ListIDs
          /\ req[p].wrap \in Wrapper
      BY <2>3, ReqType DEF UpsertBits, ReqGood, Request
    <3> QED BY <2>1, <2>3, <3>1 DEF UpsertBits, Request
  <2> QED
    BY <1>4, <2>2, <2>3 DEF Next, FaultFreeNext, Step, StartIssue, StartUpdate,
        GetLatestListID, CreateLatestListID, GetCSLWrapper, UpdateLatestListID, PutVC,
        Reply, GetVC, GetList, GetListAs, Ack, Fail
<1> QED
  BY <1>1, <1>2, <1>3, <1>4

\* The requests that a step leaves alone keep what they know.
LEMMA OthersKeep ==
    ASSUME IndInv, Next, NEW q \in Procs, req'[q] = req[q]
    PROVE  ReqGood(q)'
<1> USE DEF IndInv
<1>1. ReqGood(q)
  OBVIOUS
<1>2. CASE req[q].pc = "idle"
  BY <1>2 DEF ReqGood
<1>3. CASE req[q].pc # "idle"
  <2>1. req[q] \in Request
    BY <1>3, ReqType
  <2>2. req[q].pc \in {"upsert", "updateLatest", "upsertBits"}
          => GoodList(req[q].profile, req[q].list, req[q].wrap, AskedSlots')
    BY <1>1, StepKeeps, GoodListMonotone DEF ReqGood
  <2>3. req[q].pc \in {"updateLatest", "putVC"}
          => csl'[req[q].profile][req[q].list] # None
    BY <1>1, <2>1, StepKeeps DEF ReqGood, Request
  <2>4. req[q].pc \in {"getList", "upsertBits", "ack"}
          => /\ req[q].doc \in DOMAIN vcs'
             /\ Slot(req[q].doc)' = <<req[q].profile, req[q].list, req[q].idx>>
             /\ req[q].status = "true" => req[q].doc \in asked'
    BY <1>1, StepKeeps DEF ReqGood, Slot
  <2> QED
    BY <1>1, <2>2, <2>3, <2>4 DEF ReqGood
<1> QED
  BY <1>2, <1>3

-----------------------------------------------------------------------------
\* The acting request knows what it needs at its next call.
LEMMA ActorKnows ==
    ASSUME IndInv, Next, NEW p \in Procs,
           StartIssue(p) \/ StartUpdate(p) \/ Step(p) \/ Fail(p)
    PROVE  ReqGood(p)'
<1> USE DEF IndInv
<1>0. p \in DOMAIN req
  BY DEF TypeOK
<1>1. CASE StartIssue(p) \/ StartUpdate(p)
  BY <1>0, <1>1 DEF StartIssue, StartUpdate, NewRequest, ReqGood
<1>2. CASE GetLatestListID(p)
  <2>1. latest # 0 => latest \in ListIDs
    BY DEF TypeOK, ListIDs
  <2>2. req[p] \in Request
    BY <1>2, ReqType DEF GetLatestListID
  <2>3. CASE req' = [req EXCEPT ![p].pc = "createLatest"]
    BY <1>0, <2>2, <2>3 DEF ReqGood, Request
  <2>4. CASE latest # 0 /\ req' = [req EXCEPT ![p].pc = "getCSL", ![p].list = latest]
    <3>1. req'[p].pc = "getCSL" /\ req'[p].list = latest
      BY <1>0, <2>2, <2>4 DEF Request
    <3> QED BY <2>1, <2>4, <3>1 DEF ReqGood
  <2> QED BY <1>2, <2>3, <2>4 DEF GetLatestListID
<1>3. CASE CreateLatestListID(p)
  <2>1. CASE Finish(p)
    BY <1>0, <2>1, IdleGood DEF Finish
  <2>2. CASE req' = [req EXCEPT ![p].pc = "upsert", ![p].list = 1,
                                ![p].wrap = FreshWrapper(1)]
    <3>1. 1 \in ListIDs /\ FreshWrapper(1) # None
      BY FreshType, BoundAssumption, NoneAssumption DEF ListIDs
    <3>2. \A pr : GoodList(pr, 1, FreshWrapper(1), AskedSlots')
      BY DEF GoodList, FreshWrapper
    <3>3. req[p] \in Request
      BY <1>3, ReqType DEF CreateLatestListID
    <3> QED BY <1>0, <2>2, <3>1, <3>2, <3>3 DEF ReqGood, Request
  <2> QED BY <1>3, <2>1, <2>2 DEF CreateLatestListID
<1>4. CASE GetCSLWrapper(p)
  <2>1. req[p] \in Request /\ req[p].list \in ListIDs
    BY <1>4, ReqType DEF GetCSLWrapper, ReqGood
  <2> DEFINE stored == csl[req[p].profile][req[p].list]
             w == IF stored # None THEN stored ELSE FreshWrapper(req[p].list)
  <2>2. stored # None => GoodList(req[p].profile, req[p].list, stored, AskedSlots)
    BY <2>1 DEF StoredGood, Request
  <2>3. GoodList(req[p].profile, req[p].list, FreshWrapper(req[p].list), AskedSlots')
    BY DEF GoodList, FreshWrapper
  <2>4. GoodList(req[p].profile, req[p].list, w, AskedSlots') /\ w # None
    BY <2>1, <2>2, <2>3, StepKeeps, GoodListMonotone, FreshType, NoneAssumption
  <2>5. req' = [req EXCEPT ![p].pc = "upsert", ![p].wrap = w]
    BY <1>4 DEF GetCSLWrapper
  <2> HIDE DEF w
  <2> QED BY <1>0, <2>1, <2>4, <2>5 DEF ReqGood, Request
<1>5. CASE Upsert(p)
  <2>1. /\ req[p] \in Request
        /\ req[p].list \in ListIDs
        /\ req[p].wrap \in Wrapper
        /\ GoodList(req[p].profile, req[p].list, req[p].wrap, AskedSlots)
    BY <1>5, ReqType DEF Upsert, UpsertAs, ReqGood, Request
  <2> DEFINE w2 == Bump(req[p].wrap)
  <2>2. w2 \in Wrapper /\ GoodList(req[p].profile, req[p].list, w2, AskedSlots')
    <3>1. GoodList(req[p].profile, req[p].list, req[p].wrap, AskedSlots')
      BY <2>1, StepKeeps, GoodListMonotone
    <3> QED BY <2>1, <3>1, BumpType DEF GoodList
  <2> HIDE DEF w2
  <2>3. UpsertAs(p, w2, req[p].list, ListSize)
    BY <1>5 DEF Upsert, w2
  <2>4. csl'[req[p].profile][req[p].list] # None
    BY <2>1, <2>2, <2>3, NoneAssumption DEF UpsertAs, TypeOK, Request
  <2>5. /\ req'[p].pc \in {"updateLatest", "putVC"}
        /\ req'[p].wrap = w2
        /\ req'[p].list = req[p].list
        /\ req'[p].profile = req[p].profile
    BY <1>0, <2>1, <2>3 DEF UpsertAs, Request
  <2> QED BY <2>1, <2>2, <2>4, <2>5, NoneAssumption DEF ReqGood
<1>6. CASE UpdateLatestListID(p)
  <2>1. /\ req[p] \in Request
        /\ req[p].list \in ListIDs
        /\ csl[req[p].profile][req[p].list] # None
    BY <1>6, ReqType DEF UpdateLatestListID, ReqGood
  <2> QED BY <1>0, <1>6, <2>1 DEF UpdateLatestListID, ReqGood, Request
<1>7. CASE PutVC(p) \/ UpsertBits(p)
  <2>1. req[p] \in Request
    BY <1>7, ReqType DEF PutVC, UpsertBits
  <2>2. CASE PutVC(p)
    BY <1>0, <2>1, <2>2 DEF PutVC, ReqGood, Request
  <2>3. CASE UpsertBits(p)
    BY <1>0, <2>1, <2>3 DEF UpsertBits, ReqGood, Request, Slot
  <2> QED BY <1>7, <2>2, <2>3
<1>8. CASE Reply(p) \/ Ack(p) \/ Fail(p)
  BY <1>0, <1>8, IdleGood DEF Reply, Ack, Fail, Finish
<1>9. CASE GetVC(p)
  <2>1. CASE Finish(p)
    BY <1>0, <2>1, IdleGood DEF Finish
  <2>2. ASSUME NEW i \in Matching(req[p].profile, req[p].cred),
               req' = [req EXCEPT ![p].pc = "getList", ![p].doc = i,
                                  ![p].list = vcs[i].list, ![p].idx = vcs[i].idx],
               req[p].status = "true" => i \in asked'
        PROVE  ReqGood(p)'
    <3>1. req[p] \in Request
      BY <1>9, ReqType DEF GetVC
    <3>2. i \in DOMAIN vcs /\ vcs[i] \in Credential /\ vcs[i].profile = req[p].profile
      BY DEF Matching, TypeOK
    <3>3. vcs' = vcs
      BY <1>9 DEF GetVC
    <3> QED BY <1>0, <2>2, <3>1, <3>2, <3>3 DEF ReqGood, Request, Credential, Slot
  <2> QED BY <1>9, <2>1, <2>2 DEF GetVC
<1>10. CASE GetList(p)
  <2>1. /\ req[p] \in Request
        /\ req[p].list \in ListIDs
        /\ req[p].doc \in DOMAIN vcs
        /\ Slot(req[p].doc) = <<req[p].profile, req[p].list, req[p].idx>>
        /\ req[p].status = "true" => req[p].doc \in asked
    BY <1>10, ReqType DEF GetList, GetListAs, ReqGood
  <2> DEFINE w == csl[req[p].profile][req[p].list]
             w2 == [w EXCEPT !.bits = IF req[p].status = "true"
                                      THEN @ \cup {req[p].idx}
                                      ELSE @ \ {req[p].idx}]
  <2>2. CASE Finish(p)
    BY <1>0, <2>2, IdleGood DEF Finish
  <2>3. CASE /\ w # None
             /\ req[p].idx < BitLen
             /\ req' = [req EXCEPT ![p].pc = "upsertBits", ![p].wrap = w2]
    <3>1. w \in Wrapper /\ GoodList(req[p].profile, req[p].list, w, AskedSlots)
      BY <2>1, <2>3 DEF StoredGood, TypeOK, Request
    <3>2. req[p].status = "true"
              => <<req[p].profile, req[p].list, req[p].idx>> \in AskedSlots
      BY <2>1 DEF AskedSlots
    <3>3. req[p].idx \in 0..(BitLen - 1)
      BY <2>1, <2>3, SizeAssumption DEF Request
    <3>4. w2 \in Wrapper
      BY <2>1, <3>1 DEF Wrapper, Request
    <3>5. GoodList(req[p].profile, req[p].list, w2, AskedSlots)
      BY <3>1, <3>2, <3>3 DEF GoodList, Wrapper
    <3> HIDE DEF w2
    <3>6. vcs' = vcs /\ asked' = asked /\ AskedSlots' = AskedSlots
      BY <1>10 DEF GetList, GetListAs, AskedSlots, Slot
    <3>7. /\ req'[p].pc = "upsertBits"
          /\ req'[p].wrap = w2
          /\ req'[p].profile = req[p].profile
          /\ req'[p].list = req[p].list
          /\ req'[p].idx = req[p].idx
          /\ req'[p].doc = req[p].doc
          /\ req'[p].status = req[p].status
      BY <1>0, <2>1, <2>3 DEF Request
    <3> QED BY <2>1, <3>4, <3>5, <3>6, <3>7, NoneAssumption DEF ReqGood, Slot
  <2> QED BY <1>10, <2>2, <2>3 DEF GetList, GetListAs
<1> QED
  BY <1>1, <1>2, <1>3, <1>4, <1>5, <1>6, <1>7, <1>8, <1>9, <1>10 DEF Step

\* Every step preserves the inductive invariant.
LEMMA IndInvStep ==
    ASSUME IndInv, Next
    PROVE  IndInv'
<1> USE DEF IndInv
<1>1. TypeOK'
  BY TypeStep
<1>2. \A q \in Procs : ReqGood(q)'
  <2>1. PICK p \in Procs : StartIssue(p) \/ StartUpdate(p) \/ Step(p) \/ Fail(p)
    BY DEF Next, FaultFreeNext
  <2>2. \A q \in Procs \ {p} : req'[q] = req[q]
    BY <2>1 DEF TypeOK, Step, StartIssue, StartUpdate, GetLatestListID,
        CreateLatestListID, GetCSLWrapper, Upsert, UpsertAs, UpdateLatestListID, PutVC,
        Reply, GetVC, GetList, GetListAs, UpsertBits, Ack, Fail, Finish
  <2>3. ReqGood(p)'
    BY <2>1, ActorKnows
  <2> QED BY <2>2, <2>3, OthersKeep
<1>3. IssuedListExists'
  <2>1. ASSUME NEW p \in Procs, PutVC(p) PROVE IssuedListExists'
    <3>1. /\ req[p] \in Request
          /\ req[p].list \in ListIDs
          /\ csl[req[p].profile][req[p].list] # None
      BY <2>1, ReqType DEF PutVC, ReqGood
    <3>2. csl' = csl
      BY <2>1 DEF PutVC
    <3>3. ASSUME NEW i \in DOMAIN vcs'
          PROVE  csl'[vcs'[i].profile][vcs'[i].list] # None
      <4>1. CASE i \in DOMAIN vcs
        BY <2>1, <3>1, <3>2, <4>1, PutVCAppends DEF IssuedListExists, ListOf
      <4>2. CASE i = Len(vcs) + 1
        BY <2>1, <3>1, <3>2, <4>2, PutVCAppends
      <4> QED BY <2>1, <3>1, <4>1, <4>2, PutVCAppends
    <3> QED BY <3>3 DEF IssuedListExists, ListOf
  <2>2. ASSUME vcs' = vcs PROVE IssuedListExists'
    <3>1. \A i \in DOMAIN vcs : vcs[i].profile \in Profiles /\ vcs[i].list \in ListIDs
      <4>1. \A i \in DOMAIN vcs : vcs[i] \in Credential
        BY DEF TypeOK
      <4> QED BY <4>1 DEF Credential
    <3> QED BY <2>2, <3>1, StepKeeps DEF IssuedListExists, ListOf
  <2> QED
    BY <2>1, <2>2 DEF Next, FaultFreeNext, Step, StartIssue, StartUpdate,
        GetLatestListID, CreateLatestListID, GetCSLWrapper, Upsert, UpsertAs,
        UpdateLatestListID, Reply, GetVC, GetList, GetListAs, UpsertBits, Ack, Fail
<1>4. StoredGood'
  <2>1. ASSUME NEW p \in Procs, NEW w,
               req[p].profile \in Profiles, req[p].list \in ListIDs,
               GoodList(req[p].profile, req[p].list, w, AskedSlots'),
               csl' = [csl EXCEPT ![req[p].profile][req[p].list] = w]
        PROVE  StoredGood'
    BY <2>1, StepKeeps, GoodListMonotone DEF StoredGood, TypeOK
  <2>2. ASSUME NEW p \in Procs, Upsert(p) PROVE StoredGood'
    <3>1. /\ req[p] \in Request
          /\ req[p].list \in ListIDs
          /\ req[p].wrap \in Wrapper
          /\ GoodList(req[p].profile, req[p].list, req[p].wrap, AskedSlots)
      BY <2>2, ReqType DEF Upsert, UpsertAs, ReqGood, Request
    <3>2. GoodList(req[p].profile, req[p].list, req[p].wrap, AskedSlots')
      BY <3>1, StepKeeps, GoodListMonotone
    <3>3. GoodList(req[p].profile, req[p].list, Bump(req[p].wrap), AskedSlots')
      BY <3>1, <3>2, BumpType DEF GoodList
    <3> QED BY <2>1, <2>2, <3>1, <3>3 DEF Upsert, UpsertAs, Request
  <2>3. ASSUME NEW p \in Procs, UpsertBits(p) PROVE StoredGood'
    <3>1. /\ req[p] \in Request
          /\ req[p].list \in ListIDs
          /\ GoodList(req[p].profile, req[p].list, req[p].wrap, AskedSlots)
      BY <2>3, ReqType DEF UpsertBits, ReqGood
    <3>2. GoodList(req[p].profile, req[p].list, req[p].wrap, AskedSlots')
      BY <3>1, StepKeeps, GoodListMonotone
    <3> QED BY <2>1, <2>3, <3>1, <3>2 DEF UpsertBits, Request
  <2>4. ASSUME csl' = csl PROVE StoredGood'
    BY <2>4, StepKeeps, GoodListMonotone DEF StoredGood
  <2> QED
    BY <2>2, <2>3, <2>4 DEF Next, FaultFreeNext, Step, StartIssue, StartUpdate,
        GetLatestListID, CreateLatestListID, GetCSLWrapper, UpdateLatestListID, PutVC,
        Reply, GetVC, GetList, GetListAs, Ack, Fail
<1> QED
  BY <1>1, <1>2, <1>3, <1>4

\* The invariant holds of an empty store.
LEMMA IndInvInit == Init => IndInv
<1> SUFFICES ASSUME Init PROVE IndInv
  OBVIOUS
<1>1. TypeOK
  BY BoundAssumption DEF Init, TypeOK
<1>2. \A p \in Procs : ReqGood(p)
  BY DEF Init, ReqGood, Idle, NewRequest
<1> QED
  BY <1>1, <1>2 DEF Init, IndInv, StoredGood, IssuedListExists

\* A step that changes nothing keeps the invariant.
LEMMA IndInvStutter == IndInv /\ UNCHANGED vars => IndInv'
BY DEF IndInv, vars, TypeOK, StoredGood, IssuedListExists, ReqGood, ListOf, Slot,
       AskedSlots, GoodList

\* Every state the service can reach, whatever requests overlap and whatever
\* calls fail, satisfies the inductive invariant.
THEOREM Invariance == Spec => []IndInv
<1>1. IndInv /\ [Next]_vars => IndInv'
  BY IndInvStep, IndInvStutter
<1> QED
  BY <1>1, IndInvInit, PTL DEF Spec

\* The documents and the requests always have their types.
THEOREM TypeCorrectness == Spec => []TypeOK
<1>1. IndInv => TypeOK
  BY DEF IndInv
<1> QED
  BY <1>1, Invariance, PTL

\* The status list a stored credential names is always in the store, so a
\* verifier can always resolve it, and the stored lists keep equal counters,
\* their own identifier and a bit string in range.
THEOREM StatusListsStaySound == Spec => []StatusListsSound
<1>1. IndInv => IssuedListExists
  BY DEF IndInv
<1>2. IndInv => StoredListsConsistent
  BY DEF IndInv, StoredGood, GoodList, StoredListsConsistent
<1>3. IndInv => StatusListsSound
  BY <1>1, <1>2 DEF StatusListsSound
<1> QED
  BY <1>3, Invariance, PTL

\* A bit is set only for an entry whose credential some request asked to
\* revoke.
THEOREM NoSpuriousBits == Spec => []NoBitWithoutRequest
<1>1. IndInv => NoBitWithoutRequest
  BY DEF IndInv, StoredGood, GoodList, AskedSlots, NoBitWithoutRequest
<1> QED
  BY <1>1, Invariance, PTL
=============================================================================
