-------------------------- MODULE CredentialStatus --------------------------
(***************************************************************************)
(* Credential status lists of the issuer (StatusList2021).                 *)
(*                                                                         *)
(* Every issued credential is given an entry (list, index) of a status     *)
(* list of its issuer profile; revoking the credential sets the bit of its *)
(* entry.  The lists and the identifier of the latest list are documents   *)
(* of one MongoDB collection that all REST requests, of all replicas of    *)
(* the server, read and write with single-document calls: there is no      *)
(* lock, transaction or version check.  One action below is one such call  *)
(* with the local computation around it; a process is the goroutine that   *)
(* serves one request, from the REST controller down to the stores.        *)
(***************************************************************************)
EXTENDS Naturals, Sequences

CONSTANTS
    Procs,      \* goroutines that serve requests
    Faulty,     \* those whose requests may end early
    Profiles,   \* issuer profiles; a profile has a status URL and a name
    Creds,      \* credential identifiers, chosen by the API's clients
    ListSize,   \* entries of a list before the next one is started
    BitLen,     \* positions of the encoded bit string of a list
    MaxListID,  \* bound of the model: largest list identifier
    MaxIssues,  \* bound of the model: issuance requests that may start
    None        \* no document, no value

ASSUME SizeAssumption ==
    /\ ListSize \in Nat \ {0}
    /\ BitLen \in Nat
    /\ BitLen >= ListSize

ASSUME FaultAssumption == Faulty \subseteq Procs

ASSUME BoundAssumption ==
    /\ MaxListID \in Nat \ {0}
    /\ MaxIssues \in Nat

ListIDs == 1..MaxListID

\* credentialstatus.CSLWrapper; bits is the set of positions set in the
\* encoded list of the list credential, its VC.ID is (profile, listID).
Wrapper == [size : Nat, index : Nat, listID : ListIDs, bits : SUBSET Nat]

ASSUME NoneAssumption ==
    /\ None \notin Profiles
    /\ None \notin Wrapper

VARIABLES
    latest,  \* the latestListID document, 0 when there is none
    csl,     \* csl[profile][listID]: the stored list, or None
    vcs,     \* the vcstore collection, in the order of the inserts
    req,     \* the request each process is serving
    issues,  \* issuance requests started so far (bounds the model)
    asked,   \* history: documents of vcs some request asked to revoke
    acked    \* history: documents of vcs whose revocation was acknowledged
             \* and that no later request asked to reinstate

vars == <<latest, csl, vcs, req, issues, asked, acked>>

IssuePC == {"getLatest", "createLatest", "getCSL", "upsert", "updateLatest",
            "putVC", "reply"}
UpdatePC == {"getVC", "getList", "upsertBits", "ack"}
Statuses == {"true", "false", "invalid"}

\* The locals of a request: the call it makes next, its arguments, the
\* document of vcs it loaded, the VC.ID (list) and index it works on, and
\* its copy of the wrapper.
Request == [pc : IssuePC \cup UpdatePC, profile : Profiles, cred : Creds,
            status : Statuses, doc : Nat, list : 0..MaxListID, idx : Nat,
            wrap : Wrapper \cup {None}]

NewRequest(pc, pr, c, st) ==
    [pc |-> pc, profile |-> pr, cred |-> c, status |-> st,
     doc |-> 0, list |-> 0, idx |-> 0, wrap |-> None]

Idle == NewRequest("idle", None, None, "invalid")

Credential == [profile : Profiles, cred : Creds, list : ListIDs, idx : Nat]

TypeOK ==
    /\ latest \in 0..MaxListID
    /\ csl \in [Profiles -> [ListIDs -> Wrapper \cup {None}]]
    /\ vcs \in Seq(Credential)
    /\ req \in [Procs -> Request \cup {Idle}]
    /\ issues \in 0..MaxIssues
    /\ asked \subseteq DOMAIN vcs
    /\ acked \subseteq DOMAIN vcs

Init ==
    /\ latest = 0
    /\ csl = [pr \in Profiles |-> [l \in ListIDs |-> None]]
    /\ vcs = <<>>
    /\ req = [p \in Procs |-> Idle]
    /\ issues = 0
    /\ asked = {}
    /\ acked = {}

-----------------------------------------------------------------------------
\* Mutant of FreshWrapper: the literal leaves ListID at its zero value.
FreshWrapperNoListID(id) == [size |-> 0, index |-> 0, listID |-> 0, bits |-> {}]

\* createVC and the wrapper built around it: an empty list.
FreshWrapper(id) == [size |-> 0, index |-> 0, listID |-> id, bits |-> {}]

\* The entry whose bit says whether document i of vcs is revoked, and its list.
Slot(i) == <<vcs[i].profile, vcs[i].list, vcs[i].idx>>

ListOf(i) == csl[vcs[i].profile][vcs[i].list]

Finish(p) == req' = [req EXCEPT ![p] = Idle]

-----------------------------------------------------------------------------
\* POST /issuer/profiles/{profileID}/credentials/issue, up to CreateStatusID.
StartIssue(p) ==
    /\ req[p] = Idle
    /\ issues < MaxIssues
    /\ \E pr \in Profiles, c \in Creds :
          req' = [req EXCEPT ![p] = NewRequest("getLatest", pr, c, "invalid")]
    /\ issues' = issues + 1
    /\ UNCHANGED <<latest, csl, vcs, asked, acked>>

\* cslStore.GetLatestListID
GetLatestListID(p) ==
    /\ req[p].pc = "getLatest"
    /\ \/ /\ latest = 0
          /\ req' = [req EXCEPT ![p].pc = "createLatest"]
       \/ /\ latest # 0
          /\ req' = [req EXCEPT ![p].pc = "getCSL", ![p].list = latest]
    /\ UNCHANGED <<latest, csl, vcs, issues, asked, acked>>

\* cslStore.CreateLatestListID(1) and the first list; the insert fails with a
\* duplicate key when another request created the document in the meantime.
CreateLatestListID(p) ==
    /\ req[p].pc = "createLatest"
    /\ \/ /\ latest = 0
          /\ latest' = 1
          /\ req' = [req EXCEPT ![p].pc = "upsert", ![p].list = 1,
                                ![p].wrap = FreshWrapper(1)]
       \/ /\ latest # 0
          /\ Finish(p)
          /\ UNCHANGED latest
    /\ UNCHANGED <<csl, vcs, issues, asked, acked>>

\* Mutant of GetCSLWrapper: a list that is not in the store is an error.
GetCSLWrapperNotFoundFails(p) ==
    /\ req[p].pc = "getCSL"
    /\ LET stored == csl[req[p].profile][req[p].list]
       IN req' = [req EXCEPT ![p] = IF stored = None THEN Idle
                                   ELSE [req[p] EXCEPT !.pc = "upsert", !.wrap = stored]]
    /\ UNCHANGED <<latest, csl, vcs, issues, asked, acked>>

\* getCSLWrapper of the latest list; a missing list is created locally.
GetCSLWrapper(p) ==
    /\ req[p].pc = "getCSL"
    /\ LET stored == csl[req[p].profile][req[p].list]
       IN req' = [req EXCEPT
                    ![p].pc = "upsert",
                    ![p].wrap = IF stored # None THEN stored
                                ELSE FreshWrapper(req[p].list)]
    /\ UNCHANGED <<latest, csl, vcs, issues, asked, acked>>

\* CreateStatusID: one more entry, the next index.
Bump(w) == [size |-> w.size + 1, index |-> w.index + 1,
            listID |-> w.listID, bits |-> w.bits]

\* What Upsert does with the wrapper written, the list it is written to and
\* the size at which the latest list identifier is moved on.
UpsertAs(p, written, key, full) ==
    /\ req[p].pc = "upsert"
    /\ csl' = [csl EXCEPT ![req[p].profile][key] = written]
    /\ req' = [req EXCEPT
                 ![p].pc = IF written.size = full THEN "updateLatest" ELSE "putVC",
                 ![p].idx = req[p].wrap.index,
                 ![p].wrap = written]
    /\ UNCHANGED <<latest, vcs, issues, asked, acked>>

\* Mutants of Upsert: the index is not advanced; the list is written under
\* the latest identifier instead of its own; the bits are lost.
UpsertSameIndex(p) ==
    UpsertAs(p, [req[p].wrap EXCEPT !.size = @ + 1], req[p].list, ListSize)
UpsertToLatest(p) ==
    UpsertAs(p, Bump(req[p].wrap), latest, ListSize)
UpsertEmptyBits(p) ==
    UpsertAs(p, [Bump(req[p].wrap) EXCEPT !.bits = {}], req[p].list, ListSize)

\* CreateStatusID takes the index, bumps both counters and writes the whole
\* wrapper back.
Upsert(p) ==
    UpsertAs(p, Bump(req[p].wrap), req[p].list, ListSize)

\* cslStore.UpdateLatestListID: the list is full.
UpdateLatestListID(p) ==
    /\ req[p].pc = "updateLatest"
    /\ req[p].wrap.listID < MaxListID
    /\ latest' = req[p].wrap.listID + 1
    /\ req' = [req EXCEPT ![p].pc = "putVC"]
    /\ UNCHANGED <<csl, vcs, issues, asked, acked>>

\* IssueCredential signs the credential with its status entry and stores it;
\* the collection has no unique index, so an insert never collides.
PutVC(p) ==
    /\ req[p].pc = "putVC"
    /\ vcs' = Append(vcs, [profile |-> req[p].profile, cred |-> req[p].cred,
                           list |-> req[p].list, idx |-> req[p].idx])
    /\ req' = [req EXCEPT ![p].pc = "reply"]
    /\ UNCHANGED <<latest, csl, issues, asked, acked>>

\* The signed credential is returned to the client.
Reply(p) ==
    /\ req[p].pc = "reply"
    /\ Finish(p)
    /\ UNCHANGED <<latest, csl, vcs, issues, asked, acked>>

-----------------------------------------------------------------------------
\* POST /issuer/profiles/{profileID}/credentials/status
StartUpdate(p) ==
    /\ req[p] = Idle
    /\ \E pr \in Profiles, c \in Creds, st \in Statuses :
          req' = [req EXCEPT ![p] = NewRequest("getVC", pr, c, st)]
    /\ UNCHANGED <<latest, csl, vcs, issues, asked, acked>>

\* The documents vcStore.Get may return: FindOne names no order, and clients
\* may issue several credentials with one identifier.
Matching(pr, c) == {i \in DOMAIN vcs : vcs[i].profile = pr /\ vcs[i].cred = c}

\* UpdateVCStatus: load the credential, then parse the requested status.
GetVC(p) ==
    /\ req[p].pc = "getVC"
    /\ LET found == Matching(req[p].profile, req[p].cred)
       IN \/ /\ found = {} \/ req[p].status = "invalid"
             /\ Finish(p)
             /\ UNCHANGED <<asked, acked>>
          \/ /\ req[p].status # "invalid"
             /\ \E i \in found :
                   /\ req' = [req EXCEPT ![p].pc = "getList", ![p].doc = i,
                                         ![p].list = vcs[i].list,
                                         ![p].idx = vcs[i].idx]
                   /\ asked' = IF req[p].status = "true" THEN asked \cup {i}
                               ELSE asked
                   /\ acked' = IF req[p].status = "true" THEN acked
                               ELSE acked \ {i}
    /\ UNCHANGED <<latest, csl, vcs, issues>>

\* What GetList does for bit strings of len positions whose position pos is
\* set or cleared.
GetListAs(p, len, pos) ==
    /\ req[p].pc = "getList"
    /\ LET w == csl[req[p].profile][req[p].list]
       IN \/ /\ w = None \/ pos >= len
             /\ Finish(p)
          \/ /\ w # None
             /\ pos < len
             /\ req' = [req EXCEPT
                          ![p].pc = "upsertBits",
                          ![p].wrap = [w EXCEPT !.bits =
                              IF req[p].status = "true" THEN @ \cup {pos}
                              ELSE @ \ {pos}]]
    /\ UNCHANGED <<latest, csl, vcs, issues, asked, acked>>

\* Mutants of GetList: the position is off by one; the last position is
\* refused.
GetListOffByOne(p) == GetListAs(p, BitLen, req[p].idx + 1)
GetListShort(p) == GetListAs(p, BitLen - 1, req[p].idx)

\* UpdateVC: load the list and set or clear the bit in the local copy; a
\* missing list or a position outside the bit string is an error.
GetList(p) == GetListAs(p, BitLen, req[p].idx)

\* Mutant of UpsertBits: the list is written under the latest identifier.
UpsertBitsToLatest(p) ==
    /\ req[p].pc = "upsertBits"
    /\ csl' = [csl EXCEPT ![req[p].profile][latest] = req[p].wrap]
    /\ req' = [req EXCEPT ![p].pc = "ack"]
    /\ UNCHANGED <<latest, vcs, issues, asked, acked>>

\* UpdateVC writes the whole wrapper back, counters included.
UpsertBits(p) ==
    /\ req[p].pc = "upsertBits"
    /\ csl' = [csl EXCEPT ![req[p].profile][req[p].list] = req[p].wrap]
    /\ req' = [req EXCEPT ![p].pc = "ack"]
    /\ UNCHANGED <<latest, vcs, issues, asked, acked>>

\* Another request that asks to reinstate document i is under way.
Reinstating(p, i) ==
    \E q \in Procs \ {p} : /\ req[q].pc \in {"getList", "upsertBits", "ack"}
                           /\ req[q].doc = i
                           /\ req[q].status = "false"

\* 200 OK
Ack(p) ==
    /\ req[p].pc = "ack"
    /\ acked' = IF req[p].status = "true" /\ ~Reinstating(p, req[p].doc)
                THEN acked \cup {req[p].doc} ELSE acked
    /\ Finish(p)
    /\ UNCHANGED <<latest, csl, vcs, issues, asked>>

-----------------------------------------------------------------------------
\* A request ends early: a store or KMS call failed, was applied but its
\* answer was lost, or its server stopped.  What it wrote stays written.
Fail(p) ==
    /\ p \in Faulty
    /\ req[p] # Idle
    /\ Finish(p)
    /\ UNCHANGED <<latest, csl, vcs, issues, asked, acked>>

Step(p) ==
    \/ GetLatestListID(p) \/ CreateLatestListID(p) \/ GetCSLWrapper(p)
    \/ Upsert(p) \/ UpdateLatestListID(p) \/ PutVC(p) \/ Reply(p)
    \/ GetVC(p) \/ GetList(p) \/ UpsertBits(p) \/ Ack(p)

\* No call fails.
FaultFreeNext == \E p \in Procs : StartIssue(p) \/ StartUpdate(p) \/ Step(p)

Next == FaultFreeNext \/ \E p \in Procs : Fail(p)

\* Requests overlap in every way.
Spec == Init /\ [][Next]_vars

\* No two requests of one profile overlap.  A request whose calls do not fail is
\* served to its end.
OneRequestPerProfile ==
    \A p, q \in Procs :
        p # q /\ req[p] # Idle /\ req[q] # Idle => req[p].profile # req[q].profile

SpecPerProfile ==
    /\ Init
    /\ [][Next /\ OneRequestPerProfile']_vars
    /\ \A p \in Procs \ Faulty : WF_vars(Step(p))

\* No two requests of one profile overlap and no call fails.
SpecPerProfileNoFaults == Init /\ [][FaultFreeNext /\ OneRequestPerProfile']_vars

-----------------------------------------------------------------------------
\* Whatever overlaps and whatever fails, the status list named by a stored
\* credential is in the store: CreateStatusID writes the list before
\* IssueCredential stores the credential, and no write removes a list.
IssuedListExists == \A i \in DOMAIN vcs : ListOf(i) # None

\* Whatever overlaps and whatever fails, a stored list has equal counters
\* (the roll-over test reads Size, the entry reads RevocationListIndex), is
\* stored under its own identifier and has no bit outside its bit string.
StoredListsConsistent ==
    \A pr \in Profiles, l \in ListIDs :
        LET w == csl[pr][l]
        IN w # None => /\ w.size = w.index
                       /\ w.listID = l
                       /\ w.bits \subseteq 0..(BitLen - 1)

\* Both together: whatever overlaps and whatever fails, every status list that
\* a verifier can be sent to is there and in order.
StatusListsSound == IssuedListExists /\ StoredListsConsistent

\* Whatever overlaps and whatever fails, a bit of a list is set only if some
\* request asked to revoke a credential that has this very entry: the
\* whole-document writes never carry a bit to another list or position.
NoBitWithoutRequest ==
    \A pr \in Profiles, l \in ListIDs :
        csl[pr][l] # None =>
            \A b \in csl[pr][l].bits : \E i \in asked : Slot(i) = <<pr, l, b>>

\* No two stored credentials share a status list entry (CreateStatusID hands
\* out an index once).
UniqueEntries ==
    \A i, j \in DOMAIN vcs : Slot(i) = Slot(j) => i = j

\* A credential reads as revoked only if a request asked to revoke it.
RevokedOnlyOnRequest ==
    \A i \in DOMAIN vcs :
        ListOf(i) # None /\ vcs[i].idx \in ListOf(i).bits => i \in asked

\* Once UpdateVCStatus has answered that a credential is revoked, its bit is
\* set until a later request asks to reinstate it.
AckedRevocationHolds ==
    \A i \in acked : ListOf(i) # None /\ vcs[i].idx \in ListOf(i).bits

\* No list has more than ListSize entries: the next list is started when
\* Size reaches listSize.
WithinCapacity == \A i \in DOMAIN vcs : vcs[i].idx < ListSize

\* Once there is a latest list identifier, an issuance none of whose own calls
\* fails ends with the credential stored and returned, whatever requests of
\* other profiles do meanwhile and wherever they failed.  (Two first requests
\* race for the identifier, and the one that comes second is refused.)
IssueCompletes ==
    \A p \in Procs \ Faulty :
        req[p].pc = "getLatest" /\ latest # 0 ~> req[p].pc = "reply"

\* A request to revoke a stored credential none of whose own calls fails is
\* carried out and acknowledged, also on a list that went past ListSize after
\* a failed call, as far as its bit string reaches.  What lies behind the end is
\* refused for good: nothing bounds an over-full list, and the bit string keeps
\* its length.
RevocationCompletes ==
    \A p \in Procs \ Faulty :
        (/\ req[p].pc = "getVC"
         /\ req[p].status = "true"
         /\ Matching(req[p].profile, req[p].cred) # {}
         /\ \A i \in Matching(req[p].profile, req[p].cred) : vcs[i].idx < BitLen)
        ~> req[p].pc = "ack"

-----------------------------------------------------------------------------
\* The registry the lists stand for: the entries of the stored credentials and
\* the entries whose bit is set.
Entries == [i \in DOMAIN vcs |-> Slot(i)]

RevokedSlots ==
    {s \in Profiles \X ListIDs \X (0..(BitLen - 1)) :
        csl[s[1]][s[2]] # None /\ s[3] \in csl[s[1]][s[2]].bits}

\* The registry of all entries of all status lists.
Registry == INSTANCE StatusRegistry
                WITH Slots <- Profiles \X ListIDs \X Nat,
                     entries <- Entries,
                     revoked <- RevokedSlots

\* As long as no two requests of one profile overlap, the service behaves as
\* the registry: fresh unrevoked entries, statuses changed only by a request
\* about the credential that owns the entry, also when calls fail.
ImplementsRegistry == Registry!Spec
=============================================================================
