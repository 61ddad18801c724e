-------------------------- MODULE VerificationProofs --------------------------
(***************************************************************************)
(* Proofs about the verification of credentials and presentations: what    *)
(* passes was signed by its issuer, what stays revoked is reported, and    *)
(* what this server issued is accepted.                                    *)
(*                                                                         *)
(* The operators below take the documents D, the DIDs R that have been     *)
(* updated and the bits B as parameters, so that a lemma about the record  *)
(* of a request needs no state.                                            *)
(***************************************************************************)
EXTENDS Verification, TLAPS, FiniteSetTheorems, SequenceTheorems

KeysIn(D, d) == UNION {D[d][u] : u \in Purpose}

RevokedIn(B, c) == c.status # None /\ c.status.idx \in B[c.status.list]

\* The check of r that is under way.
At(r, check) == r.todo # <<>> /\ Head(r.todo) = check

\* The proof check of the credentials of r.
ProofCheck(r) == IF r.kind = "credential" THEN "proof" ELSE "credentialProof"

\* The check is still to be done for the m-th credential of r.
Waiting(r, check, m) ==
    \E j \in DOMAIN r.todo : r.todo[j] = check /\ (j = 1 => m >= r.n)

\* The signature of c was made by a key that its issuer had since r began.
Signed(r, c) == c.intact /\ c.vm \in r.keys[c.issuer]

\* A key found now is one of those that the request may find.
KeysKept(r, D) == \A d \in DIDs : KeysIn(D, d) \subseteq r.keys[d]

JwtsSigned(r) ==
    \A m \in DOMAIN r.creds : r.creds[m].format = "jwt" => r.creds[m].vm # None

\* The check of r is of the envelope of the presentation.
OfEnvelopeIn(r) == r.kind = "presentation" /\ Head(r.todo) = "proof"

\* What the first half of a proof check of a credential left for the second.
HalfChecked(r) ==
    (At(r, "proof") \/ At(r, "credentialProof")) /\ ~OfEnvelopeIn(r) /\ r.phase = 2 =>
        LET c == r.creds[r.n]
        IN /\ c.format = "ldp"
           /\ c.vm # None => c.intact /\ c.vm \in r.keys[DidOf[c.vm]]

\* The credentials the proof check has passed are signed.
SignedSoFar(r) ==
    r.checks.credProof =>
        \/ ProofCheck(r) \in r.failed
        \/ \A m \in DOMAIN r.creds : Waiting(r, ProofCheck(r), m) \/ Signed(r, r.creds[m])

\* The status list that was fetched is that of the credential, and no older
\* than the request.
ListFetched(r) ==
    At(r, "credentialStatus") /\ r.phase = 2 =>
        LET s == r.creds[r.n].status
        IN /\ s # None
           /\ r.list = s.list
           /\ r.n \in r.gone => s.idx \in r.got
           /\ s.idx \in r.got => r.n \in r.seen

\* History: gone are revoked, and the revoked have been seen.
GoneAndSeen(r, B) ==
    /\ \A m \in r.gone : m \in DOMAIN r.creds /\ RevokedIn(B, r.creds[m])
    /\ \A m \in DOMAIN r.creds : RevokedIn(B, r.creds[m]) => m \in r.seen

\* A credential that is gone has not passed the status check.
ReportedSoFar(r) ==
    r.checks.status =>
        \/ "credentialStatus" \in r.failed
        \/ \A m \in r.gone : Waiting(r, "credentialStatus", m)

\* What IssueCredential makes: a status of the profile's list, and a key that
\* the document had for assertions, unless signing did not look it up; as long as
\* the DID is not updated, that is the document of the start.
Issued(R, c) ==
    /\ c.intact
    /\ c.vm # None
    /\ c.purpose = "assertionMethod"
    /\ c.status # None
    /\ c.status.idx < BitLen
    /\ c.status.purpose = ListInfo[c.status.list].purpose
    /\ LookedUp(c) /\ DidOf[c.vm] \notin R => c.vm \in InitDocs[DidOf[c.vm]]["assertionMethod"]

\* The condition of IssuedAccepted on c, a credential of r.
Acceptable(r, D, R, c) ==
    /\ Issued(R, c)
    /\ c.issuer = DidOf[c.vm]
    /\ c.issuer \notin R
    /\ LookedUp(c) \/ c.vm \in KeysIn(D, c.issuer)
    /\ LET info == ListInfo[c.status.list]
       IN /\ info.issuer = c.issuer
          /\ info.vm \in KeysIn(D, DidOf[info.vm])
          /\ DidOf[info.vm] \notin R
    /\ r.kind = "credential" /\ c.format = "ldp" => c.binding = r.binding

Undisturbed(r, D, R) ==
    /\ ~r.fault
    /\ r.seen = {}
    /\ \A m \in DOMAIN r.creds : Acceptable(r, D, R, r.creds[m])

Allowed(r) == IF r.kind = "credential" THEN {} ELSE {"proof"}

\* Nothing that this server issued has been refused.
AcceptedSoFar(r, D, R) == Undisturbed(r, D, R) => r.failed \subseteq Allowed(r)

Sound(r, D, R, B) ==
    /\ KeysKept(r, D)
    /\ JwtsSigned(r)
    /\ HalfChecked(r)
    /\ SignedSoFar(r)
    /\ ListFetched(r)
    /\ GoneAndSeen(r, B)
    /\ ReportedSoFar(r)
    /\ AcceptedSoFar(r, D, R)

\* Only updates change documents, and no did:key is updated.
DocsKept ==
    /\ rotated \cap KeyDIDs = {}
    /\ \A d \in DIDs \ rotated : docs[d] = InitDocs[d]

IssuedAll == \A n \in DOMAIN issued : Issued(rotated, issued[n])

AllSound == \A p \in Procs : req[p] # Idle => Sound(req[p], docs, rotated, bits)

VerifyInv ==
    /\ TypeOK
    /\ DocsKept
    /\ IssuedAll
    /\ AllSound

-----------------------------------------------------------------------------
\* What r works on is what s works on.
Same(r, s) ==
    /\ s.kind = r.kind
    /\ s.env = r.env
    /\ s.creds = r.creds
    /\ s.checks = r.checks
    /\ s.binding = r.binding
    /\ s.keys = r.keys

SameHistory(r, s) == s.gone = r.gone /\ s.seen = r.seen

\* The request r becomes s: its current check goes on, or is done if last.
PassedTo(r, s, last) ==
    /\ Same(r, s)
    /\ SameHistory(r, s)
    /\ s.todo = IF last THEN Tail(r.todo) ELSE r.todo
    /\ s.n = IF last THEN 1 ELSE r.n + 1
    /\ s.phase = 1
    /\ s.failed = r.failed
    /\ s.fault = r.fault

\* Its current check fails, through the fault of a call or not.
RefusedTo(r, s, fault) ==
    /\ Same(r, s)
    /\ SameHistory(r, s)
    /\ s.todo = Tail(r.todo)
    /\ s.n = 1
    /\ s.phase = 1
    /\ s.failed = r.failed \cup {Head(r.todo)}
    /\ s.fault = (r.fault \/ fault)

\* It goes to the second half of its check.
HalfwayTo(r, s) ==
    /\ Same(r, s)
    /\ SameHistory(r, s)
    /\ s.todo = r.todo
    /\ s.n = r.n
    /\ s.phase = 2
    /\ s.failed = r.failed
    /\ s.fault = r.fault

\* What TypeOK says of a request besides the sets of its fields.
RequestBounds(r) ==
    /\ Len(r.creds) <= MaxCreds
    /\ r.kind = "credential" => Len(r.creds) = 1
    /\ r.kind = "presentation" => r.env # None
    /\ r.n <= Len(r.creds)

AtLastIn(r) == OfEnvelopeIn(r) \/ r.n = Len(r.creds)

\* A request is not Idle.
LEMMA ActiveRequest == \A r \in Request : r # Idle
BY DEF Request, Idle

\* The record of a request whose check goes on.
LEMMA PassedRecord ==
    ASSUME NEW r \in Request, r.todo # <<>>, RequestBounds(r), NEW last \in BOOLEAN,
           ~last => r.n # Len(r.creds)
    PROVE  LET s == Passed(r, last)
           IN s \in Request /\ RequestBounds(s) /\ PassedTo(r, s, last)
<1> DEFINE s == Passed(r, last)
<1>1. PassedTo(r, s, last)
  BY DEF PassedTo, Same, SameHistory, Request, Passed
<1>2. r.todo \in Seq(Check) /\ Tail(r.todo) \in Seq(Check)
  BY HeadTailProperties DEF Request
<1>3. s.todo \in Seq(Check) /\ s.n \in Nat \ {0}
  BY <1>1, <1>2 DEF PassedTo, Request
<1>4. s \in Request
  BY <1>3 DEF Passed, Request
<1>5. RequestBounds(s)
  BY <1>1 DEF RequestBounds, PassedTo, Same, Request
<1> QED
  BY <1>1, <1>4, <1>5

\* The record of a request whose check fails.
LEMMA RefusedRecord ==
    ASSUME NEW r \in Request, r.todo # <<>>, RequestBounds(r), NEW fault \in BOOLEAN
    PROVE  LET s == Refused(r, fault)
           IN s \in Request /\ RequestBounds(s) /\ RefusedTo(r, s, fault)
<1> DEFINE done == Passed(r, TRUE)
           s == Refused(r, fault)
<1>1. Tail(r.todo) \in Seq(Check) /\ Head(r.todo) \in Check
  BY HeadTailProperties DEF Request
<1>2. done \in Request /\ PassedTo(r, done, TRUE)
  BY PassedRecord
<1>3. s = [done EXCEPT !.failed = @ \cup {Head(r.todo)}, !.fault = @ \/ fault]
  BY DEF Refused
<1> HIDE DEF done, s
<1>4. s \in Request
  BY <1>1, <1>2, <1>3 DEF Request
<1>5. RefusedTo(r, s, fault)
  BY <1>2, <1>3 DEF PassedTo, RefusedTo, Same, SameHistory, Request
<1>6. RequestBounds(s)
  BY <1>5 DEF RequestBounds, RefusedTo, Same, Request
<1> QED
  BY <1>4, <1>5, <1>6 DEF s

\* The record of a request whose check is half done: of a proof, or of a status.
LEMMA HalfwayRecord ==
    ASSUME NEW r \in Request, RequestBounds(r)
    PROVE  /\ LET s == [r EXCEPT !.phase = 2]
              IN /\ s \in Request /\ RequestBounds(s) /\ HalfwayTo(r, s)
           /\ \A l \in Lists : bits \in [Lists -> SUBSET (0..(BitLen - 1))] =>
                 LET s == WithList(r, l)
                 IN /\ s \in Request /\ RequestBounds(s) /\ HalfwayTo(r, s)
                    /\ s.list = l /\ s.got = bits[l]
<1>1. LET s == [r EXCEPT !.phase = 2]
      IN s \in Request /\ RequestBounds(s) /\ HalfwayTo(r, s)
  BY DEF HalfwayTo, Same, SameHistory, Request, RequestBounds
<1>2. ASSUME NEW l \in Lists, bits \in [Lists -> SUBSET (0..(BitLen - 1))]
      PROVE  LET s == WithList(r, l)
             IN /\ s \in Request /\ RequestBounds(s) /\ HalfwayTo(r, s)
                /\ s.list = l /\ s.got = bits[l]
  <2>1. bits[l] \in SUBSET Nat
    BY <1>2, VerificationAssumption
  <2> QED
    BY <2>1 DEF WithList, HalfwayTo, Same, SameHistory, Request, RequestBounds
<1> QED
  BY <1>1, <1>2

-----------------------------------------------------------------------------
\* When the first check is done, the others still wait for all credentials.
LEMMA WaitingTail ==
    ASSUME NEW r \in Request, NEW s \in Request, r.todo # <<>>,
           s.todo = Tail(r.todo), s.n = 1,
           NEW check, NEW m \in Nat \ {0}, Waiting(r, check, m), Head(r.todo) # check
    PROVE  Waiting(s, check, m)
<1>1. PICK j \in DOMAIN r.todo : r.todo[j] = check /\ (j = 1 => m >= r.n)
  BY DEF Waiting
<1>2. r.todo \in Seq(Check)
  BY DEF Request
<1>3. /\ r.todo[1] = Head(r.todo)
      /\ DOMAIN r.todo = 1..Len(r.todo)
      /\ DOMAIN Tail(r.todo) = 1..(Len(r.todo) - 1)
      /\ \A i \in 1..(Len(r.todo) - 1) : Tail(r.todo)[i] = r.todo[i + 1]
  BY <1>2
<1>4. j \in Nat /\ Len(r.todo) \in Nat /\ j # 1
  BY <1>1, <1>2, <1>3
<1>5. j - 1 \in DOMAIN s.todo /\ s.todo[j - 1] = check
  BY <1>1, <1>3, <1>4
<1> QED
  BY <1>5 DEF Waiting

\* A check that goes on or is done has dealt with one credential.
LEMMA WaitingPassed ==
    ASSUME NEW r \in Request, NEW s \in Request, r.todo # <<>>, RequestBounds(r),
           PassedTo(r, s, AtLastIn(r)),
           NEW check, NEW m \in DOMAIN r.creds, Waiting(r, check, m),
           ~(Head(r.todo) = check /\ (OfEnvelopeIn(r) \/ m = r.n))
    PROVE  Waiting(s, check, m)
<1>1. m \in Nat \ {0} /\ m <= Len(r.creds) /\ r.n \in Nat \ {0} /\ r.n <= Len(r.creds)
  BY DEF Request, RequestBounds
<1>2. r.todo \in Seq(Check) /\ r.todo[1] = Head(r.todo)
  BY DEF Request
<1>3. CASE AtLastIn(r) /\ Head(r.todo) # check
  BY <1>1, <1>3, WaitingTail DEF PassedTo
<1>4. CASE AtLastIn(r) /\ Head(r.todo) = check
  <2>1. r.n = Len(r.creds) /\ m # r.n
    BY <1>4 DEF AtLastIn
  <2>2. PICK j \in DOMAIN r.todo : r.todo[j] = check /\ (j = 1 => m >= r.n)
    BY DEF Waiting
  <2>3. j # 1 /\ j \in 1..Len(r.todo)
    BY <1>1, <1>2, <2>1, <2>2
  <2>4. j - 1 \in DOMAIN Tail(r.todo) /\ Tail(r.todo)[j - 1] = check
    BY <1>2, <2>2, <2>3
  <2>5. s.todo = Tail(r.todo) /\ s.n = 1
    BY <1>4 DEF PassedTo
  <2> QED
    BY <1>1, <2>4, <2>5 DEF Waiting
<1>5. CASE ~AtLastIn(r)
  <2>1. s.todo = r.todo /\ s.n = r.n + 1
    BY <1>5 DEF PassedTo
  <2>2. PICK j \in DOMAIN r.todo : r.todo[j] = check /\ (j = 1 => m >= r.n)
    BY DEF Waiting
  <2>3. j = 1 => m >= r.n + 1
    BY <1>1, <1>2, <2>2
  <2> QED
    BY <2>1, <2>2, <2>3 DEF Waiting
<1> QED
  BY <1>3, <1>4, <1>5

\* The facts about a request that do not depend on how far it is.
LEMMA FrameSound ==
    ASSUME NEW r \in Request, NEW s \in Request, Same(r, s), SameHistory(r, s),
           NEW D, NEW R, NEW B, Sound(r, D, R, B)
    PROVE  KeysKept(s, D) /\ JwtsSigned(s) /\ GoneAndSeen(s, B)
BY DEF Sound, KeysKept, JwtsSigned, GoneAndSeen, Same, SameHistory

\* A check that passes, having found what it looked for, keeps a request sound.
LEMMA PassedSound ==
    ASSUME NEW r \in Request, NEW s \in Request, r.todo # <<>>, RequestBounds(r),
           PassedTo(r, s, AtLastIn(r)), NEW D, NEW R, NEW B, Sound(r, D, R, B),
           At(r, ProofCheck(r)) => Signed(r, r.creds[r.n]),
           At(r, "credentialStatus") => r.n \notin r.gone
    PROVE  Sound(s, D, R, B)
<1>1. Same(r, s) /\ SameHistory(r, s) /\ s.phase = 1 /\ s.failed = r.failed /\ s.fault = r.fault
  BY DEF PassedTo
<1>2. KeysKept(s, D) /\ JwtsSigned(s) /\ GoneAndSeen(s, B)
  BY <1>1, FrameSound
<1>3. HalfChecked(s) /\ ListFetched(s)
  BY <1>1 DEF HalfChecked, ListFetched
<1>4. SignedSoFar(s)
  <2> SUFFICES ASSUME s.checks.credProof, ProofCheck(s) \notin s.failed,
                      NEW m \in DOMAIN s.creds, ~Signed(s, s.creds[m])
               PROVE  Waiting(s, ProofCheck(s), m)
    BY DEF SignedSoFar
  <2>1. ProofCheck(s) = ProofCheck(r) /\ m \in DOMAIN r.creds /\ ~Signed(r, r.creds[m])
    BY <1>1 DEF ProofCheck, Same, Signed
  <2>2. Waiting(r, ProofCheck(r), m)
    BY <1>1, <2>1 DEF Sound, SignedSoFar, Same
  <2>3. ~(Head(r.todo) = ProofCheck(r) /\ OfEnvelopeIn(r))
    BY DEF ProofCheck, OfEnvelopeIn
  <2>4. ~(Head(r.todo) = ProofCheck(r) /\ m = r.n)
    BY <2>1 DEF At
  <2> QED
    BY <2>1, <2>2, <2>3, <2>4, WaitingPassed
<1>5. ReportedSoFar(s)
  <2> SUFFICES ASSUME s.checks.status, "credentialStatus" \notin s.failed, NEW m \in s.gone
               PROVE  Waiting(s, "credentialStatus", m)
    BY DEF ReportedSoFar
  <2>1. m \in r.gone /\ m \in DOMAIN r.creds
    BY <1>1 DEF SameHistory, Sound, GoneAndSeen
  <2>2. Waiting(r, "credentialStatus", m)
    BY <1>1, <2>1 DEF Sound, ReportedSoFar, Same
  <2>3. ~(Head(r.todo) = "credentialStatus" /\ (OfEnvelopeIn(r) \/ m = r.n))
    BY <2>1 DEF At, OfEnvelopeIn
  <2> QED
    BY <2>1, <2>2, <2>3, WaitingPassed
<1>6. AcceptedSoFar(s, D, R)
  BY <1>1 DEF Sound, AcceptedSoFar, Undisturbed, Acceptable, Allowed, Same, SameHistory
<1> QED
  BY <1>2, <1>3, <1>4, <1>5, <1>6 DEF Sound

\* A check that fails, by a fault or for a reason, keeps a request sound.
LEMMA RefusedSound ==
    ASSUME NEW r \in Request, NEW s \in Request, r.todo # <<>>, RequestBounds(r),
           NEW fault \in BOOLEAN, RefusedTo(r, s, fault), NEW D, NEW R, NEW B, Sound(r, D, R, B),
           fault \/ (Undisturbed(r, D, R) => Head(r.todo) \in Allowed(r))
    PROVE  Sound(s, D, R, B)
<1>1. /\ Same(r, s) /\ SameHistory(r, s) /\ s.phase = 1 /\ s.todo = Tail(r.todo) /\ s.n = 1
      /\ s.failed = r.failed \cup {Head(r.todo)} /\ (r.fault \/ fault => s.fault)
  BY DEF RefusedTo
<1>2. KeysKept(s, D) /\ JwtsSigned(s) /\ GoneAndSeen(s, B)
  BY <1>1, FrameSound
<1>3. HalfChecked(s) /\ ListFetched(s)
  BY <1>1 DEF HalfChecked, ListFetched
<1>4. SignedSoFar(s)
  <2> SUFFICES ASSUME s.checks.credProof, ProofCheck(s) \notin s.failed,
                      NEW m \in DOMAIN s.creds, ~Signed(s, s.creds[m])
               PROVE  Waiting(s, ProofCheck(s), m)
    BY DEF SignedSoFar
  <2>1. /\ ProofCheck(s) = ProofCheck(r) /\ m \in DOMAIN r.creds /\ m \in Nat \ {0}
        /\ ~Signed(r, r.creds[m])
    BY <1>1 DEF ProofCheck, Same, Signed, Request
  <2>2. Waiting(r, ProofCheck(r), m)
    BY <1>1, <2>1 DEF Sound, SignedSoFar, Same
  <2>3. Head(r.todo) # ProofCheck(r)
    BY <1>1, <2>1
  <2> QED
    BY <1>1, <2>1, <2>2, <2>3, WaitingTail
<1>5. ReportedSoFar(s)
  <2> SUFFICES ASSUME s.checks.status, "credentialStatus" \notin s.failed, NEW m \in s.gone
               PROVE  Waiting(s, "credentialStatus", m)
    BY DEF ReportedSoFar
  <2>1. m \in r.gone /\ m \in Nat \ {0}
    BY <1>1 DEF SameHistory, Sound, GoneAndSeen, Request
  <2>2. Waiting(r, "credentialStatus", m)
    BY <1>1, <2>1 DEF Sound, ReportedSoFar, Same
  <2> QED
    BY <1>1, <2>1, <2>2, WaitingTail
<1>6. AcceptedSoFar(s, D, R)
  <2> SUFFICES ASSUME Undisturbed(s, D, R)
               PROVE  s.failed \subseteq Allowed(s)
    BY DEF AcceptedSoFar
  <2>1. Undisturbed(r, D, R) /\ ~fault
    BY <1>1 DEF Undisturbed, Acceptable, Same, SameHistory
  <2>2. r.failed \subseteq Allowed(r) /\ Head(r.todo) \in Allowed(r)
    BY <2>1 DEF Sound, AcceptedSoFar
  <2> QED
    BY <1>1, <2>2 DEF Allowed, Same
<1> QED
  BY <1>2, <1>3, <1>4, <1>5, <1>6 DEF Sound

\* The first half of a check keeps a request sound when the second half finds
\* what it relies on.
LEMMA HalfwaySound ==
    ASSUME NEW r \in Request, NEW s \in Request, HalfwayTo(r, s),
           NEW D, NEW R, NEW B, Sound(r, D, R, B), HalfChecked(s), ListFetched(s)
    PROVE  Sound(s, D, R, B)
<1>1. /\ Same(r, s) /\ SameHistory(r, s) /\ s.todo = r.todo /\ s.n = r.n
      /\ s.failed = r.failed /\ s.fault = r.fault
  BY DEF HalfwayTo
<1>2. KeysKept(s, D) /\ JwtsSigned(s) /\ GoneAndSeen(s, B)
  BY <1>1, FrameSound
<1>3. SignedSoFar(s)
  BY <1>1 DEF Sound, SignedSoFar, Same, Signed, ProofCheck, Waiting
<1>4. ReportedSoFar(s)
  BY <1>1 DEF Sound, ReportedSoFar, Same, SameHistory, Waiting
<1>5. AcceptedSoFar(s, D, R)
  BY <1>1 DEF Sound, AcceptedSoFar, Undisturbed, Acceptable, Allowed, Same, SameHistory
<1> QED
  BY <1>2, <1>3, <1>4, <1>5 DEF Sound
-----------------------------------------------------------------------------
\* What is known of a request with a check to do.
LEMMA Serving ==
    ASSUME VerifyInv, NEW p \in Procs, req[p].todo # <<>>
    PROVE  /\ req[p] \in Request
           /\ RequestBounds(req[p])
           /\ Sound(req[p], docs, rotated, bits)
           /\ req[p].n \in DOMAIN req[p].creds
           /\ req[p].creds[req[p].n] \in Credential
<1>1. req[p] \in Request \cup {Idle} /\ req[p] # Idle
  BY DEF VerifyInv, TypeOK, Idle
<1>2. RequestBounds(req[p]) /\ Sound(req[p], docs, rotated, bits)
  BY <1>1 DEF VerifyInv, TypeOK, AllSound, RequestBounds
<1> DEFINE r == req[p]
<1>3. r \in Request
  BY <1>1
<1> HIDE DEF r
<1>4. r.creds \in Seq(Credential) /\ r.n \in Nat \ {0}
  BY <1>3 DEF Request
<1>5. RequestBounds(r) => r.n \in DOMAIN r.creds /\ r.creds[r.n] \in Credential
  BY <1>4 DEF RequestBounds
<1> QED
  BY <1>2, <1>3, <1>5 DEF r

\* A step of one request that leaves it sound, or ends it, keeps the invariant.
LEMMA OneRequest ==
    ASSUME VerifyInv, NEW p \in Procs, NEW s,
           req' = [req EXCEPT ![p] = s],
           s = Idle \/ (s \in Request /\ RequestBounds(s) /\ Sound(s, docs, rotated, bits)),
           UNCHANGED <<docs, rotated, issued, bits>>, requests' \in 0..MaxRequests
    PROVE  VerifyInv'
<1>1. req \in [Procs -> Request \cup {Idle}]
  BY DEF VerifyInv, TypeOK
<1>2. /\ req' \in [Procs -> Request \cup {Idle}]
      /\ req'[p] = s
      /\ \A q \in Procs : q # p => req'[q] = req[q]
  BY <1>1
<1>3. \A q \in Procs : req[q] # Idle => RequestBounds(req[q]) /\ Sound(req[q], docs, rotated, bits)
  BY DEF VerifyInv, TypeOK, AllSound, RequestBounds
<1>4. \A q \in Procs : req'[q] # Idle => RequestBounds(req'[q]) /\ Sound(req'[q], docs, rotated, bits)
  BY <1>2, <1>3
<1>5. TypeOK'
  BY <1>2, <1>4 DEF VerifyInv, TypeOK, RequestBounds
<1>6. DocsKept' /\ IssuedAll'
  BY DEF VerifyInv, DocsKept, IssuedAll
<1>7. AllSound'
  BY <1>4 DEF AllSound
<1> QED
  BY <1>5, <1>6, <1>7 DEF VerifyInv

\* A request whose check passes, having found what it looked for, stays sound.
LEMMA PassKeeps ==
    ASSUME VerifyInv, NEW p \in Procs, req[p].todo # <<>>, Pass(p),
           At(req[p], ProofCheck(req[p])) => Signed(req[p], req[p].creds[req[p].n]),
           At(req[p], "credentialStatus") => req[p].n \notin req[p].gone,
           UNCHANGED <<docs, rotated, issued, bits, requests>>
    PROVE  VerifyInv'
<1> DEFINE r == req[p]
           s == Passed(r, AtLastIn(r))
<1>1. r \in Request /\ RequestBounds(r) /\ Sound(r, docs, rotated, bits)
  BY Serving
<1>2. req' = [req EXCEPT ![p] = s]
  BY DEF Pass, AtLast, AtLastIn, OfEnvelope, OfEnvelopeIn
<1>3. s \in Request /\ RequestBounds(s) /\ PassedTo(r, s, AtLastIn(r))
  BY <1>1, PassedRecord, AtLastIn(r) \in BOOLEAN DEF AtLastIn
<1>4. Sound(s, docs, rotated, bits)
  BY <1>1, <1>3, PassedSound
<1>5. requests' \in 0..MaxRequests
  BY DEF VerifyInv, TypeOK
<1> HIDE DEF s
<1> QED
  BY <1>2, <1>3, <1>4, <1>5, OneRequest

\* A request whose check fails for a reason stays sound.
LEMMA RefuseKeeps ==
    ASSUME VerifyInv, NEW p \in Procs, req[p].todo # <<>>, NEW fault \in BOOLEAN,
           Refuse(p, fault),
           fault \/ (Undisturbed(req[p], docs, rotated) => Head(req[p].todo) \in Allowed(req[p])),
           UNCHANGED <<docs, rotated, issued, bits, requests>>
    PROVE  VerifyInv'
<1> DEFINE r == req[p]
           s == Refused(r, fault)
<1>1. r \in Request /\ RequestBounds(r) /\ Sound(r, docs, rotated, bits)
  BY Serving
<1>2. req' = [req EXCEPT ![p] = s]
  BY DEF Refuse
<1>3. s \in Request /\ RequestBounds(s) /\ RefusedTo(r, s, fault)
  BY <1>1, RefusedRecord
<1>4. Sound(s, docs, rotated, bits)
  BY <1>1, <1>3, RefusedSound
<1>5. requests' \in 0..MaxRequests
  BY DEF VerifyInv, TypeOK
<1> HIDE DEF s
<1> QED
  BY <1>2, <1>3, <1>4, <1>5, OneRequest
-----------------------------------------------------------------------------
\* The operators of the model and those above agree.
LEMMA Agree ==
    ASSUME NEW p \in Procs
    PROVE  /\ \A d : Keys(d) = KeysIn(docs, d)
           /\ \A c : Revoked(c) = RevokedIn(bits, c)
           /\ OfEnvelope(p) = OfEnvelopeIn(req[p])
           /\ ~OfEnvelope(p) => Subject(p) = req[p].creds[req[p].n]
BY DEF Keys, Methods, KeysIn, Revoked, RevokedIn, OfEnvelope, OfEnvelopeIn, Subject

\* The key of a credential that is acceptable is in the document of its issuer,
\* for assertions if signing looked it up.
LEMMA AcceptableKey ==
    ASSUME VerifyInv, NEW r, NEW c \in Credential, Acceptable(r, docs, rotated, c)
    PROVE  /\ c.intact
           /\ c.vm \in VMs
           /\ c.issuer \in DIDs
           /\ DidOf[c.vm] = c.issuer
           /\ c.vm \in Keys(c.issuer)
           /\ LookedUp(c) => c.vm \in docs[c.issuer]["assertionMethod"]
<1>1. c.vm \in VMs /\ c.issuer \in DIDs
  BY DEF Acceptable, Issued, Credential
<1>2. LookedUp(c) => c.vm \in docs[c.issuer]["assertionMethod"]
  BY <1>1 DEF Acceptable, Issued, VerifyInv, DocsKept
<1>3. c.vm \in Keys(c.issuer)
  BY <1>2 DEF Acceptable, Keys, Methods, KeysIn, Purpose
<1> QED
  BY <1>1, <1>2, <1>3 DEF Acceptable, Issued

\* It is not refused in the first half of its proof check.
LEMMA AcceptableParses ==
    ASSUME VerifyInv, NEW r, NEW c \in Credential, Acceptable(r, docs, rotated, c)
    PROVE  CredentialParses(c)
BY AcceptableKey DEF CredentialParses, Parses

\* The first half of a proof check.
LEMMA ParseProofKeeps ==
    ASSUME VerifyInv, NEW p \in Procs, ParseProof(p)
    PROVE  VerifyInv'
<1> DEFINE r == req[p]
           c == r.creds[r.n]
<1>1. r.todo # <<>> /\ Head(r.todo) \in {"proof", "credentialProof"} /\ r.phase = 1
  BY DEF ParseProof, Working
<1>2. /\ r \in Request /\ RequestBounds(r) /\ Sound(r, docs, rotated, bits)
      /\ r.n \in DOMAIN r.creds /\ c \in Credential
  BY <1>1, Serving
<1>3. ~OfEnvelope(p) => /\ Subject(p) = c
                        /\ SubjectParses(p) = CredentialParses(c)
  BY Agree DEF SubjectParses
<1>4. At(r, ProofCheck(r)) => ~OfEnvelope(p)
  BY DEF At, ProofCheck, OfEnvelope
<1>5. CredentialParses(c) /\ c.vm # None =>
          /\ c.intact
          /\ c.vm \in r.keys[IF c.format = "jwt" THEN c.issuer ELSE DidOf[c.vm]]
  <2>1. c.issuer \in DIDs /\ (c.vm # None => DidOf[c.vm] \in DIDs)
    BY <1>2, VerificationAssumption DEF Credential
  <2> QED
    BY <1>2, <2>1, Agree DEF CredentialParses, Parses, Sound, KeysKept
<1>6. UNCHANGED <<docs, rotated, issued, bits, requests>>
  BY DEF ParseProof
<1>7. ~At(r, "credentialStatus")
  BY <1>1 DEF At
<1>8. CASE SubjectParses(p) /\ Subject(p).format = "jwt" /\ Pass(p)
  <2>1. At(r, ProofCheck(r)) => Signed(r, c)
    BY <1>2, <1>3, <1>4, <1>5, <1>8 DEF Sound, JwtsSigned, Signed
  <2> QED
    BY <1>1, <1>6, <1>7, <1>8, <2>1, PassKeeps
<1>9. CASE /\ SubjectParses(p) /\ Subject(p).format = "ldp"
           /\ req' = [req EXCEPT ![p].phase = 2]
  <2> DEFINE s == [r EXCEPT !.phase = 2]
  <2>1. s \in Request /\ RequestBounds(s) /\ HalfwayTo(r, s)
    BY <1>2, HalfwayRecord
  <2>2. req' = [req EXCEPT ![p] = s]
    BY <1>9
  <2> HIDE DEF s
  <2>3. Same(r, s) /\ s.todo = r.todo /\ s.n = r.n
    BY <2>1 DEF HalfwayTo
  <2>4. HalfChecked(s)
    BY <1>3, <1>5, <1>9, <2>3 DEF HalfChecked, Same, OfEnvelopeIn, OfEnvelope, At
  <2>5. ListFetched(s)
    BY <1>7, <2>3 DEF ListFetched, At
  <2>6. Sound(s, docs, rotated, bits)
    BY <1>2, <2>1, <2>4, <2>5, HalfwaySound
  <2>7. requests' \in 0..MaxRequests
    BY <1>6 DEF VerifyInv, TypeOK
  <2> QED
    BY <1>6, <2>1, <2>2, <2>6, <2>7, OneRequest
<1>10. CASE ~SubjectParses(p) /\ Refuse(p, FALSE)
  <2>1. Undisturbed(r, docs, rotated) => Head(r.todo) \in Allowed(r)
    <3> SUFFICES ASSUME Undisturbed(r, docs, rotated)
                 PROVE  Head(r.todo) \in Allowed(r)
      OBVIOUS
    <3>1. CredentialParses(c)
      BY <1>2, AcceptableParses DEF Undisturbed
    <3> QED
      BY <1>3, <1>10, <3>1 DEF OfEnvelope, Allowed
  <2> QED
    BY <1>1, <1>6, <1>10, <2>1, RefuseKeeps
<1> QED
  BY <1>8, <1>9, <1>10 DEF ParseProof

\* The second half of a proof check.
LEMMA ValidateProofKeeps ==
    ASSUME VerifyInv, NEW p \in Procs, ValidateProof(p)
    PROVE  VerifyInv'
<1> DEFINE r == req[p]
           c == r.creds[r.n]
           ok(x) == /\ x.vm # None
                    /\ Bound(p, x)
                    /\ Controls(p, x)
                    /\ ValidateProofPurpose(x.purpose, x.vm)
<1>1. r.todo # <<>> /\ Head(r.todo) \in {"proof", "credentialProof"} /\ r.phase = 2
  BY DEF ValidateProof, Working
<1>2. /\ r \in Request /\ RequestBounds(r) /\ Sound(r, docs, rotated, bits)
      /\ r.n \in DOMAIN r.creds /\ c \in Credential
  BY <1>1, Serving
<1>3. ~OfEnvelope(p) => Subject(p) = c
  BY Agree
<1>4. ~OfEnvelope(p) => /\ c.format = "ldp"
                        /\ c.vm # None => c.intact /\ c.vm \in r.keys[DidOf[c.vm]]
  BY <1>1, <1>2 DEF Sound, HalfChecked, OfEnvelope, OfEnvelopeIn, At
<1>5. UNCHANGED <<docs, rotated, issued, bits, requests>>
  BY DEF ValidateProof
<1>6. CASE ok(Subject(p)) /\ Pass(p)
  <2>1. At(r, ProofCheck(r)) => ~OfEnvelope(p)
    BY DEF At, ProofCheck, OfEnvelope
  <2>2. At(r, ProofCheck(r)) => Signed(r, c)
    BY <1>3, <1>4, <1>6, <2>1 DEF Signed, Controls
  <2>3. ~At(r, "credentialStatus")
    BY <1>1 DEF At
  <2> QED
    BY <1>1, <1>5, <1>6, <2>2, <2>3, PassKeeps
<1>7. CASE ~ok(Subject(p)) /\ Refuse(p, FALSE)
  <2>1. Undisturbed(r, docs, rotated) => Head(r.todo) \in Allowed(r)
    <3> SUFFICES ASSUME Undisturbed(r, docs, rotated), ~OfEnvelope(p)
                 PROVE  FALSE
      BY <1>1, <1>2 DEF OfEnvelope, Allowed
    <3>1. Acceptable(r, docs, rotated, c)
      BY <1>2 DEF Undisturbed
    <3>2. /\ c.vm \in VMs /\ DidOf[c.vm] = c.issuer
          /\ LookedUp(c) => c.vm \in docs[c.issuer]["assertionMethod"]
      BY <1>2, <3>1, AcceptableKey
    <3>3. c.vm # None /\ Bound(p, c) /\ Controls(p, c)
      BY <1>4, <3>1, <3>2, VerificationAssumption DEF Bound, Controls, Acceptable, Issued
    <3>4. ValidateProofPurpose(c.purpose, c.vm)
      BY <1>4, <3>1, <3>2
      DEF ValidateProofPurpose, isValidVerificationMethod, LookedUp, Purpose, Acceptable, Issued
    <3> QED
      BY <1>3, <1>7, <3>3, <3>4
  <2> QED
    BY <1>1, <1>5, <1>7, <2>1, RefuseKeeps
<1> QED
  BY <1>6, <1>7 DEF ValidateProof
\* The fetch of a status list.
LEMMA GetRevocationVCKeeps ==
    ASSUME VerifyInv, NEW p \in Procs, GetRevocationVC(p)
    PROVE  VerifyInv'
<1> DEFINE r == req[p]
           c == r.creds[r.n]
           t == WithList(r, c.status.list)
<1>1. r.todo # <<>> /\ Head(r.todo) = "credentialStatus" /\ r.phase = 1
  BY DEF GetRevocationVC, Working
<1>2. /\ r \in Request /\ RequestBounds(r) /\ Sound(r, docs, rotated, bits)
      /\ r.n \in DOMAIN r.creds /\ c \in Credential
  BY <1>1, Serving
<1>3. ~OfEnvelope(p) /\ Subject(p) = c
  BY <1>1, Agree DEF OfEnvelope
<1>4. UNCHANGED <<docs, rotated, issued, bits, requests>>
  BY DEF GetRevocationVC
<1>5. \/ c.status = None /\ Refuse(p, FALSE)
      \/ Refuse(p, TRUE)
      \/ c.status # None /\ req' = [req EXCEPT ![p] = t]
  BY <1>3 DEF GetRevocationVC
<1>6. CASE c.status = None /\ Refuse(p, FALSE)
  <2>1. ~Undisturbed(r, docs, rotated)
    BY <1>2, <1>6 DEF Undisturbed, Acceptable, Issued
  <2> QED
    BY <1>1, <1>4, <1>6, <2>1, RefuseKeeps
<1>7. CASE Refuse(p, TRUE)
  BY <1>1, <1>4, <1>7, RefuseKeeps
<1>8. CASE c.status # None /\ req' = [req EXCEPT ![p] = t]
  <2>1. c.status.list \in Lists
    BY <1>2, <1>8 DEF Credential, Status, Position
  <2>2. bits \in [Lists -> SUBSET (0..(BitLen - 1))]
    BY DEF VerifyInv, TypeOK
  <2>3. /\ t \in Request /\ RequestBounds(t) /\ HalfwayTo(r, t)
        /\ t.list = c.status.list /\ t.got = bits[c.status.list]
    BY <1>2, <2>1, <2>2, HalfwayRecord
  <2> HIDE DEF t
  <2>4. Same(r, t) /\ SameHistory(r, t) /\ t.todo = r.todo /\ t.n = r.n
    BY <2>3 DEF HalfwayTo
  <2>5. HalfChecked(t)
    BY <1>1, <2>4 DEF HalfChecked, At
  <2>6. RevokedIn(bits, c) = (c.status.idx \in t.got)
    BY <1>8, <2>3 DEF RevokedIn
  <2>7. ListFetched(t)
    BY <1>2, <1>8, <2>3, <2>4, <2>6 DEF ListFetched, Same, SameHistory, Sound, GoneAndSeen
  <2>8. Sound(t, docs, rotated, bits)
    BY <1>2, <2>3, <2>5, <2>7, HalfwaySound
  <2>9. requests' \in 0..MaxRequests
    BY <1>4 DEF VerifyInv, TypeOK
  <2> QED
    BY <1>4, <1>8, <2>3, <2>8, <2>9, OneRequest
<1> QED
  BY <1>5, <1>6, <1>7, <1>8

\* The check of a status list that was fetched.
LEMMA ValidateVCStatusKeeps ==
    ASSUME VerifyInv, NEW p \in Procs, ValidateVCStatus(p)
    PROVE  VerifyInv'
<1> DEFINE r == req[p]
           c == r.creds[r.n]
           info == ListInfo[r.list]
           ok(x) == /\ info.vm \in Keys(DidOf[info.vm])
                    /\ info.issuer = x.issuer
                    /\ info.purpose = x.status.purpose
                    /\ x.status.idx < BitLen
                    /\ NotRevoked(x.status, r.got)
<1>1. r.todo # <<>> /\ Head(r.todo) = "credentialStatus" /\ r.phase = 2
  BY DEF ValidateVCStatus, Working
<1>2. /\ r \in Request /\ RequestBounds(r) /\ Sound(r, docs, rotated, bits)
      /\ r.n \in DOMAIN r.creds /\ c \in Credential
  BY <1>1, Serving
<1>3. Subject(p) = c
  BY <1>1, Agree DEF OfEnvelope
<1>4. /\ c.status # None /\ r.list = c.status.list
      /\ r.n \in r.gone => c.status.idx \in r.got
      /\ c.status.idx \in r.got => r.n \in r.seen
  BY <1>1, <1>2 DEF Sound, ListFetched, At
<1>5. UNCHANGED <<docs, rotated, issued, bits, requests>>
  BY DEF ValidateVCStatus
<1>6. CASE ok(c) /\ Pass(p)
  <2>1. r.n \notin r.gone
    BY <1>4, <1>6 DEF NotRevoked
  <2>2. ~At(r, ProofCheck(r))
    BY <1>1 DEF At, ProofCheck
  <2> QED
    BY <1>1, <1>5, <1>6, <2>1, <2>2, PassKeeps
<1>7. CASE ~ok(c) /\ Refuse(p, FALSE)
  <2>1. ~Undisturbed(r, docs, rotated)
    <3> SUFFICES ASSUME Undisturbed(r, docs, rotated)
                 PROVE  FALSE
      OBVIOUS
    <3>1. Acceptable(r, docs, rotated, c) /\ r.seen = {}
      BY <1>2 DEF Undisturbed
    <3>2. info.vm \in Keys(DidOf[info.vm])
      BY <1>4, <3>1 DEF Acceptable, Keys, Methods, KeysIn
    <3>3. info.issuer = c.issuer /\ info.purpose = c.status.purpose /\ c.status.idx < BitLen
      BY <1>4, <3>1 DEF Acceptable, Issued
    <3>4. NotRevoked(c.status, r.got)
      BY <1>4, <3>1 DEF NotRevoked
    <3> QED
      BY <1>7, <3>2, <3>3, <3>4
  <2> QED
    BY <1>1, <1>5, <1>7, <2>1, RefuseKeeps
<1> QED
  BY <1>3, <1>6, <1>7 DEF ValidateVCStatus

\* A call that fails.
LEMMA CallFailsKeeps ==
    ASSUME VerifyInv, NEW p \in Procs, CallFails(p)
    PROVE  VerifyInv'
BY RefuseKeeps DEF CallFails

\* The answer.
LEMMA ReplyKeeps ==
    ASSUME VerifyInv, NEW p \in Procs, Reply(p)
    PROVE  VerifyInv'
<1> DEFINE s == Idle
<1>1. requests' \in 0..MaxRequests
  BY DEF Reply, VerifyInv, TypeOK
<1>2. /\ req' = [req EXCEPT ![p] = s] /\ s = Idle
      /\ UNCHANGED <<docs, rotated, issued, bits>>
  BY DEF Reply
<1> HIDE DEF s
<1> QED
  BY <1>1, <1>2, OneRequest

-----------------------------------------------------------------------------
\* The credentials there are have the right type, and a JWT has a proof.
LEMMA CredentialsTyped ==
    ASSUME VerifyInv
    PROVE  /\ Credentials \subseteq Credential
           /\ \A c \in Credentials : c.format = "jwt" => c.vm # None
<1>1. issued \in Seq(Credential) /\ (\A n \in DOMAIN issued : issued[n] \in Credential)
  BY DEF VerifyInv, TypeOK
<1>2. \A n \in DOMAIN issued : issued[n].vm # None
  BY DEF VerifyInv, IssuedAll, Issued
<1> QED
  BY <1>1, <1>2, VerificationAssumption DEF Credentials

\* A request that begins is sound when its list of checks has those that the
\* profile asks for.
LEMMA StartKeeps ==
    ASSUME VerifyInv, NEW p \in Procs, NEW kind \in {"credential", "presentation"},
           NEW e \in Presentations \cup {None}, NEW k \in 1..MaxCreds,
           NEW cs \in [1..k -> Credentials], NEW ck \in Checks,
           NEW b \in Bindings \cup {None}, NEW todo \in Seq(Check),
           kind = "credential" => k = 1,
           kind = "presentation" => e # None,
           ck.credProof => \E j \in DOMAIN todo :
               todo[j] = (IF kind = "credential" THEN "proof" ELSE "credentialProof"),
           ck.status => \E j \in DOMAIN todo : todo[j] = "credentialStatus",
           Start(p, kind, e, cs, ck, b, todo)
    PROVE  VerifyInv'
<1> DEFINE gone == {m \in DOMAIN cs : Revoked(cs[m])}
           keys == [d \in DIDs |-> Keys(d)]
           s == [kind |-> kind, env |-> e, creds |-> cs, checks |-> ck, binding |-> b,
                 todo |-> todo, n |-> 1, phase |-> 1, list |-> None, got |-> {},
                 failed |-> {}, keys |-> keys, gone |-> gone, seen |-> gone,
                 fault |-> FALSE]
<1>1. /\ req' = [req EXCEPT ![p] = s]
      /\ requests < MaxRequests /\ requests' = requests + 1
      /\ UNCHANGED <<docs, rotated, issued, bits>>
  BY DEF Start
<1>2. k \in Nat /\ k >= 1 /\ k <= MaxCreds
  BY VerificationAssumption
<1>3. cs \in Seq(Credential) /\ Len(cs) = k /\ DOMAIN cs = 1..k
  <2>1. cs \in [1..k -> Credential]
    BY CredentialsTyped
  <2> QED
    BY <1>2, <2>1
<1>4. \A m \in DOMAIN cs : cs[m].format = "jwt" => cs[m].vm # None
  BY <1>3, CredentialsTyped
<1>5. keys \in [DIDs -> SUBSET VMs] /\ (\A d \in DIDs : KeysIn(docs, d) = keys[d])
  BY DEF VerifyInv, TypeOK, Keys, Methods, KeysIn
<1>6. gone \in SUBSET Nat
  BY <1>3
<1>7. \A m \in gone : m \in DOMAIN cs /\ RevokedIn(bits, cs[m])
  BY DEF Revoked, RevokedIn
<1>8. \A m \in DOMAIN cs : RevokedIn(bits, cs[m]) => m \in gone
  BY DEF Revoked, RevokedIn
<1> HIDE DEF gone, keys
<1>9. s \in Request /\ RequestBounds(s)
  BY <1>2, <1>3, <1>5, <1>6 DEF Request, RequestBounds
<1>10. KeysKept(s, docs) /\ JwtsSigned(s) /\ GoneAndSeen(s, bits)
  BY <1>4, <1>5, <1>7, <1>8 DEF KeysKept, JwtsSigned, GoneAndSeen
<1>11. HalfChecked(s) /\ ListFetched(s) /\ AcceptedSoFar(s, docs, rotated)
  BY DEF HalfChecked, ListFetched, AcceptedSoFar
<1>12. SignedSoFar(s)
  BY <1>3, <1>2 DEF SignedSoFar, ProofCheck, Waiting
<1>13. ReportedSoFar(s)
  BY <1>3, <1>7, <1>2 DEF ReportedSoFar, Waiting
<1>14. Sound(s, docs, rotated, bits)
  BY <1>10, <1>11, <1>12, <1>13 DEF Sound
<1>15. requests' \in 0..MaxRequests
  BY <1>1, VerificationAssumption DEF VerifyInv, TypeOK
<1> HIDE DEF s
<1> QED
  BY <1>1, <1>9, <1>14, <1>15, OneRequest
\* The check is one of t.
Asks(t, check) == \E j \in DOMAIN t : t[j] = check

\* A check is asked for when the profile asks for it.
LEMMA IfAsks ==
    ASSUME NEW b, NEW check \in Check
    PROVE  /\ If(b, <<check>>) \in Seq(Check)
           /\ b => Asks(If(b, <<check>>), check)
<1>1. <<check>> \in Seq(Check) /\ <<>> \in Seq(Check) /\ Asks(<<check>>, check)
  BY DEF Asks
<1> QED
  BY <1>1 DEF If

\* What either list asks for, both together do.
LEMMA BothAsk ==
    ASSUME NEW t \in Seq(Check), NEW u \in Seq(Check)
    PROVE  /\ t \o u \in Seq(Check)
           /\ \A check : Asks(t, check) \/ Asks(u, check) => Asks(t \o u, check)
<1>1. t \o u \in Seq(Check)
  OBVIOUS
<1>2. ASSUME NEW check, Asks(t, check)
      PROVE  Asks(t \o u, check)
  BY <1>2 DEF Asks
<1>3. ASSUME NEW check, Asks(u, check)
      PROVE  Asks(t \o u, check)
  <2>1. PICK j \in DOMAIN u : u[j] = check
    BY <1>3 DEF Asks
  <2>2. Len(t) + j \in DOMAIN (t \o u) /\ (t \o u)[Len(t) + j] = check
    BY <2>1
  <2> QED
    BY <2>2 DEF Asks
<1> QED
  BY <1>1, <1>2, <1>3

\* POST /verifier/profiles/{profileID}/credentials/verify.
LEMMA PostVerifyCredentialsKeeps ==
    ASSUME VerifyInv, NEW p \in Procs, PostVerifyCredentials(p)
    PROVE  VerifyInv'
<1>1. PICK c \in Credentials, ck \in Checks, b \in Bindings \cup {None} :
          Start(p, "credential", None, <<c>>, ck, b, VerifyCredential(ck))
  BY DEF PostVerifyCredentials
<1> DEFINE cs == <<c>>
           t == If(ck.credProof, <<"proof">>)
           u == If(ck.status, <<"credentialStatus">>)
           todo == t \o u
<1>2. cs \in [1..1 -> Credentials] /\ 1 \in 1..MaxCreds
  BY VerificationAssumption
<1>3. /\ t \in Seq(Check) /\ (ck.credProof => Asks(t, "proof"))
      /\ u \in Seq(Check) /\ (ck.status => Asks(u, "credentialStatus"))
  BY IfAsks DEF Check
<1>4. Start(p, "credential", None, cs, ck, b, todo)
  BY <1>1 DEF VerifyCredential
<1> HIDE DEF cs, t, u
<1>5. /\ todo \in Seq(Check)
      /\ ck.credProof => Asks(todo, "proof")
      /\ ck.status => Asks(todo, "credentialStatus")
  BY <1>3, BothAsk
<1> HIDE DEF todo
<1> QED
  BY <1>2, <1>4, <1>5, StartKeeps DEF Asks

\* The verification of a presentation.
LEMMA StartPresentationKeeps ==
    ASSUME VerifyInv, NEW p \in Procs, NEW e \in Presentations, NEW ck \in Checks,
           NEW b \in Bindings \cup {None}, StartPresentation(p, e, ck, b)
    PROVE  VerifyInv'
<1>1. PICK k \in 1..MaxCreds :
          \E cs \in [1..k -> Credentials] :
              Start(p, "presentation", e, cs, ck, b, VerifyPresentation(ck))
  BY DEF StartPresentation
<1>2. PICK cs \in [1..k -> Credentials] :
          Start(p, "presentation", e, cs, ck, b, VerifyPresentation(ck))
  BY <1>1
<1> DEFINE t == If(ck.proof, <<"proof">>)
           u == If(ck.credProof, <<"credentialProof">>)
           v == If(ck.status, <<"credentialStatus">>)
           todo == t \o u \o v
<1>3. /\ t \in Seq(Check)
      /\ u \in Seq(Check) /\ (ck.credProof => Asks(u, "credentialProof"))
      /\ v \in Seq(Check) /\ (ck.status => Asks(v, "credentialStatus"))
  BY IfAsks DEF Check
<1>4. Start(p, "presentation", e, cs, ck, b, todo)
  BY <1>2 DEF VerifyPresentation
<1> HIDE DEF t, u, v
<1> DEFINE tu == t \o u
<1>5. tu \in Seq(Check) /\ (ck.credProof => Asks(tu, "credentialProof"))
  BY <1>3, BothAsk
<1>6. todo = tu \o v
  OBVIOUS
<1> HIDE DEF tu
<1>7. /\ todo \in Seq(Check)
      /\ ck.credProof => Asks(todo, "credentialProof")
      /\ ck.status => Asks(todo, "credentialStatus")
  BY <1>3, <1>5, <1>6, BothAsk
<1>8. e # None
  BY VerificationAssumption
<1> HIDE DEF todo
<1> QED
  BY <1>4, <1>7, <1>8, StartKeeps DEF Asks

\* Both ways to it.
LEMMA VerifyPresentationKeeps ==
    ASSUME VerifyInv, NEW p \in Procs,
           PostVerifyPresentation(p) \/ verifyAuthorizationResponseTokens(p)
    PROVE  VerifyInv'
BY StartPresentationKeeps DEF PostVerifyPresentation, verifyAuthorizationResponseTokens

-----------------------------------------------------------------------------
\* Positions are numbers.
LEMMA PositionIsNatural ==
    ASSUME VerifyInv, NEW l
    PROVE  NextPosition(l) \in Nat
<1> DEFINE S == {n \in DOMAIN issued : issued[n].status.list = l}
<1>1. issued \in Seq(Credential)
  BY DEF VerifyInv, TypeOK
<1>2. DOMAIN issued = 1..Len(issued) /\ Len(issued) \in Nat
  BY <1>1
<1>3. IsFiniteSet(1..Len(issued))
  BY <1>2, FS_Interval
<1>4. IsFiniteSet(S)
  BY <1>2, <1>3, FS_Subset
<1> QED
  BY <1>4, FS_CardinalityType DEF NextPosition

\* What signing makes.
LEMMA SignedCredential ==
    ASSUME VerifyInv, NEW i \in Issuers, NEW opts \in SigningOpts,
           NEW vm \in KmsKeys, ValidateProofPurpose("assertionMethod", vm),
           NextPosition(i.list) < BitLen, NEW v \in SignedMethods(vm, i.format),
           NEW status, status = [list |-> i.list, idx |-> NextPosition(i.list),
                                 purpose |-> "revocation"]
    PROVE  LET c == SignCredential(i, v, opts, status) IN c \in Credential /\ Issued(rotated, c)
<1> DEFINE c == SignCredential(i, v, opts, status)
<1>1. /\ i.did \in DIDs /\ i.list \in Lists /\ i.format \in Format
      /\ vm \in VMs /\ DidOf[vm] \in DIDs
      /\ ListInfo[i.list].purpose = "revocation"
  BY VerificationAssumption, ListsAssumption
<1>2. /\ docs[DidOf[vm]]["assertionMethod"] \subseteq VMs
      /\ DidOf[vm] \notin rotated =>
            docs[DidOf[vm]]["assertionMethod"] = InitDocs[DidOf[vm]]["assertionMethod"]
      /\ DidOf[vm] \in KeyDIDs => DidOf[vm] \notin rotated
  BY <1>1 DEF VerifyInv, TypeOK, DocsKept, Purpose
<1>3. v \in VMs
  BY <1>1, <1>2 DEF SignedMethods
<1>4. status \in Position /\ status # None
  BY <1>1, PositionIsNatural, VerificationAssumption DEF Position
<1>5. /\ c.format = i.format /\ c.issuer = i.did /\ c.vm = v /\ c.purpose = "assertionMethod"
      /\ c.intact = TRUE /\ c.status = status
  BY <1>1 DEF SignCredential, signCredentialJWT, signCredentialLDP, Format
<1>6. c \in Credential
  <2>1. status \in Status
    BY <1>4 DEF Status
  <2>2. opts.binding \in Bindings \cup {None}
    BY DEF SigningOpts
  <2> QED
    BY <1>1, <1>3, <2>1, <2>2
    DEF SignCredential, signCredentialJWT, signCredentialLDP, Credential, Format, Purpose
<1>7. ASSUME LookedUp(c), DidOf[v] \notin rotated
      PROVE  v \in InitDocs[DidOf[v]]["assertionMethod"]
  <2>1. DidOf[v] \notin SovDIDs /\ (i.format = "jwt" => DidOf[v] \notin KeyDIDs)
    BY <1>5, <1>7 DEF LookedUp
  <2>2. CASE i.format = "ldp" /\ DidOf[vm] \in KeyDIDs
    <3>1. v \in InitDocs[DidOf[vm]]["assertionMethod"]
      BY <1>2, <2>2 DEF SignedMethods
    <3>2. DidOf[v] = DidOf[vm]
      BY <2>2, <3>1, KeyDocsAssumption DEF Purpose
    <3> QED
      BY <3>1, <3>2
  <2>3. CASE ~(i.format = "ldp" /\ DidOf[vm] \in KeyDIDs)
    <3>1. v = vm /\ DidOf[vm] \notin KeyDIDs
      BY <1>1, <2>1, <2>3 DEF SignedMethods, Format
    <3>2. v \in docs[DidOf[v]]["assertionMethod"]
      BY <2>1, <3>1 DEF ValidateProofPurpose, isValidVerificationMethod
    <3> QED
      BY <1>2, <1>7, <3>1, <3>2
  <2> QED
    BY <2>2, <2>3
<1>8. c.vm # None
  BY <1>3, <1>5, VerificationAssumption
<1>9. Issued(rotated, c)
  BY <1>1, <1>4, <1>5, <1>7, <1>8 DEF Issued
<1> QED
  BY <1>6, <1>9

\* The issuance of a credential.
LEMMA IssueCredentialKeeps ==
    ASSUME VerifyInv, NEW i \in Issuers, NEW opts \in SigningOpts, IssueCredential(i, opts)
    PROVE  VerifyInv'
<1> DEFINE vm == getSigner(i, opts)
           status == [list |-> i.list, idx |-> NextPosition(i.list), purpose |-> "revocation"]
<1>1. /\ vm \in KmsKeys /\ ValidateProofPurpose("assertionMethod", vm)
      /\ NextPosition(i.list) < BitLen /\ Len(issued) < MaxIssued
      /\ UNCHANGED <<docs, rotated, bits, req, requests>>
  BY DEF IssueCredential
<1>2. PICK v \in SignedMethods(vm, i.format) :
          issued' = Append(issued, SignCredential(i, v, opts, status))
  BY DEF IssueCredential
<1> HIDE DEF vm, status
<1> DEFINE c == SignCredential(i, v, opts, status)
<1>3. c \in Credential /\ Issued(rotated, c)
  BY <1>1, SignedCredential DEF status
<1> HIDE DEF c
<1>4. issued \in Seq(Credential) /\ issued' = Append(issued, c)
  BY <1>2 DEF VerifyInv, TypeOK, c
<1>5. /\ issued' \in Seq(Credential) /\ Len(issued') = Len(issued) + 1
      /\ \A n \in DOMAIN issued' : issued'[n] = c \/ (n \in DOMAIN issued /\ issued'[n] = issued[n])
  BY <1>3, <1>4
<1>6. TypeOK'
  BY <1>1, <1>4, <1>5, VerificationAssumption DEF VerifyInv, TypeOK
<1>7. IssuedAll'
  <2> SUFFICES ASSUME NEW n \in DOMAIN issued'
               PROVE  Issued(rotated, issued'[n])
    BY <1>1 DEF IssuedAll, Issued, LookedUp
  <2> QED
    BY <1>3, <1>5 DEF VerifyInv, IssuedAll
<1>8. DocsKept' /\ AllSound'
  BY <1>1 DEF VerifyInv, DocsKept, AllSound
<1> QED
  BY <1>6, <1>7, <1>8 DEF VerifyInv
-----------------------------------------------------------------------------
\* An update of DIDs keeps a request sound whose keys have grown by what was
\* published: what is acceptable afterwards was acceptable before.
LEMMA RotatedSound ==
    ASSUME NEW r \in Request, NEW s \in Request,
           s.kind = r.kind, s.creds = r.creds, s.checks = r.checks, s.binding = r.binding,
           s.todo = r.todo, s.n = r.n, s.phase = r.phase, s.list = r.list, s.got = r.got,
           s.failed = r.failed, s.fault = r.fault, SameHistory(r, s),
           \A x \in DIDs : r.keys[x] \subseteq s.keys[x],
           NEW D, NEW E, NEW R, NEW S, NEW B, RequestBounds(r), Sound(r, D, R, B),
           \A x \in DIDs : KeysIn(E, x) \subseteq s.keys[x],
           R \subseteq S, \A x \in DIDs \ S : E[x] = D[x]
    PROVE  Sound(s, E, S, B)
<1>1. KeysKept(s, E) /\ JwtsSigned(s) /\ GoneAndSeen(s, B)
  BY DEF Sound, KeysKept, JwtsSigned, GoneAndSeen, SameHistory
<1>2. \A m \in DOMAIN r.creds :
          /\ r.creds[m] \in Credential
          /\ r.creds[m].issuer \in DIDs
          /\ r.creds[m].vm \in VMs \cup {None}
  <2>1. \A m \in DOMAIN r.creds : r.creds[m] \in Credential
    BY DEF Request
  <2> QED
    BY <2>1 DEF Credential
<1>3. HalfChecked(s)
  <2> SUFFICES ASSUME At(s, "proof") \/ At(s, "credentialProof"), ~OfEnvelopeIn(s),
                      s.phase = 2
               PROVE  /\ r.creds[r.n].format = "ldp"
                      /\ r.creds[r.n].vm # None =>
                            /\ r.creds[r.n].intact
                            /\ r.creds[r.n].vm \in s.keys[DidOf[r.creds[r.n].vm]]
    BY DEF HalfChecked
  <2>1. /\ r.creds[r.n].format = "ldp"
        /\ r.creds[r.n].vm # None =>
              /\ r.creds[r.n].intact
              /\ r.creds[r.n].vm \in r.keys[DidOf[r.creds[r.n].vm]]
    BY DEF Sound, HalfChecked, At, OfEnvelopeIn
  <2>2. r.n \in DOMAIN r.creds
    BY DEF Request, RequestBounds
  <2> QED
    BY <1>2, <2>1, <2>2, VerificationAssumption
<1>4. SignedSoFar(s)
  <2>1. \A m \in DOMAIN r.creds : Signed(r, r.creds[m]) => Signed(s, r.creds[m])
    BY <1>2 DEF Signed
  <2>2. \A m : Waiting(s, ProofCheck(s), m) = Waiting(r, ProofCheck(r), m)
    BY DEF Waiting, ProofCheck
  <2> QED
    BY <2>1, <2>2 DEF Sound, SignedSoFar, ProofCheck
<1>5. ListFetched(s) /\ ReportedSoFar(s)
  BY DEF Sound, ListFetched, ReportedSoFar, Waiting, At, SameHistory
<1>6. ASSUME NEW c \in Credential, Acceptable(s, E, S, c)
      PROVE  Acceptable(r, D, R, c)
  <2>1. c.issuer \in DIDs /\ c.status \in Position
    BY <1>6 DEF Credential, Status, Acceptable, Issued
  <2>2. DidOf[ListInfo[c.status.list].vm] \in DIDs
    BY <2>1, VerificationAssumption DEF Position
  <2>3. /\ E[c.issuer] = D[c.issuer]
        /\ E[DidOf[ListInfo[c.status.list].vm]] = D[DidOf[ListInfo[c.status.list].vm]]
    BY <1>6, <2>1, <2>2 DEF Acceptable
  <2>4. Issued(R, c)
    BY <1>6 DEF Acceptable, Issued
  <2>5. /\ KeysIn(E, c.issuer) = KeysIn(D, c.issuer)
        /\ KeysIn(E, DidOf[ListInfo[c.status.list].vm])
              = KeysIn(D, DidOf[ListInfo[c.status.list].vm])
    BY <2>3 DEF KeysIn
  <2> QED
    BY <1>6, <2>4, <2>5 DEF Acceptable
<1>7. AcceptedSoFar(s, E, S)
  <2>1. Undisturbed(s, E, S) => Undisturbed(r, D, R)
    BY <1>2, <1>6 DEF Undisturbed, SameHistory
  <2> QED
    BY <2>1 DEF Sound, AcceptedSoFar, Allowed
<1> QED
  BY <1>1, <1>3, <1>4, <1>5, <1>7 DEF Sound

\* A DID is updated.
LEMMA RotateKeyKeeps ==
    ASSUME VerifyInv, NEW d \in DIDs, NEW doc \in Updates, RotateKey(d, doc)
    PROVE  VerifyInv'
<1>1. /\ d \notin KeyDIDs
      /\ docs' = [docs EXCEPT ![d] = doc]
      /\ rotated' = rotated \cup {d}
      /\ req' = [p \in Procs |-> IF req[p] = Idle THEN Idle ELSE Gathered(req[p], d, doc)]
      /\ UNCHANGED <<issued, bits, requests>>
  BY DEF RotateKey
<1>2. docs \in [DIDs -> [Purpose -> SUBSET VMs]] /\ doc \in [Purpose -> SUBSET VMs]
  BY VerificationAssumption DEF VerifyInv, TypeOK
<1>3. /\ docs' \in [DIDs -> [Purpose -> SUBSET VMs]]
      /\ docs'[d] = doc
      /\ \A x \in DIDs : x # d => docs'[x] = docs[x]
  BY <1>1, <1>2
<1>4. /\ rotated \subseteq rotated' /\ rotated' \subseteq DIDs
      /\ \A x \in DIDs \ rotated' : docs'[x] = docs[x]
  BY <1>1, <1>3 DEF VerifyInv, TypeOK
<1>5. DocsKept'
  BY <1>1, <1>4 DEF VerifyInv, DocsKept
<1>6. Methods(doc) \subseteq VMs /\ KeysIn(docs', d) = Methods(doc)
  BY <1>2, <1>3 DEF Methods, KeysIn
<1>7. \A x \in DIDs : x # d => KeysIn(docs', x) = KeysIn(docs, x)
  BY <1>3 DEF KeysIn
<1>8. ASSUME NEW p \in Procs, req[p] # Idle
      PROVE  /\ req'[p] \in Request /\ RequestBounds(req'[p])
             /\ Sound(req'[p], docs', rotated', bits')
  <2> DEFINE r == req[p]
             s == Gathered(r, d, doc)
  <2>1. r \in Request /\ RequestBounds(r) /\ Sound(r, docs, rotated, bits) /\ req'[p] = s
    BY <1>1, <1>8 DEF VerifyInv, TypeOK, AllSound, RequestBounds
  <2> HIDE DEF r
  <2> DEFINE ks == [x \in DIDs |-> IF x = d THEN r.keys[x] \cup Methods(doc)
                                   ELSE r.keys[x]]
  <2>2. ks \in [DIDs -> SUBSET VMs]
    BY <1>6, <2>1 DEF Request
  <2>3. s = [r EXCEPT !.keys = ks]
    BY DEF Gathered
  <2>4. \A x \in DIDs : r.keys[x] \subseteq ks[x] /\ (x = d => Methods(doc) \subseteq ks[x])
    OBVIOUS
  <2> HIDE DEF s, ks
  <2>5. /\ s \in Request /\ s.keys = ks
        /\ s.kind = r.kind /\ s.env = r.env /\ s.creds = r.creds /\ s.checks = r.checks
        /\ s.binding = r.binding /\ s.todo = r.todo /\ s.n = r.n /\ s.phase = r.phase
        /\ s.list = r.list /\ s.got = r.got /\ s.failed = r.failed /\ s.fault = r.fault
        /\ SameHistory(r, s)
    BY <2>1, <2>2, <2>3 DEF Request, SameHistory
  <2>6. RequestBounds(s)
    BY <2>1, <2>5 DEF RequestBounds
  <2>7. \A x \in DIDs : KeysIn(docs', x) \subseteq s.keys[x]
    <3>1. \A x \in DIDs : KeysIn(docs, x) \subseteq r.keys[x]
      BY <2>1 DEF Sound, KeysKept
    <3> QED
      BY <1>6, <1>7, <2>4, <2>5, <3>1
  <2>8. \A x \in DIDs : r.keys[x] \subseteq s.keys[x]
    BY <2>4, <2>5
  <2>9. Sound(s, docs', rotated', bits)
    BY <1>4, <2>1, <2>5, <2>7, <2>8, RotatedSound
  <2> QED
    BY <1>1, <2>1, <2>5, <2>6, <2>9
<1>9. /\ req' \in [Procs -> Request \cup {Idle}]
      /\ \A p \in Procs :
            req'[p] # Idle => RequestBounds(req'[p]) /\ Sound(req'[p], docs', rotated', bits')
  <2>1. \A p \in Procs : req[p] = Idle => req'[p] = Idle
    BY <1>1
  <2>2. \A p \in Procs : req'[p] \in Request \cup {Idle}
    BY <1>8, <2>1
  <2>3. \A T, F : F = [p \in Procs |-> F[p]] /\ (\A p \in Procs : F[p] \in T)
                   => F \in [Procs -> T]
    OBVIOUS
  <2>4. req' = [p \in Procs |-> req'[p]]
    BY <1>1
  <2> QED
    BY <1>8, <2>1, <2>2, <2>3, <2>4
<1>10. TypeOK'
  BY <1>1, <1>3, <1>4, <1>9 DEF VerifyInv, TypeOK, RequestBounds
<1>11. AllSound'
  BY <1>9 DEF AllSound
<1>12. IssuedAll'
  <2>1. \A n \in DOMAIN issued : Issued(rotated, issued[n]) => Issued(rotated', issued[n])
    BY <1>4 DEF Issued
  <2> QED
    BY <1>1, <2>1 DEF VerifyInv, IssuedAll
<1> QED
  BY <1>5, <1>10, <1>11, <1>12 DEF VerifyInv

\* A request with another history, one that has seen no less and in which no
\* more is gone, is sound when the history is true.
LEMMA HistorySound ==
    ASSUME NEW r \in Request, NEW s \in Request, Same(r, s),
           s.todo = r.todo, s.n = r.n, s.phase = r.phase, s.list = r.list, s.got = r.got,
           s.failed = r.failed, s.fault = r.fault,
           s.gone \subseteq r.gone, r.seen \subseteq s.seen,
           NEW D, NEW R, NEW B, NEW C, Sound(r, D, R, B), GoneAndSeen(s, C)
    PROVE  Sound(s, D, R, C)
<1>1. KeysKept(s, D) /\ JwtsSigned(s)
  BY DEF Sound, KeysKept, JwtsSigned, Same
<1>2. HalfChecked(s)
  BY DEF Sound, HalfChecked, Same, At, OfEnvelopeIn
<1>3. SignedSoFar(s)
  BY DEF Sound, SignedSoFar, Same, Signed, ProofCheck, Waiting
<1>4. ListFetched(s)
  BY DEF Sound, ListFetched, Same, At
<1>5. ReportedSoFar(s)
  BY DEF Sound, ReportedSoFar, Same, Waiting
<1>6. AcceptedSoFar(s, D, R)
  BY DEF Sound, AcceptedSoFar, Undisturbed, Acceptable, Allowed, Same
<1> QED
  BY <1>1, <1>2, <1>3, <1>4, <1>5, <1>6 DEF Sound

\* The bit of a credential that this server issued changes.
LEMMA UpdateVCStatusKeeps ==
    ASSUME VerifyInv, NEW n \in DOMAIN issued, NEW revoke \in BOOLEAN, UpdateVCStatus(n, revoke)
    PROVE  VerifyInv'
<1> DEFINE s == issued[n].status
           old == bits[s.list]
           set == IF revoke THEN old \cup {s.idx} ELSE old \ {s.idx}
           hit(r) == {m \in DOMAIN r.creds :
                         /\ r.creds[m].status # None
                         /\ r.creds[m].status.list = s.list
                         /\ r.creds[m].status.idx = s.idx}
           moved(r) == IF revoke THEN [r EXCEPT !.seen = @ \cup hit(r)]
                       ELSE [r EXCEPT !.gone = @ \ hit(r)]
<1>1. /\ bits' = [bits EXCEPT ![s.list] = set]
      /\ req' = [p \in Procs |-> IF req[p] = Idle THEN Idle ELSE moved(req[p])]
      /\ UNCHANGED <<docs, rotated, issued, requests>>
  BY DEF UpdateVCStatus
<1>2. issued[n] \in Credential /\ Issued(rotated, issued[n])
  BY DEF VerifyInv, TypeOK, IssuedAll
<1>3. s.list \in Lists /\ s.idx \in 0..(BitLen - 1)
  <2>1. s \in Position
    BY <1>2 DEF Credential, Status, Issued
  <2> QED
    BY <1>2, <2>1, VerificationAssumption DEF Position, Issued
<1>4. bits \in [Lists -> SUBSET (0..(BitLen - 1))]
  BY DEF VerifyInv, TypeOK
<1>5. /\ bits' \in [Lists -> SUBSET (0..(BitLen - 1))]
      /\ bits'[s.list] = set
      /\ \A l \in Lists : l # s.list => bits'[l] = bits[l]
  BY <1>1, <1>3, <1>4
<1>6. ASSUME NEW p \in Procs, req[p] # Idle
      PROVE  /\ req'[p] \in Request /\ RequestBounds(req'[p])
             /\ Sound(req'[p], docs', rotated', bits')
  <2> DEFINE r == req[p]
             t == moved(r)
  <2>0. r \in Request /\ RequestBounds(r) /\ Sound(r, docs, rotated, bits) /\ req'[p] = t
    BY <1>1, <1>6 DEF VerifyInv, TypeOK, AllSound, RequestBounds
  <2> HIDE DEF r
  <2>1. hit(r) \in SUBSET Nat
    BY <2>0 DEF Request
  <2>2. /\ t \in Request
        /\ Same(r, t)
        /\ t.todo = r.todo /\ t.n = r.n /\ t.phase = r.phase /\ t.list = r.list /\ t.got = r.got
        /\ t.failed = r.failed /\ t.fault = r.fault
        /\ t.gone = IF revoke THEN r.gone ELSE r.gone \ hit(r)
        /\ t.seen = IF revoke THEN r.seen \cup hit(r) ELSE r.seen
    BY <2>0, <2>1 DEF Request, Same
  <2> HIDE DEF t
  <2>3. \A m \in DOMAIN r.creds : r.creds[m].status \in Position \cup {None}
    <3>1. \A m \in DOMAIN r.creds : r.creds[m] \in Credential
      BY <2>0 DEF Request
    <3> QED
      BY <3>1 DEF Credential, Status
  <2>4. GoneAndSeen(r, bits)
    BY <2>0 DEF Sound
  <2>5. ASSUME NEW m \in t.gone
        PROVE  m \in DOMAIN t.creds /\ RevokedIn(bits', t.creds[m])
    <3>1. m \in r.gone /\ m \in DOMAIN r.creds /\ RevokedIn(bits, r.creds[m]) /\ t.creds = r.creds
      BY <2>2, <2>4, <2>5 DEF GoneAndSeen, Same
    <3>2. r.creds[m].status \in Position
      BY <2>3, <3>1 DEF RevokedIn
    <3>3. ~revoke => m \notin hit(r)
      BY <2>2, <2>5
    <3> QED
      BY <1>5, <3>1, <3>2, <3>3 DEF RevokedIn, Position
  <2>6. ASSUME NEW m \in DOMAIN t.creds, RevokedIn(bits', t.creds[m])
        PROVE  m \in t.seen
    <3>1. m \in DOMAIN r.creds /\ RevokedIn(bits', r.creds[m])
      BY <2>2, <2>6 DEF Same
    <3>2. r.creds[m].status \in Position
      BY <2>3, <3>1 DEF RevokedIn
    <3>3. RevokedIn(bits, r.creds[m]) \/ (revoke /\ m \in hit(r))
      BY <1>5, <3>1, <3>2 DEF RevokedIn, Position
    <3> QED
      BY <2>2, <2>4, <3>1, <3>3 DEF GoneAndSeen
  <2>7. GoneAndSeen(t, bits')
    BY <2>5, <2>6 DEF GoneAndSeen
  <2>8. t.gone \subseteq r.gone /\ r.seen \subseteq t.seen
    BY <2>2
  <2>9. Sound(t, docs, rotated, bits')
    BY <2>0, <2>2, <2>7, <2>8, HistorySound
  <2>10. RequestBounds(t)
    BY <2>0, <2>2 DEF RequestBounds, Same
  <2> QED
    BY <1>1, <2>0, <2>2, <2>9, <2>10
<1> HIDE DEF moved
<1>7. \A p \in Procs : req[p] = Idle => req'[p] = Idle
  BY <1>1
<1>8. \A p \in Procs :
          /\ req'[p] \in Request \cup {Idle}
          /\ req'[p] # Idle => RequestBounds(req'[p]) /\ Sound(req'[p], docs', rotated', bits')
  BY <1>6, <1>7
<1>9. req' \in [Procs -> Request \cup {Idle}]
  <2>1. \A T, F : F = [p \in Procs |-> F[p]] /\ (\A p \in Procs : F[p] \in T)
                   => F \in [Procs -> T]
    OBVIOUS
  <2>2. req' = [p \in Procs |-> req'[p]]
    BY <1>1
  <2>3. \A p \in Procs : req'[p] \in Request \cup {Idle}
    BY <1>8
  <2> QED
    BY <2>1, <2>2, <2>3
<1> HIDE DEF s, hit
<1>10. TypeOK'
  <2>1. UNCHANGED <<docs, rotated, issued, requests>>
    BY <1>1
  <2> QED
    BY <1>5, <1>8, <1>9, <2>1 DEF VerifyInv, TypeOK, RequestBounds
<1>11. AllSound'
  BY <1>8 DEF AllSound
<1>12. DocsKept' /\ IssuedAll'
  BY <1>1 DEF VerifyInv, DocsKept, IssuedAll, Issued, LookedUp
<1> QED
  BY <1>10, <1>11, <1>12 DEF VerifyInv
-----------------------------------------------------------------------------
\* The invariant holds at the start.
LEMMA InitVerify == Init => VerifyInv
<1> SUFFICES ASSUME Init
             PROVE  VerifyInv
  OBVIOUS
<1>1. TypeOK
  BY VerificationAssumption DEF Init, TypeOK, Idle
<1>2. DocsKept /\ IssuedAll /\ AllSound
  BY DEF Init, DocsKept, IssuedAll, AllSound
<1> QED
  BY <1>1, <1>2 DEF VerifyInv

\* Every step keeps the invariant.
LEMMA NextVerify == VerifyInv /\ [Next]_vars => VerifyInv'
<1> SUFFICES ASSUME VerifyInv, [Next]_vars
             PROVE  VerifyInv'
  OBVIOUS
<1>1. CASE \E i \in Issuers, opts \in SigningOpts : IssueCredential(i, opts)
  BY <1>1, IssueCredentialKeeps
<1>2. CASE \E n \in DOMAIN issued, revoke \in BOOLEAN : UpdateVCStatus(n, revoke)
  BY <1>2, UpdateVCStatusKeeps
<1>3. CASE \E d \in DIDs, doc \in Updates : RotateKey(d, doc)
  BY <1>3, RotateKeyKeeps
<1>4. ASSUME NEW p \in Procs,
             \/ PostVerifyCredentials(p)
             \/ PostVerifyPresentation(p) \/ verifyAuthorizationResponseTokens(p)
      PROVE  VerifyInv'
  BY <1>4, PostVerifyCredentialsKeeps, VerifyPresentationKeeps
<1>5. ASSUME NEW p \in Procs, ParseProof(p) \/ ValidateProof(p)
      PROVE  VerifyInv'
  BY <1>5, ParseProofKeeps, ValidateProofKeeps
<1>6. ASSUME NEW p \in Procs, GetRevocationVC(p) \/ ValidateVCStatus(p)
      PROVE  VerifyInv'
  BY <1>6, GetRevocationVCKeeps, ValidateVCStatusKeeps
<1>7. ASSUME NEW p \in Procs, CallFails(p) \/ Reply(p)
      PROVE  VerifyInv'
  BY <1>7, CallFailsKeeps, ReplyKeeps
<1>8. CASE UNCHANGED vars
  BY <1>8 DEF vars, VerifyInv, TypeOK, DocsKept, IssuedAll, Issued, LookedUp, AllSound
<1> QED
  BY <1>1, <1>2, <1>3, <1>4, <1>5, <1>6, <1>7, <1>8 DEF Next

\* The invariant of verification holds in every state.
THEOREM VerifyInvariance == Spec => []VerifyInv
<1> QED
  BY InitVerify, NextVerify, PTL DEF Spec

\* Type correctness: no check goes past the last credential of its request.
THEOREM VerificationTypeCorrectness == Spec => []TypeOK
<1>1. VerifyInv => TypeOK
  BY DEF VerifyInv
<1> QED
  BY <1>1, VerifyInvariance, PTL

\* What a request that is done has in its record.
LEMMA DoneSound ==
    ASSUME VerifyInv, NEW p \in Procs, Done(p)
    PROVE  /\ req[p] \in Request
           /\ Sound(req[p], docs, rotated, bits)
           /\ \A check, m : ~Waiting(req[p], check, m)
BY DEF Done, VerifyInv, TypeOK, AllSound, Waiting

\* A credential that passes its proof check is unchanged and signed by a key its
\* issuer had at some time of the request (ValidateProof and its second
\* resolution of the DID), whatever keys are removed and published meanwhile.
THEOREM PassedIsSigned == Spec => []IssuerSigned
<1>1. VerifyInv => IssuerSigned
  <2> SUFFICES ASSUME VerifyInv, NEW p \in Procs, Done(p), ProofPassed(p),
                      NEW m \in DOMAIN req[p].creds
               PROVE  Signed(req[p], req[p].creds[m])
    BY DEF IssuerSigned, Signed
  <2>1. SignedSoFar(req[p]) /\ (\A check : ~Waiting(req[p], check, m))
    BY DoneSound DEF Sound
  <2> QED
    BY <2>1 DEF SignedSoFar, ProofPassed, ProofCheck
<1> QED
  BY <1>1, VerifyInvariance, PTL

\* A credential that is revoked all the time of a request is reported, wherever
\* it stands in a presentation (the loops of the status checks).
THEOREM RevocationIsReported == Spec => []RevokedReported
<1>1. VerifyInv => RevokedReported
  BY DoneSound DEF RevokedReported, Sound, ReportedSoFar
<1> QED
  BY <1>1, VerifyInvariance, PTL

\* What this server issued passes all checks when nothing disturbs them: signing
\* (SignCredential) and verification (ValidateProof, ValidateVCStatus) agree, for
\* credentials whose status list was made under the DID that signs them.
THEOREM IssuedIsAccepted == Spec => []IssuedAccepted
<1>1. VerifyInv => IssuedAccepted
  <2> SUFFICES ASSUME VerifyInv, NEW p \in Procs, Done(p), ~req[p].fault, req[p].seen = {},
                      \A m \in DOMAIN req[p].creds :
                          LET c == req[p].creds[m]
                          IN /\ \E n \in DOMAIN issued : issued[n] = c
                             /\ c.issuer = DidOf[c.vm]
                             /\ c.issuer \notin rotated
                             /\ LookedUp(c) \/ c.vm \in Keys(c.issuer)
                             /\ ListUsable(c.status.list, c.issuer)
                             /\ req[p].kind = "credential" /\ c.format = "ldp" =>
                                    c.binding = req[p].binding
               PROVE  req[p].failed \subseteq
                          (IF req[p].kind = "credential" THEN {} ELSE {"proof"})
    BY DEF IssuedAccepted
  <2>1. \A m \in DOMAIN req[p].creds : Acceptable(req[p], docs, rotated, req[p].creds[m])
    BY DEF VerifyInv, IssuedAll, Acceptable, Keys, Methods, KeysIn, ListUsable
  <2>2. AcceptedSoFar(req[p], docs, rotated)
    BY DoneSound DEF Sound
  <2> QED
    BY <2>1, <2>2 DEF AcceptedSoFar, Undisturbed, Allowed
<1> QED
  BY <1>1, VerifyInvariance, PTL
===============================================================================
