---------------------------- MODULE VPInteraction ----------------------------
(***************************************************************************)
(* What the OIDC4VP service promises the users of its API and the          *)
(* subscribers of its events: an interaction has an owner, is announced,   *)
(* offers one nonce in its request object, is answered once at most, by a  *)
(* presentation for that nonce and only after somebody read the request    *)
(* object, and is reported as succeeded once at most, when its claims can  *)
(* be retrieved.  Requests, retries, the nonce collection and the clock do *)
(* not appear.                                                             *)
(***************************************************************************)
EXTENDS Naturals, Sequences

CONSTANTS
    TxIDs,     \* the interactions
    Profiles,  \* verifier profiles
    OrgOf,     \* OrgOf[profile]: the organization of the profile
    Nonces,    \* nonce values
    Claims,    \* what a presentation gives
    None

VARIABLES
    owner,     \* owner[tx]: the profile that started the interaction
    offer,     \* offer[tx]: the nonce in the published request object
    answer,    \* answer[tx]: the claims of the interaction
    signed,    \* signed[tx]: the nonce the presentation was made for
    told,      \* the events published, in order
    retrieved  \* <<org, tx, claims>> returned to API users

vars == <<owner, offer, answer, signed, told, retrieved>>

Init ==
    /\ owner = [tx \in TxIDs |-> None]
    /\ offer = [tx \in TxIDs |-> None]
    /\ answer = [tx \in TxIDs |-> None]
    /\ signed = [tx \in TxIDs |-> None]
    /\ told = <<>>
    /\ retrieved = {}

Said(type, tx) == \E i \in DOMAIN told : told[i] = [type |-> type, tx |-> tx]

Say(type, tx) ==
    /\ told' = Append(told, [type |-> type, tx |-> tx])
    /\ UNCHANGED <<owner, offer, answer, signed, retrieved>>

\* An interaction that nobody has heard of begins.
Begin(tx) ==
    /\ owner[tx] = None
    /\ \A i \in DOMAIN told : told[i].tx # tx
    /\ \E pr \in Profiles : owner' = [owner EXCEPT ![tx] = pr]
    /\ UNCHANGED <<offer, answer, signed, told, retrieved>>

\* Its first event.
Announce(tx) ==
    /\ owner[tx] # None
    /\ \A i \in DOMAIN told : told[i].tx # tx
    /\ Say("initiated", tx)

\* Its request object is published, once.
Offer(tx) ==
    /\ Said("initiated", tx)
    /\ offer[tx] = None
    /\ \E n \in Nonces : offer' = [offer EXCEPT ![tx] = n]
    /\ UNCHANGED <<owner, answer, signed, told, retrieved>>

\* Somebody reads the request object.
Scan(tx) ==
    /\ offer[tx] # None
    /\ Say("qrScanned", tx)

\* A presentation for the nonce on offer gives the claims, once.
Answer(tx) ==
    /\ Said("qrScanned", tx)
    /\ offer[tx] # None
    /\ answer[tx] = None
    /\ \E c \in Claims : answer' = [answer EXCEPT ![tx] = c]
    /\ signed' = [signed EXCEPT ![tx] = offer[tx]]
    /\ UNCHANGED <<owner, offer, told, retrieved>>

\* The verifier is told to retrieve the claims, once.
Report(tx) ==
    /\ answer[tx] # None
    /\ ~Said("succeeded", tx)
    /\ Say("succeeded", tx)

\* A user of the owner's organization retrieves the claims.
Retrieve(tx) ==
    /\ owner[tx] # None
    /\ answer[tx] # None
    /\ retrieved' = retrieved \cup {<<OrgOf[owner[tx]], tx, answer[tx]>>}
    /\ UNCHANGED <<owner, offer, answer, signed, told>>

Next ==
    \E tx \in TxIDs :
        \/ Begin(tx) \/ Announce(tx) \/ Offer(tx) \/ Scan(tx)
        \/ Answer(tx) \/ Report(tx) \/ Retrieve(tx)

Spec == Init /\ [][Next]_vars
=============================================================================
