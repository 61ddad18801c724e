--------------------------- MODULE StatusRegistry ---------------------------
(***************************************************************************)
(* What the credential status service promises: a registry in which every  *)
(* issued credential owns an entry of its own, a new credential is not     *)
(* revoked, and the status of an entry changes only by a request about the *)
(* credential that owns it.                                                *)
(***************************************************************************)
EXTENDS Naturals, Sequences

CONSTANT Slots  \* the entries (profile, list, index) of all status lists

VARIABLES
    entries,  \* entries[n]: the entry of the n-th issued credential
    revoked   \* the entries whose status is "revoked"

vars == <<entries, revoked>>

Init ==
    /\ entries = <<>>
    /\ revoked = {}

\* A credential is issued with an entry nobody has and that is not revoked.
Issue ==
    /\ entries' # <<>>
    /\ LET s == entries'[Len(entries')]
       IN /\ s \in Slots
          /\ s \notin revoked
          /\ \A n \in DOMAIN entries : entries[n] # s
          /\ entries' = Append(entries, s)
    /\ UNCHANGED revoked

\* The status of one issued credential is set.
SetStatus ==
    /\ \E n \in DOMAIN entries :
          revoked' \in {revoked \cup {entries[n]}, revoked \ {entries[n]}}
    /\ UNCHANGED entries

Next == Issue \/ SetStatus

Spec == Init /\ [][Next]_vars
=============================================================================
