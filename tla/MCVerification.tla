--------------------------- MODULE MCVerification ---------------------------
(***************************************************************************)
(* Model-checking instance of Verification: issuer A, whose keys are       *)
(* rotated, issuer K with a did:key that has two names, holder H.          *)
(***************************************************************************)
EXTENDS Verification

Doc(a, h) == [u \in Purpose |-> CASE u = "assertionMethod" -> a
                                  [] u = "authentication" -> h
                                  [] OTHER -> {}]

MCDIDs == {"A", "K", "H"}
MCVMs == {"a", "a2", "k", "kAlias", "h"}
MCDidOf == [v \in MCVMs |-> CASE v \in {"a", "a2"} -> "A"
                              [] v \in {"k", "kAlias"} -> "K"
                              [] OTHER -> "H"]
MCInitDocs == [d \in MCDIDs |-> CASE d = "A" -> Doc({"a"}, {})
                                  [] d = "K" -> Doc({"k"}, {})
                                  [] OTHER -> Doc({}, {"h"})]

\* A's key a is replaced by a2.
MCUpdates == {Doc({"a2"}, {})}

ListOf(d, vm, hub) == [issuer |-> d, vm |-> vm, hub |-> hub, purpose |-> "revocation"]

MCListInfo == [l \in {"la", "lk"} |->
                  IF l = "la" THEN ListOf("A", "a", "A") ELSE ListOf("K", "k", None)]
MCLists == {"la", "lk"}
Reply1(st, es) == [status |-> st, replies |-> <<[ok |-> TRUE, entries |-> es]>>]
MCHubReplies == {Reply1("none", <<None, "lk", "la">>), Reply1("ok", <<"lk">>),
                 Reply1("error", <<"la">>)}

MCIssuers == {[did |-> "A", creator |-> "a", format |-> "jwt", list |-> "la"],
              [did |-> "K", creator |-> "kAlias", format |-> "ldp", list |-> "lk"]}

\* A JWT and a linked data proof of A by the key that is published later, and a
\* credential that was changed, whose status is in a list of another issuer.
ForeignOf(format, vm, intact, status) ==
    [format |-> format, issuer |-> "A", vm |-> vm,
     purpose |-> IF format = "ldp" THEN "assertionMethod" ELSE "other",
     binding |-> None, intact |-> intact, status |-> status]
MCForeign == {ForeignOf("jwt", "a2", TRUE, None), ForeignOf("ldp", "a2", TRUE, None),
              ForeignOf("ldp", "a", FALSE,
                        [list |-> "lk", idx |-> 0, purpose |-> "revocation"])}

EnvelopeOf(format) ==
    [format |-> format, holder |-> "H", vm |-> "h", purpose |-> "authentication",
     binding |-> IF format = "ldp" THEN "b" ELSE None, intact |-> TRUE]
MCPresentations == {EnvelopeOf("ldp"), EnvelopeOf("jwt")}

MCChecks == {[proof |-> TRUE, credProof |-> TRUE, status |-> TRUE,
              format |-> {"ldp"}, credFormat |-> Format]}
=============================================================================
