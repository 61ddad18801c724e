--------------------------- MODULE MCServerStart ---------------------------
(* Start-up parameters and files for TLC. *)
EXTENDS ServerStart, TLC

CONSTANTS r1, r2, pA, pB, c1, c2

\* Issuer profiles: one that brings its signing DID, one with the same ID that
\* gets a did:key, and one that gets a did:orb.  Verifiers: one without OIDC.
Orb == [id |-> pA, create |-> TRUE, kms |-> FALSE, oidc |-> FALSE,
        method |-> "orb", keyType |-> "ECDSA", format |-> "ldp"]
KeyJWT == [Orb EXCEPT !.id = pB, !.method = "key", !.keyType = "BLS",
                      !.format = "jwt"]
Given == [KeyJWT EXCEPT !.create = FALSE]
Ion == [Orb EXCEPT !.oidc = TRUE, !.method = "ion"]

\* Parameters without profiles and clients.
Plain == [hostURL |-> TRUE, oAuthSecret |-> TRUE, promURL |-> FALSE,
          metrics |-> None, lockKey |-> TRUE, secretsDB |-> TRUE,
          mode |-> None, certPool |-> None, devMode |-> None,
          remote |-> None, caCerts |-> TRUE, resolver |-> TRUE,
          dbType |-> "mongodb", kmsType |-> "local",
          issuers |-> << >>, verifiers |-> << >>, clients |-> << >>]

Full == [Plain EXCEPT !.issuers = <<Given, KeyJWT, Orb>>, !.verifiers = <<Orb, Ion>>,
                      !.clients = <<c1, c1, c2>>]

\* A clients file in another order; the profiles with the other kind first.
Other == [Plain EXCEPT !.issuers = <<Orb, Given>>, !.clients = <<c2, c1>>]

\* Something that is not good: the mode that is the default but cannot be
\* named, a database type of the KMS that the storage does not have, ...
Bad ==
    {[Plain EXCEPT !.mode = "combined"],
     [Full EXCEPT !.dbType = "mem", !.clients = << >>, !.verifiers = << >>],
     [Plain EXCEPT !.lockKey = FALSE],
     [Plain EXCEPT !.clients = None],
     [Plain EXCEPT !.issuers = <<[Orb EXCEPT !.keyType = "BLS"]>>],
     [Plain EXCEPT !.issuers = <<[Orb EXCEPT !.kms = TRUE]>>],
     [Plain EXCEPT !.verifiers = <<[Ion EXCEPT !.method = "key"]>>]}

MCParamSets == (r1 :> {Full} \cup Bad) @@ (r2 :> {Other})

MCMaxStarts == (r1 :> 2) @@ (r2 :> 1)
=============================================================================
