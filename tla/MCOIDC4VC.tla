----------------------------- MODULE MCOIDC4VC ------------------------------
(***************************************************************************)
(* Model-checking instances of OIDC4VC.                                    *)
(***************************************************************************)
EXTENDS OIDC4VC, TLC

Symmetry == Permutations(Procs) \cup Permutations(OpStates)

MCCredTypes == {"PermanentResidentCard", "Degree"}

\* One profile that can issue resident cards and degrees by a template each,
\* one that can not be used.
Ready == [active |-> TRUE, oidc |-> TRUE, format |-> "ldp",
          templates |-> <<[id |-> "t1", type |-> "PermanentResidentCard"],
                          [id |-> "t2", type |-> "Degree"]>>]
Inactive == [Ready EXCEPT !.active = FALSE]

MCProfiles == {Ready, Inactive}

\* The wallets use the code flow, so an issuer has to initiate with "code"; a
\* transaction that takes the default can not be authorized.
InitRequestOf(pr, t, o, rt) ==
    [profile |-> pr, template |-> t, opState |-> o, rt |-> rt, scope |-> {}]

MCInitRequests ==
    UNION {{InitRequestOf(Ready, "t1", o, "code"), InitRequestOf(Ready, "t2", o, "code"),
            InitRequestOf(Ready, "t1", o, None), InitRequestOf(Ready, None, o, "code"),
            InitRequestOf(Inactive, "t1", o, "code")} : o \in OpStates}

MCAuthRequests == [opState : OpStates, rt : {"code"}, scope : {{"openid"}, {"profile"}}]

MCPushRequests ==
    {[opState |-> o, par |-> b,
      details |-> [openid |-> TRUE, type |-> "PermanentResidentCard", format |-> f]] :
        o \in OpStates, b \in BOOLEAN, f \in {"ldp_vc", "jwt_vc"}}
=============================================================================
