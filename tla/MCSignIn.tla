------------------------------ MODULE MCSignIn ------------------------------
(***************************************************************************)
(* One address that is invited, asks for codes, presents right and wrong   *)
(* ones, signs in, is suspended and has its invitation revoked.            *)
(***************************************************************************)
EXTENDS SignIn, TLC

Symmetric == Permutations(Workers)

(* Codes issued, and those asked for that have not been issued yet. *)
Asked == begun + Cardinality({w \in Workers : req[w].pc \in {"allowlist", "issuing"}})

(* Bounds the model: a third code is asked for only while nothing has      *)
(* expired, nobody is suspended, no invitation is revoked and no request   *)
(* has died.                                                               *)
ThirdUndisturbed ==
    Asked > 2 =>
        /\ deaths = 0
        /\ \A c \in Cids : ~codes[c].expired
        /\ \A i \in Iids : ~invites[i].expired /\ invites[i].status # "revoked"
        /\ \A a \in Emails : account[a] # "suspended"
=============================================================================
