------------------------------ MODULE Accounts ------------------------------
(***************************************************************************)
(* What federated login promises (security/auth_service.py): an external   *)
(* identity is linked to one account for ever, and whoever presents it is  *)
(* given sessions of that account only.                                    *)
(***************************************************************************)
CONSTANTS Identities, Names, None

VARIABLES
    owner,         \* Identities -> the account it is linked to, or None
    given          \* the identities that are being given a session, with its account

Init ==
    /\ owner = [i \in Identities |-> None]
    /\ given = {}

\* The identity is given a session of the account it is linked to, or is linked
\* to one now.
SignIn ==
    \E i \in Identities, n \in Names :
       /\ given' = given \cup {<<i, n>>}
       /\ owner[i] \in {None, n}
       /\ owner' = [owner EXCEPT ![i] = n]

\* The session is in the hands of the user.
Forget == given' \in SUBSET given /\ UNCHANGED owner

Next == SignIn \/ Forget

Spec == Init /\ [][Next]_<<owner, given>>
=============================================================================
