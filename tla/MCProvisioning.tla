--------------------------- MODULE MCProvisioning ---------------------------
(* Values for Provisioning: a person whose e-mail becomes that of a default    *)
(* user, and another person whose username is the same.                       *)
EXTENDS Provisioning, TLC

CONSTANTS web, cli

Ann == <<"ann", "a.org">>
Ann2 == <<"ann", "b.org">>
Admin == <<"admin", "a.org">>

MCProviders == {"google"}
MCProfiles ==
    {[provider |-> "google", subject |-> 1, email |-> Ann],
     [provider |-> "google", subject |-> 1, email |-> Admin],
     [provider |-> "google", subject |-> 2, email |-> Ann2]}
MCDefaultRole == [p \in MCProviders |-> "Partner"]
MCSeededRoles == {"Administrator", "Viewer"}
MCDefaultUsers == {[name |-> <<"admin">>, email |-> Admin, role |-> "Administrator"]}
\* Two configurations of the same servers, listed in different orders.
MCRulesOf ==
    web :> ("crm" :> {"Viewer"} @@ "erp" :> {})
    @@ cli :> ("crm" :> {"Administrator"} @@ "erp" :> {"Viewer"})
MCTurn ==
    [k \in {"delete", "insert"} |->
        web :> ("crm" :> 1 @@ "erp" :> 2) @@ cli :> ("crm" :> 2 @@ "erp" :> 1)]
MCNear == {{"crm", "erp"}}
=============================================================================
