--------------------------- MODULE Authorization ---------------------------
(***************************************************************************)
(* The role-based checks of security/authorization_service.py, as pure     *)
(* predicates.  A role is a model value; a rule is the set of roles it     *)
(* names.  A check that raises AuthorizationError in the code is FALSE     *)
(* here.                                                                   *)
(***************************************************************************)

\* require_permission: the permission code is among the user's codes.
HasPermission(codes, code) == code \in codes

\* `configured_roles or set(fallback)`: an empty database rule means that no
\* rule was configured, and the definition's own roles apply.
AllowedRoles(configured, fallback) ==
    IF configured # {} THEN configured ELSE fallback

\* require_server_access and require_tool_access: an empty rule admits all.
Admits(roles, configured, fallback) ==
    LET allowed == AllowedRoles(configured, fallback)
    IN  allowed # {} => roles \cap allowed # {}
=============================================================================
