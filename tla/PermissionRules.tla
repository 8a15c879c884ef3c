--------------------------- MODULE PermissionRules ---------------------------
(***************************************************************************)
(* The rules PermissionService checks on a change of grants, and the audit *)
(* rows it writes for one.                                                 *)
(***************************************************************************)
EXTENDS PermissionCatalog, Sequences

CONSTANTS
    UserIds,    \* ids of the users table, ordered by <
    Root,       \* config('permissions.root_user_id')
    Seed        \* the grants written by the deployment's seed script

ASSUME UsersAssumption ==
    /\ UserIds \subseteq Nat
    /\ Root \in UserIds

ASSUME SeedAssumption ==
    /\ Seed \in [UserIds -> SUBSET Codes]
    /\ \A u \in UserIds : DependencyClosed(Seed[u])
    /\ Manage \in Seed[Root]

\* A row of permission_change_logs, without its target and its code.
Entry(action, operator) == [action |-> action, operator |-> operator]

AuditEntries == [action : {"grant", "revoke"}, operator : UserIds]

\* The log starts after the rows the seed script wrote for its own grants.
EmptyLog == [c \in Codes |-> <<>>]

\* insertAuditLog for every granted, then for every revoked code.
Audited(log, granted, revoked, operator) ==
    [c \in Codes |->
        IF c \in granted THEN Append(log[c], Entry("grant", operator))
        ELSE IF c \in revoked THEN Append(log[c], Entry("revoke", operator))
        ELSE log[c]]

\* Mutant: the rule looks at grants of the code and forgets revocations.
ManageGrantAllowed(actor, current, normalized) ==
    Manage \in normalized \ current => actor = Root

\* assertPermissionManageChangeAllowed: only the root moves 'permissions.manage'.
ManageChangeAllowed(actor, current, normalized) ==
    (Manage \in current) # (Manage \in normalized) => actor = Root

\* Mutant: the root may do to itself what it likes.
RootTargetAllowedToRoot(actor, target, normalized) ==
    target = Root => actor = Root

\* assertRootTargetAllowed: only the root edits the root, and keeps the code.
RootTargetAllowed(actor, target, normalized) ==
    target = Root => Manage \in normalized /\ actor = Root
=============================================================================
