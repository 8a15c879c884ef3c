------------------------- MODULE PermissionRegister -------------------------
(***************************************************************************)
(* What the permission service promises: the grants of every user, changed *)
(* by one indivisible Save at a time, each together with its audit rows.   *)
(***************************************************************************)
EXTENDS PermissionRules

VARIABLES
    users,      \* ids of the rows of users
    grants,     \* grants[u]: the permission_code rows of user u
    audit       \* audit[u][c]: the log of u and c since the seed, oldest first

registerVars == <<users, grants, audit>>

RegisterInit ==
    /\ users = UserIds
    /\ grants = Seed
    /\ audit = [u \in UserIds |-> EmptyLog]

\* An administrator replaces the grants of a user by a requested set.
Save(actor, target, codes) ==
    LET current    == grants[target]
        normalized == Normalize(current, codes)
    IN  /\ {actor, target} \subseteq users
        /\ Manage \in grants[actor]
        /\ Known(codes)
        /\ ManageChangeAllowed(actor, current, normalized)
        /\ RootTargetAllowed(actor, target, normalized)
        /\ grants' = [grants EXCEPT ![target] = normalized]
        /\ audit' = [audit EXCEPT ![target] =
             Audited(@, Granted(current, normalized),
                     Revoked(current, normalized), actor)]
        /\ UNCHANGED users

\* A row of users is deleted; the foreign key removes its grants with it.
DeleteUser(u) ==
    /\ u \in users
    /\ users' = users \ {u}
    /\ grants' = [grants EXCEPT ![u] = {}]
    /\ UNCHANGED audit

RegisterNext ==
    \/ \E actor, target \in UserIds, codes \in SUBSET Catalog :
            Save(actor, target, codes)
    \/ \E u \in UserIds : DeleteUser(u)

RegisterSpec == RegisterInit /\ [][RegisterNext]_registerVars
=============================================================================
