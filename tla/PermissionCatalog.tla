------------------------- MODULE PermissionCatalog -------------------------
(***************************************************************************)
(* The permission catalog of backend-api/config/permissions.php and the    *)
(* pure part of PermissionService: how a requested set of permission codes *)
(* is normalised against the codes a user already holds.                   *)
(***************************************************************************)
EXTENDS Naturals

CONSTANTS
    Codes,      \* every code a row of user_permissions may carry
    Catalog,    \* the codes the configuration knows
    DependsOn,  \* DependsOn[c]: the depends_on list of a catalog entry
    Sensitive,  \* the codes whose entry has sensitive = true
    Manage      \* 'permissions.manage'

\* assertCatalogDependenciesKnown refuses a catalog with an unknown dependency,
\* so past it every dependency is a catalog code.
ASSUME CatalogAssumption ==
    /\ Catalog \subseteq Codes
    /\ DependsOn \in [Catalog -> SUBSET Catalog]
    /\ Sensitive \subseteq Catalog
    /\ Manage \in Catalog

(***************************************************************************)
(* A set of codes is dependency closed when it holds every dependency of   *)
(* each of its catalog codes; it is dependent closed when it holds every   *)
(* catalog code that depends on one of its codes.                          *)
(***************************************************************************)
DependencyClosed(S) == \A c \in S \cap Catalog : DependsOn[c] \subseteq S

DependentClosed(S) == \A c \in Catalog : DependsOn[c] \cap S # {} => c \in S

\* addDependencies for every code of S: the least dependency-closed set
\* of catalog codes that contains S.
WithDependencies ==
    [S \in SUBSET Catalog |->
        {c \in Catalog : \A T \in SUBSET Catalog :
            S \subseteq T /\ DependencyClosed(T) => c \in T}]

\* What removeDependents takes away for every code of S, and S itself.
WithDependents ==
    [S \in SUBSET Catalog |->
        {c \in Catalog : \A T \in SUBSET Catalog :
            S \subseteq T /\ DependentClosed(T) => c \in T}]

\* Catalog codes the user holds and the request leaves out.
ExplicitlyRemoved(current, requested) == (current \cap Catalog) \ requested

Known(requested) == requested \subseteq Catalog

\* Mutant: removed codes go last, without the codes that depend on them.
NormalizeWithoutCascade(current, requested) ==
    WithDependencies[requested] \ ExplicitlyRemoved(current, requested)

\* normalizeRequestedPermissions, for a request of catalog codes.
Normalize(current, requested) ==
    WithDependencies[
        requested \ WithDependents[ExplicitlyRemoved(current, requested)]]

Granted(current, normalized) == normalized \ current

Revoked(current, normalized) == current \ normalized

\* containsSensitiveDifference
SensitiveDifference(current, normalized) ==
    (Granted(current, normalized) \cup Revoked(current, normalized))
        \cap Sensitive # {}
=============================================================================
