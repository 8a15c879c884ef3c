----------------------- MODULE PermissionNormalization -----------------------
(***************************************************************************)
(* normalizeRequestedPermissions as PermissionService.php computes it: two *)
(* recursive walks over the dependency graph, removeDependents and         *)
(* addDependencies, called for one code after another by two foreach       *)
(* loops.  The recursion is a call stack: a frame is a call in progress,   *)
(* with the codes its own foreach has still to visit, and the codes of the *)
(* frames are the $visited of the innermost call.  The module states that  *)
(* the walks compute the closures of PermissionCatalog, for every catalog, *)
(* cyclic ones included, and every order of the loops.                     *)
(***************************************************************************)
EXTENDS Naturals, Sequences, FiniteSets

CONSTANT CatalogCodes

ASSUME CatalogCodesAssumption == CatalogCodes # {} /\ IsFiniteSet(CatalogCodes)

VARIABLES
    dependsOn,    \* the catalog: CatalogCodes -> SUBSET CatalogCodes
    current,      \* the codes the user holds
    requested,    \* the request as submitted
    result,       \* the working copy of $requested
    loop,         \* "remove", "add" or "done"
    pending,      \* codes the current foreach has still to visit
    stack         \* the calls of the walk in progress, the innermost last

input == <<dependsOn, current, requested>>
vars == <<dependsOn, current, requested, result, loop, pending, stack>>

Reference == INSTANCE PermissionCatalog WITH
    Codes <- CatalogCodes, Catalog <- CatalogCodes, DependsOn <- dependsOn,
    Sensitive <- {}, Manage <- CHOOSE c \in CatalogCodes : TRUE

\* The codes one call of a walk goes through for the code c.
Dependents(c) == {k \in CatalogCodes : c \in dependsOn[k]}
Neighbours(c) == IF loop = "remove" THEN Dependents(c) ELSE dependsOn[c]

Frame(c) == [code |-> c, left |-> Neighbours(c)]
Top == stack[Len(stack)]

\* Mutant: $visited is not handed down, only the caller is known.
VisitedCaller == IF stack = <<>> THEN {} ELSE {Top.code}

Visited == {stack[i].code : i \in DOMAIN stack}

\* What the body of a walk's foreach does to the working copy for a code.
Edit(k) == IF loop = "remove" THEN result \ {k} ELSE result \cup {k}

Init ==
    /\ dependsOn \in [CatalogCodes -> SUBSET CatalogCodes]
    /\ current \in SUBSET CatalogCodes
    /\ requested \in SUBSET CatalogCodes
    /\ result = requested
    /\ loop = "remove"
    /\ pending = current \ requested
    /\ stack = <<>>

\* One turn of foreach ($explicitlyRemoved as $parent) or of foreach
\* ($requested as $permissionCode): the outermost call of a walk.
Visit ==
    /\ stack = <<>>
    /\ \E c \in pending :
        /\ pending' = pending \ {c}
        /\ stack' = <<Frame(c)>>
    /\ UNCHANGED <<input, result, loop>>

\* Mutant: the walk does not call itself, only direct neighbours are met.
DescendOnce ==
    /\ stack # <<>>
    /\ \E k \in Top.left :
        /\ result' = Edit(k)
        /\ stack' = [stack EXCEPT ![Len(stack)].left = @ \ {k}]
    /\ UNCHANGED <<input, loop, pending>>

\* One turn of the foreach inside a walk: the working copy loses or gains the
\* code, and the walk calls itself for it.  A call for a visited code returns
\* at once.
Descend ==
    /\ stack # <<>>
    /\ \E k \in Top.left :
        LET rest == [stack EXCEPT ![Len(stack)].left = @ \ {k}]
        IN  /\ result' = Edit(k)
            /\ stack' = IF k \in Visited THEN rest ELSE Append(rest, Frame(k))
    /\ UNCHANGED <<input, loop, pending>>

\* The innermost call has gone through its codes.
Return ==
    /\ stack # <<>> /\ Top.left = {}
    /\ stack' = SubSeq(stack, 1, Len(stack) - 1)
    /\ UNCHANGED <<input, result, loop, pending>>

\* Mutant: the second foreach goes through the request as submitted.
RemoveDoneOfRequest ==
    /\ loop = "remove" /\ pending = {} /\ stack = <<>>
    /\ loop' = "add"
    /\ pending' = requested
    /\ UNCHANGED <<input, result, stack>>

\* The second foreach iterates over the array as it is when the loop starts.
RemoveDone ==
    /\ loop = "remove" /\ pending = {} /\ stack = <<>>
    /\ loop' = "add"
    /\ pending' = result
    /\ UNCHANGED <<input, result, stack>>

AddDone ==
    /\ loop = "add" /\ pending = {} /\ stack = <<>>
    /\ loop' = "done"
    /\ UNCHANGED <<input, result, pending, stack>>

Next == Visit \/ Descend \/ Return \/ RemoveDone \/ AddDone

Spec == Init /\ [][Next]_vars

-----------------------------------------------------------------------------
\* No walk is inside itself for the same code: the recursion of a cyclic
\* catalog is never deeper than the catalog has codes, so every walk returns.
RecursionIsBounded == Len(stack) <= Cardinality(CatalogCodes)

\* The code's walks end with the normal form of the reference definition,
\* whatever the catalog (cycles included) and the order of the loops.
ComputesNormalForm ==
    loop = "done" => result = Reference!Normalize(current, requested)

\* A code the user held and the request leaves out never comes back through
\* the dependency completion of another requested code.
RemovalWins == loop # "remove" => result \cap (current \ requested) = {}
=============================================================================
