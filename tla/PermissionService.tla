-------------------------- MODULE PermissionService --------------------------
(***************************************************************************)
(* PUT /admin/permissions/users/{id} as concurrent requests run it:        *)
(* PermissionController::update and PermissionService::savePermissions.    *)
(* A request locks the users rows of its actor and its target in ascending *)
(* order of id, re-reads what it decides on under the locks, writes a      *)
(* difference and its audit rows in one transaction and, after the commit, *)
(* clears the target's login token.  Rows become visible at the commit.    *)
(***************************************************************************)
EXTENDS PermissionRules, FiniteSets

CONSTANTS
    Savers,     \* PHP workers that may serve a save at the same time
    NoSaver,    \* the owner of a row nobody has locked
    Requests,   \* the permission arrays clients submit
    MaxSaves    \* bound: requests accepted in a behaviour

ASSUME SaversAssumption ==
    /\ IsFiniteSet(Savers) /\ NoSaver \notin Savers
    /\ Requests \subseteq SUBSET Codes
    /\ MaxSaves \in Nat

VARIABLES
    users,      \* ids of the committed rows of users
    grants,     \* grants[u]: the committed permission_code rows of u
    audit,      \* audit[u][c]: committed audit rows of u and c since the seed
    lockOwner,  \* lockOwner[u]: who holds the row of u FOR UPDATE
    pc,         \* pc[p]: where request p is in savePermissions
    req,        \* req[p]: actor, target and codes of the request
    current,    \* current[p]: $current, the target's grants as p read them
    saves       \* how many requests were accepted

dbVars == <<users, grants, audit>>
vars == <<users, grants, audit, lockOwner, pc, req, current, saves>>

RequestRecords == [actor : UserIds, target : UserIds, codes : SUBSET Codes]

\* The request variable of an idle worker.
NoRequest == [actor |-> Root, target |-> Root, codes |-> {}]

InTransaction == {"locking", "reading", "writing"}
AfterCommit == {"clearing", "responding"}

TypeOK ==
    /\ users \in SUBSET UserIds
    /\ grants \in [UserIds -> SUBSET Codes]
    /\ audit \in [UserIds -> [Codes -> Seq(AuditEntries)]]
    /\ lockOwner \in [UserIds -> Savers \cup {NoSaver}]
    /\ pc \in [Savers -> {"idle"} \cup InTransaction \cup AfterCommit]
    /\ req \in [Savers -> RequestRecords]
    /\ current \in [Savers -> SUBSET Codes]
    /\ saves \in 0 .. MaxSaves

Init ==
    /\ users = UserIds
    /\ grants = Seed
    /\ audit = [u \in UserIds |-> EmptyLog]
    /\ lockOwner = [u \in UserIds |-> NoSaver]
    /\ pc = [p \in Savers |-> "idle"]
    /\ req = [p \in Savers |-> NoRequest]
    /\ current = [p \in Savers |-> {}]
    /\ saves = 0

Goto(p, label) == pc' = [pc EXCEPT ![p] = label]

\* The transaction ends and gives its rows back.
ReleaseRows(p) ==
    lockOwner' = [u \in UserIds |->
                     IF lockOwner[u] = p THEN NoSaver ELSE lockOwner[u]]

\* The worker is done with the request and its variables.
Finish(p) ==
    /\ Goto(p, "idle")
    /\ req' = [req EXCEPT ![p] = NoRequest]
    /\ current' = [current EXCEPT ![p] = {}]

\* What p computes from $current and the request.
Normalized(p) == Normalize(current[p], req[p].codes)

-----------------------------------------------------------------------------
\* The check_permission middleware let the actor through, and the controller
\* found both users: all of it read before any row is locked.
Begin(p) ==
    /\ pc[p] = "idle" /\ saves < MaxSaves
    /\ \E actor, target \in users, codes \in Requests :
        /\ Manage \in grants[actor]
        /\ req' = [req EXCEPT ![p] =
                      [actor |-> actor, target |-> target, codes |-> codes]]
    /\ saves' = saves + 1
    /\ Goto(p, "locking")
    /\ UNCHANGED <<users, grants, audit, lockOwner, current>>

\* Mutant: only the row that is written is locked.
TargetRow(p) == {req[p].target} \cap users

\* The rows lockSaveUsers selects, among those that still exist.
SelectedRows(p) == {req[p].actor, req[p].target} \cap users

\* Mutant: the actor's row first, whatever the ids.
LockActorFirst(p) ==
    /\ pc[p] = "locking"
    /\ \E u \in SelectedRows(p) :
        /\ lockOwner[u] = NoSaver
        /\ \/ u = req[p].actor
           \/ \A v \in SelectedRows(p) \ {u} : lockOwner[v] = p
        /\ lockOwner' = [lockOwner EXCEPT ![u] = p]
    /\ UNCHANGED <<users, grants, audit, pc, req, current, saves>>

\* lockForUpdate takes the selected rows one by one, in ascending id.
LockRow(p) ==
    /\ pc[p] = "locking"
    /\ \E u \in SelectedRows(p) :
        /\ lockOwner[u] = NoSaver
        /\ \A v \in SelectedRows(p) : v < u => lockOwner[v] = p
        /\ lockOwner' = [lockOwner EXCEPT ![u] = p]
    /\ UNCHANGED <<users, grants, audit, pc, req, current, saves>>

\* Mutant: the transaction goes on once it has its first row.
OneRowLocked(p) == \E u \in SelectedRows(p) : lockOwner[u] = p

RowsLocked(p) == \A u \in SelectedRows(p) : lockOwner[u] = p

\* Mutant: the middleware's check of the actor is trusted.
MaySaveUnchecked(p) == {req[p].actor, req[p].target} \subseteq users

\* lockSaveUsers finds both rows and the actor's grant.
MaySave(p) ==
    /\ req[p].target \in users
    /\ req[p].actor \in users
    /\ Manage \in grants[req[p].actor]

Authorize(p) ==
    /\ pc[p] = "locking" /\ RowsLocked(p)
    /\ MaySave(p)
    /\ Goto(p, "reading")
    /\ UNCHANGED <<users, grants, audit, lockOwner, req, current, saves>>

\* ModelNotFoundException or AuthorizationException: the transaction rolls back.
Deny(p) ==
    /\ pc[p] = "locking" /\ RowsLocked(p)
    /\ ~MaySave(p)
    /\ ReleaseRows(p)
    /\ Finish(p)
    /\ UNCHANGED <<users, grants, audit, saves>>

ReadCurrent(p) ==
    /\ pc[p] = "reading"
    /\ current' = [current EXCEPT ![p] = grants[req[p].target]]
    /\ Goto(p, "writing")
    /\ UNCHANGED <<users, grants, audit, lockOwner, req, saves>>

\* The request passes normalisation and the two rules on its outcome.
ChangeAllowed(p) ==
    /\ Known(req[p].codes)
    /\ ManageChangeAllowed(req[p].actor, current[p], Normalized(p))
    /\ RootTargetAllowed(req[p].actor, req[p].target, Normalized(p))

\* 422 for an unknown code, 403 for a forbidden change.
Reject(p) ==
    /\ pc[p] = "writing"
    /\ ~ChangeAllowed(p)
    /\ ReleaseRows(p)
    /\ Finish(p)
    /\ UNCHANGED <<users, grants, audit, saves>>

\* insertGrantsAndLogs, deleteGrantsAndInsertLogs and the commit.  The unique
\* key of user_permissions admits no second row for a granted code.
Commit(p) ==
    LET target  == req[p].target
        granted == Granted(current[p], Normalized(p))
        revoked == Revoked(current[p], Normalized(p))
    IN  /\ pc[p] = "writing"
        /\ ChangeAllowed(p)
        /\ granted \cap grants[target] = {}
        /\ grants' = [grants EXCEPT ![target] = (@ \cup granted) \ revoked]
        /\ audit' = [audit EXCEPT ![target] =
                        Audited(@, granted, revoked, req[p].actor)]
        /\ ReleaseRows(p)
        /\ Goto(p, IF SensitiveDifference(current[p], Normalized(p))
                   THEN "clearing" ELSE "responding")
        /\ UNCHANGED <<users, req, current, saves>>

\* Users::clearToken, one Redis DEL after the commit.
ClearToken(p) ==
    /\ pc[p] = "clearing"
    /\ Goto(p, "responding")
    /\ UNCHANGED <<users, grants, audit, lockOwner, req, current, saves>>

Respond(p) ==
    /\ pc[p] = "responding"
    /\ Finish(p)
    /\ UNCHANGED <<users, grants, audit, lockOwner, saves>>

\* The database or Redis fails, a lock wait times out, or the worker dies: an
\* open transaction rolls back, a committed one stays committed.
Fail(p) ==
    /\ pc[p] # "idle"
    /\ ReleaseRows(p)
    /\ Finish(p)
    /\ UNCHANGED <<users, grants, audit, saves>>

\* A row of users nobody has locked is deleted with its grants (ON DELETE
\* CASCADE); no endpoint does it, the service only has to survive it.
DeleteUser(u) ==
    /\ u \in users /\ lockOwner[u] = NoSaver
    /\ users' = users \ {u}
    /\ grants' = [grants EXCEPT ![u] = {}]
    /\ UNCHANGED <<audit, lockOwner, pc, req, current, saves>>

Step(p) ==
    \/ Authorize(p) \/ Deny(p) \/ ReadCurrent(p) \/ Reject(p) \/ Commit(p)
    \/ ClearToken(p) \/ Respond(p)

Next ==
    \/ \E p \in Savers :
        Begin(p) \/ LockRow(p) \/ Step(p) \/ Fail(p)
    \/ \E u \in UserIds : DeleteUser(u)

Spec == Init /\ [][Next]_vars

\* A running request keeps running, and InnoDB grants a row lock to its waiters
\* in the order they came: no waiter is passed over for ever.
FairSpec ==
    Spec /\ \A p \in Savers : WF_vars(Step(p)) /\ SF_vars(LockRow(p))
-----------------------------------------------------------------------------
(***************************************************************************)
(* Properties                                                              *)
(***************************************************************************)

\* What a request has established under its locks stays true until it commits:
\* both rows exist and are its own, its actor may administer permissions, and
\* $current is what the table holds.
RowsHeld(p) ==
    pc[p] \in {"reading", "writing"} =>
        /\ {req[p].actor, req[p].target} \subseteq users
        /\ lockOwner[req[p].actor] = p
        /\ lockOwner[req[p].target] = p
        /\ Manage \in grants[req[p].actor]

SnapshotCurrent(p) ==
    pc[p] = "writing" => current[p] = grants[req[p].target]

Isolation == \A p \in Savers : RowsHeld(p) /\ SnapshotCurrent(p)

\* Every committed set of grants holds the dependencies of its catalog codes:
\* no interleaving of saves leaves an action permission without its page.
GrantsClosed == \A u \in UserIds : DependencyClosed(grants[u])

\* While the root account exists it can administer permissions: no save, by
\* anybody, concurrent with any other, takes 'permissions.manage' from it.
RootKeepsManage == Root \in users => Manage \in grants[Root]

\* Replaying the audit rows of a code over the seeded grants gives the grants
\* in force: each row was a real change (grants and revocations alternate)
\* and no committed change is missing from the log.
Replay(u, c) ==
    IF audit[u][c] = <<>> THEN c \in Seed[u]
    ELSE audit[u][c][Len(audit[u][c])].action = "grant"

\* The action of the i-th row, alternating from the seeded state.
Expected(u, c, i) == IF (c \in Seed[u]) = (i % 2 = 1) THEN "revoke" ELSE "grant"

AuditExplainsGrants ==
    /\ \A u \in users, c \in Codes : c \in grants[u] <=> Replay(u, c)
    /\ \A u \in UserIds, c \in Codes : \A i \in 1 .. Len(audit[u][c]) :
          audit[u][c][i].action = Expected(u, c, i)

\* Whoever holds or lost 'permissions.manage' got it from, or lost it to, the
\* root: the audit log of that code has no other operator.
OnlyRootMovesManage ==
    \A u \in UserIds : \A i \in 1 .. Len(audit[u][Manage]) :
        audit[u][Manage][i].operator = Root

\* The whole transaction with its locks is one indivisible Save, decided on
\* the grants its actor and its target have at the commit.
Register == INSTANCE PermissionRegister
ImplementsRegister == Register!RegisterSpec

\* p's next row is u, and another request holds it.
Awaits(p, u) ==
    /\ pc[p] = "locking" /\ u \in SelectedRows(p)
    /\ lockOwner[u] \notin {p, NoSaver}
    /\ \A v \in SelectedRows(p) : v < u => lockOwner[v] = p

\* Of any requests at least one waits for none of the others: whoever is actor and
\* whoever target, and whatever rows are deleted, waits never close into a circle.
NoCircularWait ==
    \A group \in (SUBSET Savers) \ {{}} :
        \E p \in group : \A u \in UserIds : Awaits(p, u) => lockOwner[u] \notin group

\* A save always ends: requests that lock each other's rows never wait for
\* one another for ever.
SavesFinish == \A p \in Savers : pc[p] # "idle" ~> pc[p] = "idle"
=============================================================================
