----------------------- MODULE PermissionServiceProofs -----------------------
(***************************************************************************)
(* Proofs about PermissionService, for every catalog, every set of users,  *)
(* every number of concurrent requests and every set of submitted arrays.  *)
(***************************************************************************)
EXTENDS PermissionService, TLAPS, FiniteSetTheorems, WellFoundedInduction

-----------------------------------------------------------------------------
(***************************************************************************)
(* What normalisation returns, for every catalog and every request         *)
(***************************************************************************)

\* The dependency closure of a set of catalog codes contains the set, stays in
\* the catalog and is closed.
LEMMA ClosureFacts ==
    ASSUME NEW S \in SUBSET Catalog
    PROVE  /\ WithDependencies[S] \in SUBSET Catalog
           /\ S \subseteq WithDependencies[S]
           /\ DependencyClosed(WithDependencies[S])
<1>1. WithDependencies[S] =
          {c \in Catalog : \A T \in SUBSET Catalog :
               S \subseteq T /\ DependencyClosed(T) => c \in T}
  BY DEF WithDependencies
<1>2. S \subseteq WithDependencies[S]
  BY <1>1
<1>3. ASSUME NEW c \in WithDependencies[S], NEW d \in DependsOn[c]
      PROVE  d \in WithDependencies[S]
  <2>1. c \in Catalog /\ d \in Catalog
    BY <1>1, <1>3, CatalogAssumption
  <2>2. ASSUME NEW T \in SUBSET Catalog, S \subseteq T, DependencyClosed(T)
        PROVE  d \in T
    <3>1. c \in T
      BY <1>1, <2>2
    <3>2. QED
      BY <2>1, <2>2, <3>1, <1>3 DEF DependencyClosed
  <2>3. QED
    BY <1>1, <2>1, <2>2
<1>4. DependencyClosed(WithDependencies[S])
  BY <1>1, <1>3 DEF DependencyClosed
<1>5. QED
  BY <1>1, <1>2, <1>4

\* The closure is the least closed set: it lies inside every other one.
LEMMA ClosureLeast ==
    ASSUME NEW S \in SUBSET Catalog, NEW T \in SUBSET Catalog,
           S \subseteq T, DependencyClosed(T)
    PROVE  WithDependencies[S] \subseteq T
BY DEF WithDependencies

\* The dependents of a set contain the set and every code that reaches it.
LEMMA DependentFacts ==
    ASSUME NEW S \in SUBSET Catalog
    PROVE  /\ WithDependents[S] \in SUBSET Catalog
           /\ S \subseteq WithDependents[S]
           /\ DependentClosed(WithDependents[S])
<1>1. WithDependents[S] =
          {c \in Catalog : \A T \in SUBSET Catalog :
               S \subseteq T /\ DependentClosed(T) => c \in T}
  BY DEF WithDependents
<1>2. ASSUME NEW c \in Catalog, DependsOn[c] \cap WithDependents[S] # {}
      PROVE  c \in WithDependents[S]
  <2>1. PICK d \in DependsOn[c] : d \in WithDependents[S]
    BY <1>2
  <2>2. ASSUME NEW T \in SUBSET Catalog, S \subseteq T, DependentClosed(T)
        PROVE  c \in T
    <3>1. d \in T
      BY <1>1, <2>1, <2>2
    <3>2. QED
      BY <2>1, <2>2, <3>1 DEF DependentClosed
  <2>3. QED
    BY <1>1, <2>2
<1>3. DependentClosed(WithDependents[S])
  BY <1>2 DEF DependentClosed
<1>4. QED
  BY <1>1, <1>3

LEMMA DependentLeast ==
    ASSUME NEW S \in SUBSET Catalog, NEW T \in SUBSET Catalog,
           S \subseteq T, DependentClosed(T)
    PROVE  WithDependents[S] \subseteq T
BY DEF WithDependents

\* normalizeRequestedPermissions returns a dependency-closed set of catalog
\* codes, whatever was requested and whatever the user held.
THEOREM NormalFormClosed ==
    ASSUME NEW old \in SUBSET Codes, NEW requested \in SUBSET Catalog
    PROVE  /\ Normalize(old, requested) \in SUBSET Catalog
           /\ DependencyClosed(Normalize(old, requested))
<1>1. requested \ WithDependents[ExplicitlyRemoved(old, requested)]
          \in SUBSET Catalog
  OBVIOUS
<1>2. QED
  BY <1>1, ClosureFacts DEF Normalize

\* A catalog code the user held and the request leaves out is not in the
\* result: completing the dependencies of the other codes never brings it back.
THEOREM RemovedStaysRemoved ==
    ASSUME NEW old \in SUBSET Codes, NEW requested \in SUBSET Catalog
    PROVE  Normalize(old, requested)
               \cap ExplicitlyRemoved(old, requested) = {}
<1> DEFINE Gone == WithDependents[ExplicitlyRemoved(old, requested)]
<1>1. ExplicitlyRemoved(old, requested) \in SUBSET Catalog
  BY DEF ExplicitlyRemoved
<1>2. /\ Gone \in SUBSET Catalog
      /\ ExplicitlyRemoved(old, requested) \subseteq Gone
      /\ DependentClosed(Gone)
  BY <1>1, DependentFacts
<1>3. DependencyClosed(Catalog \ Gone)
  <2>1. SUFFICES ASSUME NEW c \in Catalog \ Gone, NEW d \in DependsOn[c]
                 PROVE  d \in Catalog \ Gone
    BY DEF DependencyClosed
  <2>2. d \in Catalog
    BY CatalogAssumption
  <2>3. d \notin Gone
    BY <1>2 DEF DependentClosed
  <2>4. QED
    BY <2>2, <2>3
<1>4. requested \ Gone \subseteq Catalog \ Gone
  OBVIOUS
<1>5. WithDependencies[requested \ Gone] \subseteq Catalog \ Gone
  BY <1>3, <1>4, ClosureLeast
<1>6. QED
  BY <1>2, <1>5 DEF Normalize

\* A dependency-closed request is saved exactly as sent, whatever the user
\* held before: the last complete set wins, and sending it again changes
\* nothing.
THEOREM ClosedRequestIsSavedVerbatim ==
    ASSUME NEW old \in SUBSET Codes, NEW requested \in SUBSET Catalog,
           DependencyClosed(requested)
    PROVE  Normalize(old, requested) = requested
<1> DEFINE Removed == ExplicitlyRemoved(old, requested)
<1>1. Removed \in SUBSET Catalog
  BY DEF ExplicitlyRemoved
<1>2. DependentClosed(Catalog \ requested)
  <2>1. SUFFICES ASSUME NEW c \in Catalog,
                        DependsOn[c] \cap (Catalog \ requested) # {},
                        c \in requested
                 PROVE  FALSE
    BY DEF DependentClosed
  <2>2. DependsOn[c] \subseteq requested
    BY <2>1 DEF DependencyClosed
  <2>3. QED
    BY <2>1, <2>2
<1>3. Removed \subseteq Catalog \ requested
  BY DEF ExplicitlyRemoved
<1>4. WithDependents[Removed] \subseteq Catalog \ requested
  BY <1>1, <1>2, <1>3, DependentLeast
<1>5. requested \ WithDependents[Removed] = requested
  BY <1>4
<1>6. WithDependencies[requested] = requested
  BY ClosureFacts, ClosureLeast
<1>7. QED
  BY <1>5, <1>6 DEF Normalize

-----------------------------------------------------------------------------
(***************************************************************************)
(* Type correctness                                                        *)
(***************************************************************************)

\* Writing audit rows keeps a log a function from codes to sequences of rows.
LEMMA AuditedType ==
    ASSUME NEW log \in [Codes -> Seq(AuditEntries)], NEW operator \in UserIds,
           NEW granted, NEW revoked
    PROVE  Audited(log, granted, revoked, operator)
               \in [Codes -> Seq(AuditEntries)]
<1>1. Entry("grant", operator) \in AuditEntries
      /\ Entry("revoke", operator) \in AuditEntries
  BY DEF Entry, AuditEntries
<1>2. ASSUME NEW c \in Codes
      PROVE  /\ Append(log[c], Entry("grant", operator)) \in Seq(AuditEntries)
             /\ Append(log[c], Entry("revoke", operator)) \in Seq(AuditEntries)
  BY <1>1
<1>3. QED
  BY <1>2 DEF Audited

\* What a request saves is a set of codes.
LEMMA NormalizedType ==
    ASSUME TypeOK, NEW p \in Savers, Known(req[p].codes)
    PROVE  /\ req[p].codes \in SUBSET Catalog
           /\ current[p] \in SUBSET Codes
           /\ Normalized(p) \in SUBSET Catalog
           /\ Normalized(p) \in SUBSET Codes
           /\ DependencyClosed(Normalized(p))
BY NormalFormClosed, CatalogAssumption DEF TypeOK, Known, Normalized

\* The empty request variable is a request record.
LEMMA NoRequestType == NoRequest \in RequestRecords
BY UsersAssumption DEF NoRequest, RequestRecords

\* A request that ends leaves the local variables well typed.
LEMMA FinishType ==
    ASSUME TypeOK, NEW p \in Savers, Finish(p)
    PROVE  /\ pc' \in [Savers -> {"idle"} \cup InTransaction \cup AfterCommit]
           /\ req' \in [Savers -> RequestRecords]
           /\ current' \in [Savers -> SUBSET Codes]
BY NoRequestType DEF TypeOK, Finish, Goto

LEMMA ReleaseType ==
    ASSUME TypeOK, NEW p \in Savers, ReleaseRows(p)
    PROVE  lockOwner' \in [UserIds -> Savers \cup {NoSaver}]
BY DEF TypeOK, ReleaseRows

\* Every state of the service is well typed.
THEOREM TypeCorrect == Spec => []TypeOK
<1>1. Init => TypeOK
  <2>1. EmptyLog \in [Codes -> Seq(AuditEntries)]
    BY DEF EmptyLog
  <2>2. QED
    BY <2>1, NoRequestType, SeedAssumption, SaversAssumption DEF Init, TypeOK
<1>2. TypeOK /\ [Next]_vars => TypeOK'
  <2> SUFFICES ASSUME TypeOK, [Next]_vars PROVE TypeOK'
    OBVIOUS
  <2>1. ASSUME NEW p \in Savers, Begin(p) PROVE TypeOK'
    <3>1. PICK actor \in users, target \in users, codes \in Requests :
              req' = [req EXCEPT ![p] =
                      [actor |-> actor, target |-> target, codes |-> codes]]
      BY <2>1 DEF Begin
    <3>2. [actor |-> actor, target |-> target, codes |-> codes] \in RequestRecords
      BY SaversAssumption DEF TypeOK, RequestRecords
    <3>3. req' \in [Savers -> RequestRecords]
      BY <3>1, <3>2 DEF TypeOK
    <3>4. saves' \in 0 .. MaxSaves
      BY <2>1, SaversAssumption DEF Begin, TypeOK
    <3>5. pc' \in [Savers -> {"idle"} \cup InTransaction \cup AfterCommit]
      BY <2>1 DEF Begin, Goto, TypeOK, InTransaction
    <3>6. QED
      BY <2>1, <3>3, <3>4, <3>5 DEF Begin, TypeOK
  <2>2. ASSUME NEW p \in Savers, LockRow(p) PROVE TypeOK'
    BY <2>2 DEF LockRow, TypeOK
  <2>3. ASSUME NEW p \in Savers, Authorize(p) PROVE TypeOK'
    BY <2>3 DEF Authorize, Goto, TypeOK, InTransaction
  <2>4. ASSUME NEW p \in Savers, Deny(p) PROVE TypeOK'
    BY <2>4, FinishType, ReleaseType DEF Deny, TypeOK
  <2>5. ASSUME NEW p \in Savers, ReadCurrent(p) PROVE TypeOK'
    BY <2>5 DEF ReadCurrent, Goto, TypeOK, InTransaction, RequestRecords
  <2>6. ASSUME NEW p \in Savers, Reject(p) PROVE TypeOK'
    BY <2>6, FinishType, ReleaseType DEF Reject, TypeOK
  <2>7. ASSUME NEW p \in Savers, Commit(p) PROVE TypeOK'
    <3> DEFINE target == req[p].target
               granted == Granted(current[p], Normalized(p))
               revoked == Revoked(current[p], Normalized(p))
    <3>1. req[p] \in RequestRecords
      BY DEF TypeOK
    <3>2. target \in UserIds /\ req[p].actor \in UserIds
      BY <3>1 DEF RequestRecords
    <3>3. granted \in SUBSET Codes
      BY <2>7, NormalizedType DEF Commit, ChangeAllowed, Granted
    <3>4. grants' \in [UserIds -> SUBSET Codes]
      <4>1. (grants[target] \cup granted) \ revoked \in SUBSET Codes
        BY <3>2, <3>3 DEF TypeOK
      <4>2. grants' = [grants EXCEPT ![target] =
                          (grants[target] \cup granted) \ revoked]
        BY <2>7 DEF Commit
      <4>3. QED
        BY <4>1, <4>2 DEF TypeOK
    <3>5. audit' \in [UserIds -> [Codes -> Seq(AuditEntries)]]
      <4>1. audit' = [audit EXCEPT ![target] =
                         Audited(audit[target], granted, revoked, req[p].actor)]
        BY <2>7 DEF Commit
      <4>2. audit[target] \in [Codes -> Seq(AuditEntries)]
        BY <3>2 DEF TypeOK
      <4>3. Audited(audit[target], granted, revoked, req[p].actor)
                \in [Codes -> Seq(AuditEntries)]
        BY <3>2, <4>2, AuditedType
      <4>4. QED
        BY <4>1, <4>3 DEF TypeOK
    <3>6. pc' \in [Savers -> {"idle"} \cup InTransaction \cup AfterCommit]
      BY <2>7 DEF Commit, Goto, TypeOK, AfterCommit
    <3>7. lockOwner' \in [UserIds -> Savers \cup {NoSaver}]
      BY <2>7, ReleaseType DEF Commit
    <3>8. QED
      BY <2>7, <3>4, <3>5, <3>6, <3>7 DEF Commit, TypeOK
  <2>8. ASSUME NEW p \in Savers, ClearToken(p) PROVE TypeOK'
    BY <2>8 DEF ClearToken, Goto, TypeOK, AfterCommit
  <2>9. ASSUME NEW p \in Savers, Respond(p) PROVE TypeOK'
    BY <2>9, FinishType DEF Respond, TypeOK
  <2>10. ASSUME NEW p \in Savers, Fail(p) PROVE TypeOK'
    BY <2>10, FinishType, ReleaseType DEF Fail, TypeOK
  <2>11. ASSUME NEW u \in UserIds, DeleteUser(u) PROVE TypeOK'
    BY <2>11 DEF DeleteUser, TypeOK
  <2>12. CASE UNCHANGED vars
    BY <2>12 DEF vars, TypeOK
  <2>13. QED
    BY <2>1, <2>2, <2>3, <2>4, <2>5, <2>6, <2>7, <2>8, <2>9, <2>10, <2>11,
       <2>12 DEF Next, Step
<1>3. QED
  BY <1>1, <1>2, PTL DEF Spec

-----------------------------------------------------------------------------
(***************************************************************************)
(* Isolation of the transaction                                            *)
(***************************************************************************)

\* Giving its rows back, a request leaves those of every other one alone.
LEMMA ReleaseOthers ==
    ASSUME TypeOK, NEW p \in Savers, NEW q \in Savers, q # p, ReleaseRows(p),
           NEW u \in UserIds, lockOwner[u] = q
    PROVE  lockOwner'[u] = q
BY DEF ReleaseRows, TypeOK

\* A request that ends has nothing left to protect, and disturbs no other.
LEMMA FinishIsolated ==
    ASSUME TypeOK, Isolation, NEW p \in Savers, Finish(p), ReleaseRows(p),
           UNCHANGED <<users, grants>>
    PROVE  Isolation'
<1>1. SUFFICES ASSUME NEW q \in Savers
               PROVE  (RowsHeld(q) /\ SnapshotCurrent(q))'
  BY DEF Isolation
<1>2. CASE q = p
  BY <1>2 DEF Finish, Goto, TypeOK, RowsHeld, SnapshotCurrent
<1>3. CASE q # p
  <2>1. pc'[q] = pc[q] /\ req'[q] = req[q] /\ current'[q] = current[q]
    BY <1>3 DEF Finish, Goto, TypeOK
  <2>2. RowsHeld(q) /\ SnapshotCurrent(q)
    BY DEF Isolation
  <2>3. req[q].actor \in UserIds /\ req[q].target \in UserIds
    BY DEF TypeOK, RequestRecords
  <2>4. QED
    BY <1>3, <2>1, <2>2, <2>3, ReleaseOthers DEF RowsHeld, SnapshotCurrent
<1>4. QED
  BY <1>2, <1>3

\* A commit replaces the target's grants by the normal form of the request.
LEMMA CommitEffect ==
    ASSUME TypeOK, Isolation, NEW p \in Savers, Commit(p)
    PROVE  /\ current[p] = grants[req[p].target]
           /\ grants' = [grants EXCEPT ![req[p].target] = Normalized(p)]
           /\ req[p].target \in users /\ req[p].actor \in users
           /\ lockOwner[req[p].target] = p
           /\ Manage \in grants[req[p].actor]
           /\ Known(req[p].codes)
<1>1. pc[p] = "writing" /\ ChangeAllowed(p)
  BY DEF Commit
<1>2. RowsHeld(p) /\ SnapshotCurrent(p)
  BY DEF Isolation
<1>3. current[p] = grants[req[p].target]
  BY <1>1, <1>2 DEF SnapshotCurrent
<1>4. (grants[req[p].target] \cup Granted(current[p], Normalized(p)))
          \ Revoked(current[p], Normalized(p)) = Normalized(p)
  BY <1>3 DEF Granted, Revoked
<1>5. grants' = [grants EXCEPT ![req[p].target] = Normalized(p)]
  BY <1>4 DEF Commit
<1>6. QED
  BY <1>1, <1>2, <1>3, <1>5 DEF RowsHeld, ChangeAllowed

\* No step of another request, and no deleted row, invalidates what a request
\* read under its locks: the check it made is still true when it commits.
THEOREM TransactionsAreIsolated == Spec => []Isolation
<1>1. Init => Isolation
  BY DEF Init, Isolation, RowsHeld, SnapshotCurrent
<1>2. TypeOK /\ Isolation /\ [Next]_vars => Isolation'
  <2> SUFFICES ASSUME TypeOK, Isolation, [Next]_vars PROVE Isolation'
    OBVIOUS
  <2> USE DEF Isolation
  <2>0. \A q \in Savers : /\ req[q].actor \in UserIds
                          /\ req[q].target \in UserIds
    BY DEF TypeOK, RequestRecords
  <2>1. ASSUME NEW p \in Savers, Begin(p) PROVE Isolation'
    BY <2>1 DEF Begin, Goto, TypeOK, RowsHeld, SnapshotCurrent
  <2>2. ASSUME NEW p \in Savers, LockRow(p) PROVE Isolation'
    BY <2>0, <2>2, SaversAssumption
    DEF LockRow, TypeOK, RowsHeld, SnapshotCurrent
  <2>3. ASSUME NEW p \in Savers, Authorize(p) PROVE Isolation'
    BY <2>3 DEF Authorize, Goto, TypeOK, RowsHeld, SnapshotCurrent,
                RowsLocked, SelectedRows, MaySave
  <2>4. ASSUME NEW p \in Savers, Deny(p) PROVE Isolation'
    BY <2>4, FinishIsolated DEF Deny
  <2>5. ASSUME NEW p \in Savers, ReadCurrent(p) PROVE Isolation'
    BY <2>5 DEF ReadCurrent, Goto, TypeOK, RowsHeld, SnapshotCurrent
  <2>6. ASSUME NEW p \in Savers, Reject(p) PROVE Isolation'
    BY <2>6, FinishIsolated DEF Reject
  <2>7. ASSUME NEW p \in Savers, Commit(p) PROVE Isolation'
    <3>1. SUFFICES ASSUME NEW q \in Savers
                   PROVE  (RowsHeld(q) /\ SnapshotCurrent(q))'
      OBVIOUS
    <3>2. CASE q = p
      BY <2>7, <3>2 DEF Commit, Goto, TypeOK, RowsHeld, SnapshotCurrent
    <3>3. CASE q # p
      <4>1. pc'[q] = pc[q] /\ req' = req /\ current' = current /\ users' = users
        BY <2>7, <3>3 DEF Commit, Goto, TypeOK
      <4>2. ASSUME NEW u \in UserIds, lockOwner[u] = q
            PROVE  grants'[u] = grants[u] /\ lockOwner'[u] = q
        <5>1. u # req[p].target
          BY <2>7, <3>3, <4>2, CommitEffect
        <5>2. grants'[u] = grants[u]
          BY <2>7, <5>1, CommitEffect DEF TypeOK
        <5>3. lockOwner'[u] = q
          BY <2>7, <3>3, <4>2, ReleaseOthers DEF Commit
        <5>4. QED
          BY <5>2, <5>3
      <4>3. QED
        BY <2>0, <4>1, <4>2 DEF RowsHeld, SnapshotCurrent
    <3>4. QED
      BY <3>2, <3>3
  <2>8. ASSUME NEW p \in Savers, ClearToken(p) PROVE Isolation'
    BY <2>8 DEF ClearToken, Goto, TypeOK, RowsHeld, SnapshotCurrent
  <2>9. ASSUME NEW p \in Savers, Respond(p) PROVE Isolation'
    BY <2>9 DEF Respond, Finish, Goto, TypeOK, RowsHeld, SnapshotCurrent
  <2>10. ASSUME NEW p \in Savers, Fail(p) PROVE Isolation'
    BY <2>10, FinishIsolated DEF Fail
  <2>11. ASSUME NEW u \in UserIds, DeleteUser(u) PROVE Isolation'
    <3>1. SUFFICES ASSUME NEW q \in Savers
                   PROVE  (RowsHeld(q) /\ SnapshotCurrent(q))'
      OBVIOUS
    <3>2. lockOwner[u] # q
      BY <2>11, SaversAssumption DEF DeleteUser
    <3>3. QED
      BY <2>0, <2>11, <3>2 DEF DeleteUser, TypeOK, RowsHeld, SnapshotCurrent
  <2>12. CASE UNCHANGED vars
    BY <2>12 DEF vars, RowsHeld, SnapshotCurrent
  <2>13. QED
    BY <2>1, <2>2, <2>3, <2>4, <2>5, <2>6, <2>7, <2>8, <2>9, <2>10, <2>11,
       <2>12 DEF Next, Step
<1>3. QED
  BY <1>1, <1>2, TypeCorrect, PTL DEF Spec

-----------------------------------------------------------------------------
(***************************************************************************)
(* Every step is an indivisible Save, a deleted row, or leaves the tables  *)
(* alone                                                                   *)
(***************************************************************************)

\* A commit is one Save of the abstract register.
LEMMA CommitIsSave ==
    ASSUME TypeOK, Isolation, NEW p \in Savers, Commit(p)
    PROVE  Register!Save(req[p].actor, req[p].target, req[p].codes)
<1>1. /\ current[p] = grants[req[p].target]
      /\ grants' = [grants EXCEPT ![req[p].target] = Normalized(p)]
      /\ {req[p].actor, req[p].target} \subseteq users
      /\ Manage \in grants[req[p].actor]
      /\ Known(req[p].codes)
  BY CommitEffect
<1>2. ChangeAllowed(p) /\ UNCHANGED users
      /\ audit' = [audit EXCEPT ![req[p].target] =
                      Audited(@, Granted(current[p], Normalized(p)),
                              Revoked(current[p], Normalized(p)), req[p].actor)]
  BY DEF Commit
<1>3. Normalized(p) = Normalize(grants[req[p].target], req[p].codes)
  BY <1>1 DEF Normalized
<1>4. QED
  BY <1>1, <1>2, <1>3
  DEF Register!Save, ChangeAllowed, Known, Register!Known, Granted, Revoked,
      Register!Granted, Register!Revoked, ManageChangeAllowed,
      RootTargetAllowed, Register!ManageChangeAllowed,
      Register!RootTargetAllowed, Audited, Register!Audited, Entry,
      Register!Entry, Normalize, Register!Normalize, WithDependencies,
      Register!WithDependencies, WithDependents, Register!WithDependents,
      DependencyClosed, Register!DependencyClosed, DependentClosed,
      Register!DependentClosed, ExplicitlyRemoved, Register!ExplicitlyRemoved

\* The three ways a step of the service can change its tables.
LEMMA StepCases ==
    ASSUME [Next]_vars
    PROVE  \/ \E p \in Savers : Commit(p)
           \/ \E u \in UserIds : DeleteUser(u)
           \/ UNCHANGED dbVars
BY DEF Next, Step, vars, dbVars, Begin, LockRow, Authorize, Deny, ReadCurrent,
       Reject, ClearToken, Respond, Fail

\* Saves that lock, check, read and write step by step, and fail at any point,
\* implement the register whose saves are indivisible.
THEOREM ServiceImplementsRegister == Spec => ImplementsRegister
<1>1. Init => Register!RegisterInit
  BY DEF Init, Register!RegisterInit, EmptyLog, Register!EmptyLog
<1>2. TypeOK /\ Isolation /\ [Next]_vars
          => [Register!RegisterNext]_(Register!registerVars)
  <2> SUFFICES ASSUME TypeOK, Isolation, [Next]_vars
               PROVE  [Register!RegisterNext]_(Register!registerVars)
    OBVIOUS
  <2>1. ASSUME NEW p \in Savers, Commit(p) PROVE Register!RegisterNext
    <3>1. /\ req[p].actor \in UserIds /\ req[p].target \in UserIds
          /\ req[p].codes \in SUBSET Catalog
      BY <2>1, CommitEffect DEF TypeOK, RequestRecords, Known
    <3>2. QED
      BY <2>1, <3>1, CommitIsSave DEF Register!RegisterNext
  <2>2. ASSUME NEW u \in UserIds, DeleteUser(u) PROVE Register!RegisterNext
    BY <2>2 DEF DeleteUser, Register!RegisterNext, Register!DeleteUser
  <2>3. CASE UNCHANGED dbVars
    BY <2>3 DEF dbVars, Register!registerVars
  <2>4. QED
    BY <2>1, <2>2, <2>3, StepCases
<1>3. QED
  BY <1>1, <1>2, TypeCorrect, TransactionsAreIsolated, PTL
  DEF Spec, ImplementsRegister, Register!RegisterSpec

-----------------------------------------------------------------------------
(***************************************************************************)
(* What holds of the committed tables                                      *)
(***************************************************************************)

\* No save leaves a user with a permission whose dependencies are missing.
THEOREM GrantsStayClosed == Spec => []GrantsClosed
<1>1. Init => GrantsClosed
  BY SeedAssumption DEF Init, GrantsClosed
<1>2. TypeOK /\ Isolation /\ GrantsClosed /\ [Next]_vars => GrantsClosed'
  <2> SUFFICES ASSUME TypeOK, Isolation, GrantsClosed, [Next]_vars
               PROVE  GrantsClosed'
    OBVIOUS
  <2>1. ASSUME NEW p \in Savers, Commit(p) PROVE GrantsClosed'
    <3>1. grants' = [grants EXCEPT ![req[p].target] = Normalized(p)]
      BY <2>1, CommitEffect
    <3>2. DependencyClosed(Normalized(p))
      BY <2>1, CommitEffect, NormalizedType
    <3>3. ASSUME NEW u \in UserIds PROVE DependencyClosed(grants'[u])
      BY <3>1, <3>2 DEF TypeOK, GrantsClosed
    <3>4. QED
      BY <3>3 DEF GrantsClosed
  <2>2. ASSUME NEW u \in UserIds, DeleteUser(u) PROVE GrantsClosed'
    BY <2>2 DEF DeleteUser, TypeOK, GrantsClosed, DependencyClosed
  <2>3. CASE UNCHANGED dbVars
    BY <2>3 DEF dbVars, GrantsClosed
  <2>4. QED
    BY <2>1, <2>2, <2>3, StepCases
<1>3. QED
  BY <1>1, <1>2, TypeCorrect, TransactionsAreIsolated, PTL DEF Spec

\* The root administrator cannot be locked out of permission administration.
THEOREM RootStaysAdministrator == Spec => []RootKeepsManage
<1>1. Init => RootKeepsManage
  BY SeedAssumption DEF Init, RootKeepsManage
<1>2. TypeOK /\ Isolation /\ RootKeepsManage /\ [Next]_vars => RootKeepsManage'
  <2> SUFFICES ASSUME TypeOK, Isolation, RootKeepsManage, [Next]_vars
               PROVE  RootKeepsManage'
    OBVIOUS
  <2>1. ASSUME NEW p \in Savers, Commit(p) PROVE RootKeepsManage'
    <3>1. /\ grants' = [grants EXCEPT ![req[p].target] = Normalized(p)]
          /\ users' = users
          /\ RootTargetAllowed(req[p].actor, req[p].target, Normalized(p))
      BY <2>1, CommitEffect DEF Commit, ChangeAllowed
    <3>2. QED
      BY <3>1, UsersAssumption DEF TypeOK, RootKeepsManage, RootTargetAllowed
  <2>2. ASSUME NEW u \in UserIds, DeleteUser(u) PROVE RootKeepsManage'
    BY <2>2, UsersAssumption DEF DeleteUser, TypeOK, RootKeepsManage
  <2>3. CASE UNCHANGED dbVars
    BY <2>3 DEF dbVars, RootKeepsManage
  <2>4. QED
    BY <2>1, <2>2, <2>3, StepCases
<1>3. QED
  BY <1>1, <1>2, TypeCorrect, TransactionsAreIsolated, PTL DEF Spec

\* The audit log of one code of the target after a commit.
LEMMA CommitAudit ==
    ASSUME TypeOK, Isolation, NEW p \in Savers, Commit(p),
           NEW u \in UserIds, NEW c \in Codes
    PROVE  LET log == audit[u][c] IN
           IF u # req[p].target \/ (c \in grants[u] <=> c \in Normalized(p))
           THEN audit'[u][c] = log
           ELSE audit'[u][c] = Append(log,
                    Entry(IF c \in grants[u] THEN "revoke" ELSE "grant",
                          req[p].actor))
<1>1. current[p] = grants[req[p].target]
  BY CommitEffect
<1>2. audit' = [audit EXCEPT ![req[p].target] =
                   Audited(audit[req[p].target],
                           Granted(current[p], Normalized(p)),
                           Revoked(current[p], Normalized(p)), req[p].actor)]
  BY DEF Commit
<1>3. req[p].target \in UserIds
  BY DEF TypeOK, RequestRecords
<1>4. audit \in [UserIds -> [Codes -> Seq(AuditEntries)]]
  BY DEF TypeOK
<1>5. CASE u # req[p].target
  BY <1>2, <1>4, <1>5
<1>6. CASE u = req[p].target
  <2>1. audit'[u] = Audited(audit[u], Granted(grants[u], Normalized(p)),
                            Revoked(grants[u], Normalized(p)), req[p].actor)
    BY <1>1, <1>2, <1>4, <1>6
  <2>2. QED
    BY <2>1, <1>6 DEF Audited, Granted, Revoked
<1>7. QED
  BY <1>5, <1>6

\* 'permissions.manage' only ever moves by the hand of the root.
THEOREM ManageMovesOnlyByRoot == Spec => []OnlyRootMovesManage
<1>1. Init => OnlyRootMovesManage
  BY CatalogAssumption DEF Init, OnlyRootMovesManage, EmptyLog
<1>2. TypeOK /\ Isolation /\ OnlyRootMovesManage /\ [Next]_vars
          => OnlyRootMovesManage'
  <2> SUFFICES ASSUME TypeOK, Isolation, OnlyRootMovesManage, [Next]_vars
               PROVE  OnlyRootMovesManage'
    OBVIOUS
  <2>0. Manage \in Codes
    BY CatalogAssumption
  <2>1. ASSUME NEW p \in Savers, Commit(p) PROVE OnlyRootMovesManage'
    <3>1. SUFFICES ASSUME NEW u \in UserIds,
                          NEW i \in 1 .. Len(audit'[u][Manage])
                   PROVE  audit'[u][Manage][i].operator = Root
      BY DEF OnlyRootMovesManage
    <3>2. audit[u][Manage] \in Seq(AuditEntries)
      BY <2>0 DEF TypeOK
    <3>3. CASE audit'[u][Manage] = audit[u][Manage]
      BY <3>1, <3>3 DEF OnlyRootMovesManage
    <3>4. CASE audit'[u][Manage] # audit[u][Manage]
      <4>1. /\ u = req[p].target
            /\ ~(Manage \in grants[u] <=> Manage \in Normalized(p))
            /\ audit'[u][Manage] = Append(audit[u][Manage],
                    Entry(IF Manage \in grants[u] THEN "revoke" ELSE "grant",
                          req[p].actor))
        BY <2>0, <2>1, <3>4, CommitAudit
      <4>2. req[p].actor = Root
        BY <2>1, <4>1, CommitEffect
        DEF Commit, ChangeAllowed, ManageChangeAllowed
      <4> DEFINE entry == Entry(IF Manage \in grants[u] THEN "revoke"
                                ELSE "grant", req[p].actor)
      <4>3. CASE i = Len(audit[u][Manage]) + 1
        <5>1. entry.operator = Root
          BY <4>2 DEF Entry
        <5>2. audit'[u][Manage] = Append(audit[u][Manage], entry)
          BY <4>1
        <5>3. audit'[u][Manage][i] = entry
          <6> HIDE DEF entry
          <6>1. QED
            BY <3>2, <4>3, <5>2
        <5>4. QED
          BY <5>1, <5>3
      <4>4. CASE i # Len(audit[u][Manage]) + 1
        <5>1. i \in 1 .. Len(audit[u][Manage])
          BY <3>1, <3>2, <4>1, <4>4
        <5>2. audit'[u][Manage][i] = audit[u][Manage][i]
          BY <3>2, <4>1, <5>1
        <5>3. QED
          BY <5>1, <5>2 DEF OnlyRootMovesManage
      <4>5. QED
        BY <4>3, <4>4
    <3>5. QED
      BY <3>3, <3>4
  <2>2. ASSUME NEW u \in UserIds, DeleteUser(u) PROVE OnlyRootMovesManage'
    BY <2>2 DEF DeleteUser, OnlyRootMovesManage
  <2>3. CASE UNCHANGED dbVars
    BY <2>3 DEF dbVars, OnlyRootMovesManage
  <2>4. QED
    BY <2>1, <2>2, <2>3, StepCases
<1>3. QED
  BY <1>1, <1>2, TypeCorrect, TransactionsAreIsolated, PTL DEF Spec

\* The action of the row after the n-th is the other one.
LEMMA ExpectedAlternates ==
    ASSUME NEW u \in UserIds, NEW c \in Codes, NEW n \in Nat
    PROVE  Expected(u, c, n + 1) =
               IF Expected(u, c, n) = "grant" THEN "revoke" ELSE "grant"
<1>1. ((n + 1) % 2 = 1) <=> ~(n % 2 = 1)
  OBVIOUS
<1>2. "grant" # "revoke"
  OBVIOUS
<1>3. QED
  BY <1>1, <1>2 DEF Expected

\* Before its first row, a code is granted exactly when the seed grants it.
LEMMA ExpectedFirst ==
    ASSUME NEW u \in UserIds, NEW c \in Codes
    PROVE  Expected(u, c, 1) = IF c \in Seed[u] THEN "revoke" ELSE "grant"
<1>1. 1 % 2 = 1
  OBVIOUS
<1>2. QED
  BY <1>1 DEF Expected

\* What AuditExplainsGrants says of one user and one code.
Explained(u, c) ==
    /\ u \in users => (c \in grants[u] <=> Replay(u, c))
    /\ \A i \in 1 .. Len(audit[u][c]) : audit[u][c][i].action = Expected(u, c, i)

\* A commit that changes a code writes the row that explains the change.
LEMMA CommitExplains ==
    ASSUME TypeOK, Isolation, NEW p \in Savers, Commit(p),
           NEW c \in Codes, Explained(req[p].target, c),
           ~(c \in grants[req[p].target] <=> c \in Normalized(p))
    PROVE  Explained(req[p].target, c)'
<1> DEFINE u == req[p].target
           log == audit[u][c]
           action == IF c \in grants[u] THEN "revoke" ELSE "grant"
           entry == Entry(action, req[p].actor)
<1>1. u \in UserIds /\ u \in users /\ req' = req /\ users' = users
  BY CommitEffect DEF TypeOK, RequestRecords, Commit
<1>2. log \in Seq(AuditEntries)
  BY <1>1 DEF TypeOK
<1>3. audit'[u][c] = Append(log, entry)
  BY <1>1, CommitAudit
<1>4. entry.action = action
  BY DEF Entry
<1>5. Len(log) \in Nat
  BY <1>2
<1>6. /\ Len(audit'[u][c]) = Len(log) + 1
      /\ audit'[u][c][Len(log) + 1] = entry
      /\ \A i \in 1 .. Len(log) : audit'[u][c][i] = log[i]
  <2> HIDE DEF entry, log
  <2>1. QED
    BY <1>2, <1>3
<1>7. action = Expected(u, c, Len(log) + 1)
  <2>1. CASE log = <<>>
    <3>1. Len(log) = 0
      BY <2>1
    <3>2. c \in grants[u] <=> c \in Seed[u]
      BY <1>1, <2>1 DEF Explained, Replay
    <3>3. QED
      BY <1>1, <3>1, <3>2, ExpectedFirst
  <2>2. CASE log # <<>>
    <3>1. Len(log) \in 1 .. Len(log)
      BY <1>2, <2>2
    <3>2. log[Len(log)].action = Expected(u, c, Len(log))
      BY <3>1 DEF Explained
    <3>3. c \in grants[u] <=> log[Len(log)].action = "grant"
      BY <1>1, <2>2 DEF Explained, Replay
    <3>4. Expected(u, c, Len(log) + 1) =
              IF Expected(u, c, Len(log)) = "grant" THEN "revoke" ELSE "grant"
      BY <1>1, <1>5, ExpectedAlternates
    <3>5. QED
      BY <3>2, <3>3, <3>4
  <2>3. QED
    BY <2>1, <2>2
<1>8. ASSUME NEW i \in 1 .. Len(audit'[u][c])
      PROVE  audit'[u][c][i].action = Expected(u, c, i)
  <2>1. CASE i = Len(log) + 1
    BY <1>4, <1>6, <1>7, <2>1
  <2>2. CASE i # Len(log) + 1
    <3>1. i \in 1 .. Len(log)
      BY <1>5, <1>6, <2>2
    <3>2. QED
      BY <1>6, <3>1 DEF Explained
  <2>3. QED
    BY <2>1, <2>2
<1>9. c \in grants'[u] <=> Replay(u, c)'
  <2>1. audit'[u][c] # <<>>
    BY <1>5, <1>6
  <2>2. Replay(u, c)' <=> action = "grant"
    BY <1>1, <1>4, <1>6, <2>1 DEF Replay
  <2>3. c \in grants'[u] <=> c \in Normalized(p)
    BY <1>1, CommitEffect DEF TypeOK
  <2>4. action = "grant" <=> ~(c \in grants[u])
    OBVIOUS
  <2>5. QED
    BY <2>2, <2>3, <2>4
<1>10. QED
  BY <1>1, <1>8, <1>9 DEF Explained

\* The audit log explains the grants in force: rows of a code alternate, and
\* replayed over the seeded grants they give the table.
THEOREM AuditIsComplete == Spec => []AuditExplainsGrants
<1> DEFINE AllExplained == \A u \in UserIds, c \in Codes : Explained(u, c)
<1>1. Init => AllExplained
  BY DEF Init, EmptyLog, Explained, Replay
<1>2. TypeOK /\ Isolation /\ AllExplained /\ [Next]_vars => AllExplained'
  <2> SUFFICES ASSUME TypeOK, Isolation, AllExplained, [Next]_vars,
                      NEW u \in UserIds, NEW c \in Codes
               PROVE  Explained(u, c)'
    OBVIOUS
  <2>0. Explained(u, c)
    OBVIOUS
  <2>1. ASSUME NEW p \in Savers, Commit(p) PROVE Explained(u, c)'
    <3>1. CASE u # req[p].target
               \/ (c \in grants[u] <=> c \in Normalized(p))
      <4>1. audit'[u][c] = audit[u][c]
        BY <2>1, <3>1, CommitAudit
      <4>2. (c \in grants'[u] <=> c \in grants[u]) /\ users' = users
        <5>1. grants' = [grants EXCEPT ![req[p].target] = Normalized(p)]
              /\ grants \in [UserIds -> SUBSET Codes]
          BY <2>1, CommitEffect DEF TypeOK
        <5>2. users' = users
          BY <2>1 DEF Commit
        <5>3. QED
          BY <3>1, <5>1, <5>2
      <4>3. QED
        BY <2>0, <4>1, <4>2 DEF Explained, Replay
    <3>2. CASE u = req[p].target
               /\ ~(c \in grants[u] <=> c \in Normalized(p))
      <4>1. Explained(req[p].target, c)'
        BY <2>0, <2>1, <3>2, CommitExplains
      <4>2. req' = req
        BY <2>1 DEF Commit
      <4>3. QED
        BY <3>2, <4>1, <4>2
    <3>3. QED
      BY <3>1, <3>2
  <2>2. ASSUME NEW v \in UserIds, DeleteUser(v) PROVE Explained(u, c)'
    BY <2>0, <2>2 DEF DeleteUser, TypeOK, Explained, Replay
  <2>3. CASE UNCHANGED dbVars
    BY <2>0, <2>3 DEF dbVars, Explained, Replay
  <2>4. QED
    BY <2>1, <2>2, <2>3, StepCases
<1>3. TypeOK /\ AllExplained => AuditExplainsGrants
  BY DEF TypeOK, Explained, AuditExplainsGrants
<1>4. QED
  BY <1>1, <1>2, <1>3, TypeCorrect, TransactionsAreIsolated, PTL DEF Spec

-----------------------------------------------------------------------------
(***************************************************************************)
(* Requests that wait for each other's rows                                *)
(***************************************************************************)

\* A request has locked every row of its that is left below one it holds.
LocksAscend ==
    \A p \in Savers, u \in UserIds :
        lockOwner[u] = p =>
            /\ pc[p] \in InTransaction /\ u \in {req[p].actor, req[p].target}
            /\ \A v \in SelectedRows(p) : v < u => lockOwner[v] = p

\* A request that ends holds nothing.
LEMMA FinishAscends ==
    ASSUME TypeOK, LocksAscend, NEW p \in Savers, ReleaseRows(p), UNCHANGED users,
           \A q \in Savers \ {p} : pc'[q] = pc[q] /\ req'[q] = req[q]
    PROVE  LocksAscend'
<1> SUFFICES ASSUME NEW q \in Savers, NEW u \in UserIds, lockOwner'[u] = q
             PROVE  /\ pc'[q] \in InTransaction /\ u \in {req'[q].actor, req'[q].target}
                    /\ \A v \in SelectedRows(q)' : v < u => lockOwner'[v] = q
  BY DEF LocksAscend
<1>1. lockOwner[u] = q /\ q # p
  BY SaversAssumption DEF ReleaseRows, TypeOK
<1>2. pc'[q] = pc[q] /\ req'[q] = req[q] /\ SelectedRows(q)' = SelectedRows(q)
  BY <1>1 DEF SelectedRows
<1>3. /\ pc[q] \in InTransaction /\ u \in {req[q].actor, req[q].target}
      /\ \A v \in SelectedRows(q) : v < u => lockOwner[v] = q
  BY <1>1 DEF LocksAscend
<1>4. SelectedRows(q) \subseteq UserIds
  BY DEF SelectedRows, TypeOK
<1>5. \A v \in UserIds : lockOwner[v] = q => lockOwner'[v] = q
  BY <1>1, ReleaseOthers
<1> QED BY <1>2, <1>3, <1>4, <1>5

\* A step that keeps the locks and the requests that hold them.
LEMMA LocksUntouched ==
    ASSUME TypeOK, LocksAscend, UNCHANGED <<users, lockOwner>>,
           \A q \in Savers : pc[q] \in InTransaction =>
                pc'[q] \in InTransaction /\ req'[q] = req[q]
    PROVE  LocksAscend'
<1> SUFFICES ASSUME NEW q \in Savers, NEW u \in UserIds, lockOwner'[u] = q
             PROVE  /\ pc'[q] \in InTransaction /\ u \in {req'[q].actor, req'[q].target}
                    /\ \A v \in SelectedRows(q)' : v < u => lockOwner'[v] = q
  BY DEF LocksAscend
<1>1. /\ pc[q] \in InTransaction /\ u \in {req[q].actor, req[q].target}
      /\ \A v \in SelectedRows(q) : v < u => lockOwner[v] = q
  BY DEF LocksAscend
<1>2. SelectedRows(q)' = SelectedRows(q)
  BY <1>1 DEF SelectedRows
<1> QED BY <1>1, <1>2

\* Rows are locked in ascending order, and given back together.
LEMMA LocksAscendAlways == Spec => []LocksAscend
<1>1. Init => LocksAscend
  BY SaversAssumption DEF Init, LocksAscend
<1>2. TypeOK /\ LocksAscend /\ [Next]_vars => LocksAscend'
  <2> SUFFICES ASSUME TypeOK, LocksAscend, [Next]_vars PROVE LocksAscend'
    OBVIOUS
  <2>1. ASSUME NEW p \in Savers, Begin(p) PROVE LocksAscend'
    BY <2>1, LocksUntouched DEF Begin, Goto, TypeOK, InTransaction
  <2>2. ASSUME NEW p \in Savers, LockRow(p) PROVE LocksAscend'
    <3>1. PICK u \in SelectedRows(p) :
             /\ lockOwner[u] = NoSaver
             /\ \A v \in SelectedRows(p) : v < u => lockOwner[v] = p
             /\ lockOwner' = [lockOwner EXCEPT ![u] = p]
      BY <2>2 DEF LockRow
    <3>2. pc[p] \in InTransaction /\ UNCHANGED <<users, pc, req>>
      BY <2>2 DEF LockRow, InTransaction
    <3>3. u \in UserIds /\ u \in {req[p].actor, req[p].target} /\ u \in users
      BY <3>1 DEF SelectedRows, TypeOK
    <3>4. \A q \in Savers : SelectedRows(q)' = SelectedRows(q)
      BY <3>2 DEF SelectedRows
    <3>5. \A q \in Savers, w \in UserIds : lockOwner[w] = q => lockOwner'[w] = q
      BY <3>1, SaversAssumption DEF TypeOK
    <3> SUFFICES ASSUME NEW q \in Savers, NEW w \in UserIds, lockOwner'[w] = q
                 PROVE  /\ pc'[q] \in InTransaction /\ w \in {req'[q].actor, req'[q].target}
                        /\ \A v \in SelectedRows(q)' : v < w => lockOwner'[v] = q
      BY DEF LocksAscend
    <3>6. \A v \in SelectedRows(q) : v \in UserIds
      BY DEF SelectedRows, TypeOK
    <3>7. CASE w = u
      <4>1. q = p
        BY <3>1, <3>3, <3>7 DEF TypeOK
      <4> QED BY <3>1, <3>2, <3>3, <3>4, <3>5, <3>6, <3>7, <4>1
    <3>8. CASE w # u
      <4>1. lockOwner[w] = q
        BY <3>1, <3>8 DEF TypeOK
      <4>2. /\ pc[q] \in InTransaction /\ w \in {req[q].actor, req[q].target}
            /\ \A v \in SelectedRows(q) : v < w => lockOwner[v] = q
        BY <4>1 DEF LocksAscend
      <4> QED BY <3>2, <3>4, <3>5, <3>6, <4>2
    <3> QED BY <3>7, <3>8
  <2>3. ASSUME NEW p \in Savers, Authorize(p) \/ ReadCurrent(p) \/ ClearToken(p)
        PROVE  LocksAscend'
    BY <2>3, LocksUntouched
    DEF Authorize, ReadCurrent, ClearToken, Goto, TypeOK, InTransaction
  <2>4. ASSUME NEW p \in Savers, Deny(p) \/ Reject(p) \/ Commit(p) \/ Fail(p)
        PROVE  LocksAscend'
    <3>1. ReleaseRows(p) /\ UNCHANGED users
      BY <2>4 DEF Deny, Reject, Commit, Fail
    <3>2. \A q \in Savers \ {p} : pc'[q] = pc[q] /\ req'[q] = req[q]
      BY <2>4 DEF Deny, Reject, Commit, Fail, Finish, Goto, TypeOK
    <3> QED BY <3>1, <3>2, FinishAscends
  <2>5. ASSUME NEW p \in Savers, Respond(p) PROVE LocksAscend'
    BY <2>5, LocksUntouched DEF Respond, Finish, Goto, TypeOK, InTransaction
  <2>6. ASSUME NEW u \in UserIds, DeleteUser(u) PROVE LocksAscend'
    BY <2>6, SaversAssumption DEF DeleteUser, LocksAscend, SelectedRows, TypeOK
  <2>7. CASE UNCHANGED vars
    BY <2>7 DEF vars, LocksAscend, SelectedRows
  <2> QED BY <2>1, <2>2, <2>3, <2>4, <2>5, <2>6, <2>7 DEF Next, Step
<1> QED BY <1>1, <1>2, TypeCorrect, PTL DEF Spec

\* A nonempty finite set of numbers has a greatest.
LEMMA GreatestExists ==
    ASSUME NEW W \in SUBSET Nat, IsFiniteSet(W), W # {}
    PROVE  \E u \in W : \A v \in W : v <= u
<1> DEFINE Above(u) == {v \in W : v > u}
           T == {Above(u) : u \in W}
           R == StrictSubsetOrdering(W)
<1>1. IsWellFoundedOn(R, FiniteSubsetsOf(W))
  BY FS_StrictSubsetOrderingWellFounded
<1>2. T \subseteq FiniteSubsetsOf(W) /\ T # {}
  <2>1. \A u \in W : Above(u) \in SUBSET W
    OBVIOUS
  <2> HIDE DEF Above
  <2>2. \A u \in W : IsFiniteSet(Above(u))
    BY <2>1, FS_Subset
  <2> QED BY <2>1, <2>2 DEF FiniteSubsetsOf
<1>3. PICK x \in T : \A y \in T : <<y, x>> \notin R
  <2> HIDE DEF R, T
  <2> QED BY <1>1, <1>2, WFMin
<1>4. PICK u \in W : x = Above(u)
  OBVIOUS
<1>5. ASSUME NEW v \in W, v > u PROVE FALSE
  <2>1. Above(v) \in SUBSET W /\ Above(u) \in SUBSET W
    OBVIOUS
  <2>a. v \in Nat /\ u \in Nat /\ \A y \in W : y \in Nat
    OBVIOUS
  <2>2. Above(v) \subseteq Above(u) /\ v \in Above(u) /\ v \notin Above(v)
    <3>1. \A y \in W : y > v => y > u
      BY <1>5, <2>a
    <3>2. ~(v > v)
      BY <2>a
    <3> QED BY <1>5, <3>1, <3>2
  <2>3. Above(v) \in T
    OBVIOUS
  <2> HIDE DEF Above, T
  <2>4. <<Above(v), Above(u)>> \in R
    BY <2>1, <2>2 DEF StrictSubsetOrdering
  <2> QED BY <1>3, <1>4, <2>3, <2>4
<1>6. \A v \in W : v <= u
  BY <1>5
<1> QED BY <1>6

\* A request that waits for a row waits for one below no row that its holder
\* waits for.
LEMMA WaitsAscend ==
    ASSUME TypeOK, LocksAscend, NEW q \in Savers, NEW u \in UserIds, NEW w \in UserIds,
           lockOwner[u] = q, Awaits(q, w)
    PROVE  w > u
<1>1. w \in SelectedRows(q) /\ lockOwner[w] # q
  BY DEF Awaits
<1>2. ~(w < u) /\ w # u
  BY <1>1 DEF LocksAscend
<1> QED BY <1>2, UsersAssumption

\* Saves of any number of actors and targets, also of accounts that administer
\* each other, never wait for one another in a circle.
THEOREM WaitsNeverClose == Spec => []NoCircularWait
<1>1. TypeOK /\ LocksAscend => NoCircularWait
  <2> SUFFICES ASSUME TypeOK, LocksAscend, NEW group \in (SUBSET Savers) \ {{}},
                      \A p \in group : \E u \in UserIds :
                         Awaits(p, u) /\ lockOwner[u] \in group
               PROVE  FALSE
    BY DEF NoCircularWait
  <2> DEFINE w == [p \in group |-> CHOOSE u \in UserIds :
                                      Awaits(p, u) /\ lockOwner[u] \in group]
             W == {w[p] : p \in group}
  <2>1. ASSUME NEW p \in group
        PROVE  w[p] \in UserIds /\ Awaits(p, w[p]) /\ lockOwner[w[p]] \in group
    <3>1. \E u \in UserIds : Awaits(p, u) /\ lockOwner[u] \in group
      OBVIOUS
    <3> QED BY <3>1
  <2>2. IsFiniteSet(group) /\ group \in SUBSET Savers
    BY SaversAssumption, FS_Subset
  <2>3. w \in Surjection(group, W)
    BY DEF Surjection
  <2>4. W \subseteq Nat /\ W # {}
    BY <2>1, UsersAssumption
  <2> HIDE DEF w
  <2>5. IsFiniteSet(W)
    <3> HIDE DEF W
    <3> QED BY <2>2, <2>3, FS_Surjection
  <2>6. PICK u \in W : \A v \in W : v <= u
    <3> HIDE DEF W
    <3> QED BY <2>4, <2>5, GreatestExists
  <2>7. PICK p \in group : u = w[p]
    BY <2>6
  <2> DEFINE q == lockOwner[u]
  <2>8. q \in group /\ u \in UserIds
    BY <2>1, <2>7
  <2> HIDE DEF q
  <2>9. w[q] > u
    <3>1. q \in Savers /\ w[q] \in UserIds /\ Awaits(q, w[q]) /\ lockOwner[u] = q
      BY <2>1, <2>2, <2>8 DEF q
    <3> QED BY <2>8, <3>1, WaitsAscend
  <2>10. w[q] \in W /\ w[q] \in Nat /\ u \in Nat
    BY <2>4, <2>8
  <2> HIDE DEF W
  <2> QED BY <2>6, <2>9, <2>10
<1> QED BY <1>1, TypeCorrect, LocksAscendAlways, PTL
=============================================================================
