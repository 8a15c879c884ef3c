--------------------------- MODULE AccountSessions ---------------------------
(***************************************************************************)
(* The permission service and the login tokens together, with the requests *)
(* of UserController that end sessions: logout, setClearToken, editUser    *)
(* and updateProfile.  Each of them, like savePermissions, changes the     *)
(* database first and deletes the user's token key afterwards.             *)
(***************************************************************************)
EXTENDS PermissionService, LoginTokens

CONSTANTS
    Workers,        \* PHP workers that serve UserController
    ForceLogoutCode,\* 'users.force_logout'
    EditCode,       \* 'users.edit'
    MaxRequests     \* bound: requests that end sessions in a behaviour

ASSUME SessionsAssumption ==
    /\ Accounts = UserIds
    /\ {ForceLogoutCode, EditCode} \subseteq Catalog
    /\ Workers \cap Savers = {}
    /\ MaxRequests \in Nat

VARIABLES
    work,       \* work[w]: the UserController request of worker w
    requests,   \* how many of them were accepted
    doomed,     \* doomed[x]: the target's token when request x took effect
    ended,      \* tokens whose end some response has reported
    outdated,   \* tokens in use when a sensitive change of their user committed
    lastAcked   \* lastAcked[u]: the newest save on u to end was a success

sessionVars == <<work, requests, doomed, ended, outdated, lastAcked>>
allVars == <<vars, tokenVars, sessionVars>>

Kinds == {"logout", "force_logout", "edit", "password"}

NoWork == [step |-> "idle", kind |-> "logout", actor |-> Root, target |-> Root]

SessionsTypeOK ==
    /\ TypeOK
    /\ TokensTypeOK
    /\ work \in [Workers -> [step : {"idle", "admitted", "clearing", "responding"},
                             kind : Kinds, actor : UserIds, target : UserIds]]
    /\ requests \in 0 .. MaxRequests
    /\ doomed \in [Workers \cup Savers -> Tokens \cup {NoToken}]
    /\ ended \subseteq Tokens /\ outdated \subseteq Tokens
    /\ lastAcked \in [UserIds -> BOOLEAN]

SessionsInit ==
    /\ Init /\ TokensInit
    /\ work = [w \in Workers |-> NoWork]
    /\ requests = 0
    /\ doomed = [x \in Workers \cup Savers |-> NoToken]
    /\ ended = {} /\ outdated = {}
    /\ lastAcked = [u \in UserIds |-> FALSE]

LoggedIn(u) == \E t \in Tokens : tokenUser[t] = u /\ Live(t)

-----------------------------------------------------------------------------
(***************************************************************************)
(* Saves of permissions                                                    *)
(***************************************************************************)

SaveBegin(p) ==
    /\ Begin(p)
    /\ LoggedIn(req'[p].actor)
    /\ lastAcked' = [lastAcked EXCEPT ![req'[p].target] = FALSE]
    /\ UNCHANGED <<tokenVars, work, requests, doomed, ended, outdated>>

\* Locking, checks and reads touch no session.
SaveInside(p) ==
    /\ LockRow(p) \/ Authorize(p) \/ Deny(p) \/ ReadCurrent(p) \/ Reject(p)
    /\ UNCHANGED <<tokenVars, sessionVars>>

SaveCommit(p) ==
    LET token == userToken[req[p].target]
    IN  /\ Commit(p)
        /\ doomed' = [doomed EXCEPT ![p] =
                         IF pc'[p] = "clearing" THEN token ELSE NoToken]
        /\ outdated' = IF pc'[p] = "clearing"
                       THEN outdated \cup ({token} \ {NoToken})
                       ELSE outdated
        /\ UNCHANGED <<tokenVars, work, requests, ended, lastAcked>>

\* Mutant: the token of the administrator is cleared.
SaveClearActor(p) ==
    /\ ClearToken(p)
    /\ DeleteUserKey(req[p].actor)
    /\ UNCHANGED sessionVars

SaveClear(p) ==
    /\ ClearToken(p)
    /\ DeleteUserKey(req[p].target)
    /\ UNCHANGED sessionVars

\* The response of a sensitive change says forced_logout.
SaveRespond(p) ==
    /\ Respond(p)
    /\ lastAcked' = [lastAcked EXCEPT ![req[p].target] = TRUE]
    /\ ended' = ended \cup ({doomed[p]} \ {NoToken})
    /\ doomed' = [doomed EXCEPT ![p] = NoToken]
    /\ UNCHANGED <<tokenVars, work, requests, outdated>>

SaveFails(p) ==
    /\ Fail(p)
    /\ doomed' = [doomed EXCEPT ![p] = NoToken]
    /\ UNCHANGED <<tokenVars, work, requests, ended, outdated, lastAcked>>

-----------------------------------------------------------------------------
(***************************************************************************)
(* Requests of UserController                                              *)
(***************************************************************************)

\* Mutant: the root account is not protected.
AnyMutationAllowed(actor, target) == TRUE

\* assertRootAccountMutationAllowed
MutationAllowed(actor, target) == target = Root => actor = Root

\* The middlewares and the checks before the first write.
Admitted(kind, actor, target) ==
    CASE kind = "force_logout" ->
             /\ ForceLogoutCode \in grants[actor]
             /\ MutationAllowed(actor, target)
      [] kind = "edit" ->
             /\ EditCode \in grants[actor]
             /\ MutationAllowed(actor, target)
      [] OTHER -> target = actor

Admit(w) ==
    /\ work[w].step = "idle" /\ requests < MaxRequests
    /\ \E kind \in Kinds, actor, target \in users :
        /\ LoggedIn(actor)
        /\ Admitted(kind, actor, target)
        /\ work' = [work EXCEPT ![w] = [step |-> "admitted", kind |-> kind,
                                        actor |-> actor, target |-> target]]
    /\ requests' = requests + 1
    /\ UNCHANGED <<vars, tokenVars, doomed, ended, outdated, lastAcked>>

\* The UPDATE of users: an edit sets password and status, a profile change the
\* password.  A logout has no row to change.
UpdateRow(w) ==
    /\ work[w].step = "admitted"
    /\ IF work[w].kind = "edit" /\ work[w].target \in users
       THEN \E b \in BOOLEAN : mayLogin' = [mayLogin EXCEPT ![work[w].target] = b]
       ELSE UNCHANGED mayLogin
    /\ doomed' = [doomed EXCEPT ![w] = userToken[work[w].target]]
    /\ work' = [work EXCEPT ![w].step = "clearing"]
    /\ UNCHANGED <<vars, userToken, tokenUser, userTtl, tokenTtl, issued, login>>
    /\ UNCHANGED <<requests, ended, outdated, lastAcked>>

ClearSession(w) ==
    /\ work[w].step = "clearing"
    /\ DeleteUserKey(work[w].target)
    /\ work' = [work EXCEPT ![w].step = "responding"]
    /\ UNCHANGED <<vars, requests, doomed, ended, outdated, lastAcked>>

Answer(w) ==
    /\ work[w].step = "responding"
    /\ work' = [work EXCEPT ![w] = NoWork]
    /\ ended' = ended \cup ({doomed[w]} \ {NoToken})
    /\ doomed' = [doomed EXCEPT ![w] = NoToken]
    /\ UNCHANGED <<vars, tokenVars, requests, outdated, lastAcked>>

WorkFails(w) ==
    /\ work[w].step # "idle"
    /\ work' = [work EXCEPT ![w] = NoWork]
    /\ doomed' = [doomed EXCEPT ![w] = NoToken]
    /\ UNCHANGED <<vars, tokenVars, requests, ended, outdated, lastAcked>>

\* A deleted user is unknown to the login; tokens know nothing of it.
RemoveAccount(u) ==
    /\ DeleteUser(u)
    /\ mayLogin' = [mayLogin EXCEPT ![u] = FALSE]
    /\ UNCHANGED <<userToken, tokenUser, userTtl, tokenTtl, issued, login>>
    /\ UNCHANGED sessionVars

SessionsNext ==
    \/ \E p \in Savers :
        \/ SaveBegin(p) \/ SaveInside(p) \/ SaveCommit(p)
        \/ SaveClear(p) \/ SaveRespond(p) \/ SaveFails(p)
    \/ \E w \in Workers :
        Admit(w) \/ UpdateRow(w) \/ ClearSession(w) \/ Answer(w) \/ WorkFails(w)
    \/ TokensNext /\ UNCHANGED <<vars, sessionVars>>
    \/ \E u \in UserIds : RemoveAccount(u)

SessionsSpec == SessionsInit /\ [][SessionsNext]_allVars

-----------------------------------------------------------------------------
(***************************************************************************)
(* Properties                                                              *)
(***************************************************************************)

\* A response that reports the end of a user's sessions (a sensitive save, an
\* edit, a new password, a forced logout) is true and stays true: the token
\* the user had when the change took effect is never accepted again, whatever
\* logins were half way through setToken at the time.
AckedEndIsFinal == \A t \in ended : ~Live(t)

\* Nobody but the root, directly or through a save, ends the root's session.
RootSessionIsItsOwn ==
    [][userToken[Root] # NoToken /\ userToken'[Root] = NoToken =>
          \/ Root \in userTtl /\ UNCHANGED <<work, pc>>
          \/ \E p \in Savers : pc[p] = "clearing" /\ req[p].actor = Root
          \/ \E w \in Workers : work[w].step = "clearing" /\ work[w].actor = Root
      ]_allVars

\* After a sensitive change of a user's permissions the target logs in again at
\* the next request: once the newest save on the user was answered with success,
\* no token from before an earlier sensitive change of the user is accepted.
SensitiveChangeEndsSessions ==
    \A t \in outdated : Live(t) => ~lastAcked[tokenUser[t]]
=============================================================================
