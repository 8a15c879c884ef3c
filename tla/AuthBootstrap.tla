---------------------------- MODULE AuthBootstrap ----------------------------
(***************************************************************************)
(* The console in one tab of a browser: how login, the router guard's      *)
(* bootstrap (user/getInfo, permission/generateRoutes, addRoutes), logout  *)
(* and re-authentication keep answers to earlier requests out of later     *)
(* sessions.  JavaScript runs one handler at a time: a chain of resolved   *)
(* promises ends before the next event, so a handler with all its awaits   *)
(* on them is one step; network answers are steps of their own.  Other     *)
(* tabs share the cookie and the backend and are part of the environment.  *)
(***************************************************************************)
EXTENDS Integers

CONSTANTS
    Accounts,
    Tokens,         \* the values setToken of the backend may produce
    NoToken,        \* no cookie, or an undefined token in the store
    Nothing,        \* empty user state, empty routes
    MaxCalls,       \* bound: getInfo and logout requests in a behaviour
    MaxChanges      \* bound: changes of an account's permissions

ASSUME BootstrapAssumption ==
    /\ NoToken \notin Tokens
    /\ Nothing \notin [account : Accounts, version : Nat]
    /\ MaxCalls \in Nat /\ MaxChanges \in Nat

VARIABLES
    issued,         \* issued[k]: the account k was issued to, and its version then
    accepted,       \* tokens the backend accepts
    version,        \* version[a]: how often the permissions of a changed
    cookie,         \* vue_admin_template_token, common to all tabs
    token,          \* state.user.token
    generation,     \* state.user.authGeneration
    info,           \* the answer in state.user: name and permissions
    routes,         \* the answer state.permission.routes comes from
    matcher,        \* the answers whose routes the router knows
    page,           \* what the tab shows
    dialog,         \* the re-authentication dialog is open
    infoCalls,      \* getInfo requests under way
    logoutCalls,    \* logout requests under way
    loginCalls,     \* accepted logins whose answer is under way
    calls           \* getInfo and logout requests so far

backendVars == <<issued, accepted, version>>
stateVars == <<token, info, routes, matcher>>
callVars == <<infoCalls, logoutCalls, loginCalls, calls>>
vars == <<backendVars, cookie, stateVars, generation, page, dialog, callVars>>

Answers == [account : Accounts, version : 0 .. MaxChanges]
Header == Tokens \cup {NoToken}

InfoCalls ==
    [generation : Nat, token : Header, sent : Header,
     status : {"pending", "answered", "expired"},
     grants : Answers \cup {Nothing}]
LogoutCalls ==
    [generation : Nat, sent : Header, status : {"pending", "done", "expired"}]

BootstrapTypeOK ==
    /\ issued \in [Tokens -> Answers \cup {Nothing}]
    /\ accepted \in SUBSET Tokens
    /\ version \in [Accounts -> 0 .. MaxChanges]
    /\ cookie \in Header
    /\ token \in Header
    /\ generation \in Nat
    /\ info \in Answers \cup {Nothing}
    /\ routes \in Answers \cup {Nothing}
    /\ matcher \in SUBSET Answers
    /\ page \in {"blank", "login", "app"}
    /\ dialog \in BOOLEAN
    /\ infoCalls \in SUBSET InfoCalls
    /\ logoutCalls \in SUBSET LogoutCalls
    /\ loginCalls \in SUBSET Tokens
    /\ calls \in 0 .. MaxCalls

BootstrapInit ==
    /\ issued = [k \in Tokens |-> Nothing]
    /\ accepted = {}
    /\ version = [a \in Accounts |-> 0]
    /\ cookie = NoToken
    /\ token = NoToken
    /\ generation = 0
    /\ info = Nothing
    /\ routes = Nothing
    /\ matcher = {}
    /\ page = "login"
    /\ dialog = FALSE
    /\ infoCalls = {} /\ logoutCalls = {} /\ loginCalls = {}
    /\ calls = 0

Account(k) == issued[k].account

TokensOf(a) == {k \in accepted : Account(k) = a}

\* The interceptor adds X-Token, read from the cookie, if the store has a token.
XToken(stored, jar) == IF stored = NoToken THEN NoToken ELSE jar

\* ADVANCE_AUTH_GENERATION
Advance == generation' = generation + 1

\* removeToken, resetRouter, RESET_STATE and RESET_ROUTES, in one handler.
ClearTab ==
    /\ cookie' = NoToken
    /\ token' = NoToken
    /\ info' = Nothing
    /\ routes' = Nothing
    /\ matcher' = {}

Show(p) == page' = p

-----------------------------------------------------------------------------
(***************************************************************************)
(* The router guard                                                        *)
(***************************************************************************)

\* beforeEach on the way to a page of the console, with this token in the
\* store, this cookie and these routes.
Guard(stored, jar, built) ==
    \/ /\ jar = NoToken
       /\ Show("login")
       /\ UNCHANGED <<generation, infoCalls, calls>>
    \/ /\ jar # NoToken /\ built # Nothing
       /\ Show("app")
       /\ UNCHANGED <<generation, infoCalls, calls>>
    \/ /\ jar # NoToken /\ built = Nothing
       /\ calls < MaxCalls
       /\ calls' = calls + 1
       /\ Advance
       /\ infoCalls' = infoCalls \cup
            {[generation |-> generation', token |-> stored,
              sent |-> XToken(stored, jar), status |-> "pending",
              grants |-> Nothing]}
       /\ UNCHANGED page

Navigate ==
    /\ Guard(token, cookie, routes)
    /\ UNCHANGED <<backendVars, cookie, stateVars, dialog>>
    /\ UNCHANGED <<logoutCalls, loginCalls>>

\* Mutants: half of the comparison.
SameToken(c) == token = c.token
SameGeneration(c) == generation = c.generation

\* isAuthBootstrapCurrent; generateRoutes and the guard repeat it in the same
\* chain of resolved promises.
Current(c) == generation = c.generation /\ token = c.token

\* SET_PERMISSIONS, SET_ROUTES, router.addRoutes and the repeated navigation.
InfoAnswered(c) ==
    /\ c.status = "answered"
    /\ infoCalls' = infoCalls \ {c}
    /\ IF Current(c)
       THEN /\ info' = c.grants
            /\ routes' = c.grants
            /\ matcher' = matcher \cup {c.grants}
            /\ Show(IF cookie = NoToken THEN "login" ELSE "app")
       ELSE UNCHANGED <<info, routes, matcher, page>>
    /\ UNCHANGED <<backendVars, cookie, token, generation, dialog>>
    /\ UNCHANGED <<logoutCalls, loginCalls, calls>>

\* The response interceptor opens the dialog on code 50008; a request that fails
\* on its way, before or after it was served, does not.
Refused(c) ==
    \/ UNCHANGED dialog
    \/ c.status = "expired" /\ dialog' = TRUE

\* getInfo is rejected with code 50008, or by the network: the guard of a
\* current bootstrap resets the token and goes to the login page.
InfoRejected(c) ==
    /\ infoCalls' = infoCalls \ {c}
    /\ Refused(c)
    /\ IF Current(c)
       THEN Advance /\ ClearTab /\ Show("login")
       ELSE UNCHANGED <<generation, cookie, stateVars, page>>
    /\ UNCHANGED <<backendVars, logoutCalls, loginCalls, calls>>

\* A status of 403 leaves everything as it is.
InfoDenied(c) ==
    /\ c.status = "pending"
    /\ infoCalls' = infoCalls \ {c}
    /\ UNCHANGED <<backendVars, cookie, stateVars, generation, page, dialog>>
    /\ UNCHANGED <<logoutCalls, loginCalls, calls>>

InfoArrives(c) ==
    InfoAnswered(c) \/ InfoRejected(c) \/ InfoDenied(c)

-----------------------------------------------------------------------------
(***************************************************************************)
(* Login, logout, re-authentication                                        *)
(***************************************************************************)

\* The backend accepts the credentials: setToken replaces the account's token.
LoginAccepted(a, k) ==
    /\ issued[k] = Nothing
    /\ issued' = [issued EXCEPT ![k] = [account |-> a, version |-> version[a]]]
    /\ accepted' = (accepted \ TokensOf(a)) \cup {k}
    /\ UNCHANGED version

Login(a, k) ==
    /\ page = "login"
    /\ LoginAccepted(a, k)
    /\ loginCalls' = loginCalls \cup {k}
    /\ UNCHANGED <<cookie, stateVars, generation, page, dialog>>
    /\ UNCHANGED <<infoCalls, logoutCalls, calls>>

\* SET_TOKEN, the cookie, and the navigation of handleLogin.
LoginArrives(k) ==
    /\ loginCalls' = loginCalls \ {k}
    /\ token' = k
    /\ cookie' = k
    /\ Guard(k, k, routes)
    /\ UNCHANGED <<backendVars, info, routes, matcher, dialog, logoutCalls>>

\* The login took effect, but its answer is lost.
LoginLost(k) ==
    /\ loginCalls' = loginCalls \ {k}
    /\ UNCHANGED <<backendVars, cookie, stateVars, generation, page, dialog>>
    /\ UNCHANGED <<infoCalls, logoutCalls, calls>>

Logout ==
    /\ page = "app" /\ calls < MaxCalls
    /\ calls' = calls + 1
    /\ Advance
    /\ logoutCalls' = logoutCalls \cup
         {[generation |-> generation',
           sent |-> XToken(token, cookie), status |-> "pending"]}
    /\ UNCHANGED <<backendVars, cookie, stateVars, page, dialog>>
    /\ UNCHANGED <<infoCalls, loginCalls>>

\* removeToken, resetRouter, RESET_STATE: whichever session the tab has by now.
LogoutDone(c) ==
    /\ c.status = "done"
    /\ logoutCalls' = logoutCalls \ {c}
    /\ ClearTab /\ Show("login")
    /\ UNCHANGED <<backendVars, generation, dialog>>
    /\ UNCHANGED <<infoCalls, loginCalls, calls>>

\* The action rejects: the tab stays as it is.
LogoutRejected(c) ==
    /\ logoutCalls' = logoutCalls \ {c}
    /\ Refused(c)
    /\ UNCHANGED <<backendVars, cookie, stateVars, generation, page>>
    /\ UNCHANGED <<infoCalls, loginCalls, calls>>

\* Another request of the page is refused: beginReauthentication.
NoticeExpiry ==
    /\ page = "app" /\ XToken(token, cookie) \notin accepted
    /\ ~dialog
    /\ dialog' = TRUE
    /\ UNCHANGED <<backendVars, cookie, stateVars, generation, page, callVars>>

\* The page is loaded again: a new store, no request of the old one.
Restart(jar) ==
    /\ token' = jar
    /\ info' = Nothing
    /\ routes' = Nothing
    /\ matcher' = {}
    /\ generation' = 0
    /\ dialog' = FALSE
    /\ Show(IF jar = NoToken THEN "login" ELSE "blank")
    /\ infoCalls' = {} /\ logoutCalls' = {} /\ loginCalls' = {}
    /\ UNCHANGED <<backendVars, calls>>

Reload == Restart(cookie) /\ UNCHANGED cookie

\* user/resetToken, then location.reload.
ConfirmDialog ==
    /\ dialog
    /\ cookie' = NoToken
    /\ Restart(NoToken)

CancelDialog ==
    /\ dialog
    /\ dialog' = FALSE
    /\ UNCHANGED <<backendVars, cookie, stateVars, generation, page, callVars>>

-----------------------------------------------------------------------------
(***************************************************************************)
(* The backend                                                             *)
(***************************************************************************)

ServeInfo(c) ==
    /\ c.status = "pending"
    /\ infoCalls' = (infoCalls \ {c}) \cup
         {IF c.sent \in accepted
          THEN [c EXCEPT !.status = "answered",
                  !.grants = [account |-> Account(c.sent),
                              version |-> version[Account(c.sent)]]]
          ELSE [c EXCEPT !.status = "expired"]}
    /\ UNCHANGED <<backendVars, cookie, stateVars, generation, page, dialog>>
    /\ UNCHANGED <<logoutCalls, loginCalls, calls>>

\* UserController::logout clears the token of the account it recognises.
ServeLogout(c) ==
    /\ c.status = "pending"
    /\ accepted' = IF c.sent \in accepted THEN accepted \ TokensOf(Account(c.sent))
                   ELSE accepted
    /\ logoutCalls' = (logoutCalls \ {c}) \cup
         {[c EXCEPT !.status = IF c.sent \in accepted THEN "done" ELSE "expired"]}
    /\ UNCHANGED <<issued, version, cookie, stateVars, generation, page, dialog>>
    /\ UNCHANGED <<infoCalls, loginCalls, calls>>

\* An administrator saves other permissions of a; a sensitive change also
\* clears the account's token.  To a tab an expired token is a cleared one.
PermissionsChange(a) ==
    /\ version[a] < MaxChanges
    /\ version' = [version EXCEPT ![a] = @ + 1]
    /\ accepted' \in {accepted, accepted \ TokensOf(a)}
    /\ UNCHANGED <<issued, cookie, stateVars, generation, page, dialog, callVars>>

-----------------------------------------------------------------------------
(***************************************************************************)
(* Other tabs                                                              *)
(***************************************************************************)

\* The user logs in there: its token replaces the common cookie.
OtherTabLogin(a, k) ==
    /\ LoginAccepted(a, k)
    /\ cookie' = k
    /\ UNCHANGED <<stateVars, generation, page, dialog, callVars>>

\* A tab that has logged out, or whose own bootstrap failed, removes it.
OtherTabRemovesCookie ==
    /\ cookie' = NoToken
    /\ UNCHANGED <<backendVars, stateVars, generation, page, dialog, callVars>>

BootstrapNext ==
    \/ Navigate \/ Logout \/ NoticeExpiry \/ Reload \/ ConfirmDialog \/ CancelDialog
    \/ \E a \in Accounts, k \in Tokens : Login(a, k) \/ OtherTabLogin(a, k)
    \/ OtherTabRemovesCookie
    \/ \E c \in infoCalls : InfoArrives(c) \/ ServeInfo(c)
    \/ \E k \in loginCalls : LoginArrives(k) \/ LoginLost(k)
    \/ \E c \in logoutCalls : LogoutDone(c) \/ LogoutRejected(c) \/ ServeLogout(c)
    \/ \E a \in Accounts : PermissionsChange(a)

BootstrapSpec == BootstrapInit /\ [][BootstrapNext]_vars

-----------------------------------------------------------------------------
(***************************************************************************)
(* Properties                                                              *)
(***************************************************************************)

\* The name and permissions in the store, the menu and the routes the router
\* knows come from one and the same answer: bootstraps that overlap, end out of
\* order or end after a logout never leave parts of two sessions behind.
OneAnswerEverywhere ==
    /\ routes = info
    /\ matcher = {info} \ {Nothing}

\* A tab without a token has no permissions and no routes: an answer that comes
\* after the end of its session does not bring the session back.
LoggedOutTabIsEmpty ==
    token = NoToken => info = Nothing /\ routes = Nothing

\* A change of permissions is in force after the user logs in again: the tab
\* shows the permissions of the account its token was issued to, as of that login
\* or newer.
ReloginTakesEffect ==
    token # NoToken /\ info # Nothing =>
        /\ info.account = Account(token)
        /\ info.version >= issued[token].version
=============================================================================
