----------------------------- MODULE LoginTokens -----------------------------
(***************************************************************************)
(* Login tokens in Redis, as Users::setToken, checkToken and clearToken    *)
(* keep them: a key user_token_<id> with the user's one token, and a key   *)
(* named by the token with the id.  A login writes and expires the two     *)
(* keys in four separate commands.                                         *)
(***************************************************************************)
EXTENDS Naturals, FiniteSets

CONSTANTS
    Accounts,   \* ids of users who log in
    Tokens,     \* token strings; a bound on the logins of a behaviour
    NoToken,    \* the value of a missing user_token key
    Nobody,     \* the value of a missing token key
    Logins      \* PHP workers that serve POST user/login

ASSUME TokensAssumption == NoToken \notin Tokens /\ Nobody \notin Accounts

VARIABLES
    userToken,  \* userToken[u]: the key user_token_<u>
    tokenUser,  \* tokenUser[t]: the key named t
    userTtl,    \* the users whose key has an expiry
    tokenTtl,   \* the tokens whose key has an expiry
    issued,     \* tokens handed out so far: md5 of id, time and mt_rand
    mayLogin,   \* mayLogin[u]: password known, not expired, status 1
    login       \* login[l]: step, user and token of a login under way

tokenVars == <<userToken, tokenUser, userTtl, tokenTtl, issued, mayLogin, login>>

LoginSteps == {"idle", "checked", "userKey", "userExpiry", "tokenKey"}

NoLogin == [step |-> "idle", user |-> Nobody, token |-> NoToken]

TokensTypeOK ==
    /\ userToken \in [Accounts -> Tokens \cup {NoToken}]
    /\ tokenUser \in [Tokens -> Accounts \cup {Nobody}]
    /\ userTtl \subseteq Accounts
    /\ tokenTtl \subseteq Tokens
    /\ issued \subseteq Tokens
    /\ mayLogin \in [Accounts -> BOOLEAN]
    /\ login \in [Logins -> [step : LoginSteps, user : Accounts \cup {Nobody},
                             token : Tokens \cup {NoToken}]]

TokensInit ==
    /\ userToken = [u \in Accounts |-> NoToken]
    /\ tokenUser = [t \in Tokens |-> Nobody]
    /\ userTtl = {} /\ tokenTtl = {} /\ issued = {}
    /\ mayLogin = [u \in Accounts |-> TRUE]
    /\ login = [l \in Logins |-> NoLogin]

\* checkToken accepts t.
Live(t) ==
    /\ tokenUser[t] # Nobody
    /\ userToken[tokenUser[t]] = t

LoginAt(l, step, next) ==
    /\ login[l].step = step
    /\ login' = [login EXCEPT ![l].step = next]

-----------------------------------------------------------------------------
\* LoginController::login up to setToken: the row of users is read once, its
\* password, expiry and status checked; the writes that follow log the login.
CheckCredentials(l, u) ==
    /\ login[l].step = "idle"
    /\ mayLogin[u]
    /\ login' = [login EXCEPT ![l] =
                    [step |-> "checked", user |-> u, token |-> NoToken]]
    /\ UNCHANGED <<userToken, tokenUser, userTtl, tokenTtl, issued, mayLogin>>

\* SET user_token_<u>: overwrites the previous token and drops the expiry.
SetUserKey(l) ==
    /\ login[l].step = "checked"
    /\ \E t \in Tokens \ issued :
        /\ issued' = issued \cup {t}
        /\ userToken' = [userToken EXCEPT ![login[l].user] = t]
        /\ login' = [login EXCEPT ![l].step = "userKey", ![l].token = t]
    /\ userTtl' = userTtl \ {login[l].user}
    /\ UNCHANGED <<tokenUser, tokenTtl, mayLogin>>

\* Mutant: the expiry of the first login is expected to last.
ExpireUserKeyNever(l) ==
    /\ LoginAt(l, "userKey", "userExpiry")
    /\ UNCHANGED <<userToken, tokenUser, userTtl, tokenTtl, issued, mayLogin>>

\* EXPIREAT user_token_<u>, without effect on a missing key.
ExpireUserKey(l) ==
    /\ LoginAt(l, "userKey", "userExpiry")
    /\ userTtl' = IF userToken[login[l].user] = NoToken THEN userTtl
                  ELSE userTtl \cup {login[l].user}
    /\ UNCHANGED <<userToken, tokenUser, tokenTtl, issued, mayLogin>>

SetTokenKey(l) ==
    /\ LoginAt(l, "userExpiry", "tokenKey")
    /\ tokenUser' = [tokenUser EXCEPT ![login[l].token] = login[l].user]
    /\ tokenTtl' = tokenTtl \ {login[l].token}
    /\ UNCHANGED <<userToken, userTtl, issued, mayLogin>>

\* EXPIREAT of the token key, and the response.
ExpireTokenKey(l) ==
    /\ login[l].step = "tokenKey"
    /\ login' = [login EXCEPT ![l] = NoLogin]
    /\ tokenTtl' = tokenTtl \cup {login[l].token}
    /\ UNCHANGED <<userToken, tokenUser, userTtl, issued, mayLogin>>

\* The worker dies or Redis fails between two commands.
LoginFails(l) ==
    /\ login[l].step # "idle"
    /\ login' = [login EXCEPT ![l] = NoLogin]
    /\ UNCHANGED <<userToken, tokenUser, userTtl, tokenTtl, issued, mayLogin>>

\* After 72 hours Redis drops a key that has an expiry.
UserKeyExpires(u) ==
    /\ u \in userTtl
    /\ userToken' = [userToken EXCEPT ![u] = NoToken]
    /\ userTtl' = userTtl \ {u}
    /\ UNCHANGED <<tokenUser, tokenTtl, issued, mayLogin, login>>

TokenKeyExpires(t) ==
    /\ t \in tokenTtl
    /\ tokenUser' = [tokenUser EXCEPT ![t] = Nobody]
    /\ tokenTtl' = tokenTtl \ {t}
    /\ UNCHANGED <<userToken, userTtl, issued, mayLogin, login>>

\* clearToken: DEL user_token_<u>.
DeleteUserKey(u) ==
    /\ userToken' = [userToken EXCEPT ![u] = NoToken]
    /\ userTtl' = userTtl \ {u}
    /\ UNCHANGED <<tokenUser, tokenTtl, issued, mayLogin, login>>

TokensNext ==
    \/ \E l \in Logins, u \in Accounts : CheckCredentials(l, u)
    \/ \E l \in Logins :
        \/ SetUserKey(l) \/ ExpireUserKey(l) \/ SetTokenKey(l)
        \/ ExpireTokenKey(l) \/ LoginFails(l)
    \/ \E u \in Accounts : UserKeyExpires(u)
    \/ \E t \in Tokens : TokenKeyExpires(t)

\* On its own the store also sees token keys deleted at any moment, by the
\* requests of AccountSessions.
LoginTokensNext == TokensNext \/ \E u \in Accounts : DeleteUserKey(u)

LoginTokensSpec == TokensInit /\ [][LoginTokensNext]_tokenVars

\* No session outlives its 72 hours: whenever checkToken would accept a token,
\* the key that names the user's token carries an expiry, however logins of
\* one user, force logouts and dying workers interleave.
LiveSessionsExpire == \A t \in Tokens : Live(t) => tokenUser[t] \in userTtl
=============================================================================
