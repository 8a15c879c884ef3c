------------------------ MODULE AccountSessionsProofs ------------------------
(***************************************************************************)
(* Login tokens and the requests that end sessions: theorems for any       *)
(* number of users, tokens, logins, saves and requests.                    *)
(***************************************************************************)
EXTENDS AccountSessions, PermissionServiceProofs

-----------------------------------------------------------------------------
(* The tokens by themselves.                                               *)

\* Tokens in use have been handed out, and each belongs to one user.
TokenInv ==
    /\ \A u \in Accounts : userToken[u] # NoToken => userToken[u] \in issued
    /\ \A t \in Tokens : tokenUser[t] # Nobody => t \in issued
    /\ \A l \in Logins :
        /\ login[l].step # "idle" => login[l].user \in Accounts
        /\ login[l].step \in {"idle", "checked"} => login[l].token = NoToken
        /\ login[l].step \notin {"idle", "checked"} => login[l].token \in issued
    /\ \A u, v \in Accounts : userToken[u] # NoToken /\ userToken[u] = userToken[v] => u = v
    /\ \A l \in Logins, u \in Accounts :
        login[l].token # NoToken /\ userToken[u] = login[l].token => login[l].user = u

\* While the key of a user has no expiry, its token is not accepted: the login
\* that wrote it has yet to set the expiry, or died before the token's own key.
ExpiryInv ==
    \A u \in Accounts : userToken[u] # NoToken /\ u \notin userTtl =>
        /\ tokenUser[userToken[u]] = Nobody
        /\ \A l \in Logins : login[l].token = userToken[u] => login[l].step = "userKey"

TokensInv == TokensTypeOK /\ TokenInv /\ ExpiryInv

\* A token that was handed out never comes back to a user who has lost it.
OldTokensOnlyGo ==
    /\ issued \subseteq issued'
    /\ \A t \in issued, u \in Accounts : userToken'[u] = t => userToken[u] = t

\* At the start there are no tokens.
LEMMA TokensInitEstablishes == TokensInit => TokensInv
BY DEF TokensInit, TokensInv, TokensTypeOK, TokenInv, ExpiryInv, NoLogin, LoginSteps

\* Each command of a login, in whatever order those of several logins come.
LEMMA CheckCredentialsKeeps ==
    ASSUME TokensInv, NEW l \in Logins, NEW u \in Accounts, CheckCredentials(l, u)
    PROVE  TokensInv' /\ OldTokensOnlyGo
<1>1. TokensTypeOK'
  BY DEF CheckCredentials, TokensInv, TokensTypeOK, LoginSteps
<1>2. TokenInv'
  BY DEF CheckCredentials, TokensInv, TokensTypeOK, TokenInv, LoginSteps
<1>3. ExpiryInv'
  BY DEF CheckCredentials, TokensInv, TokensTypeOK, TokenInv, ExpiryInv, LoginSteps
<1> QED BY <1>1, <1>2, <1>3 DEF TokensInv, OldTokensOnlyGo, CheckCredentials

\* The first SET names the login's own token; another token of the user stays in its key.
LEMMA SetUserKeyKeeps ==
    ASSUME TokensInv, NEW l \in Logins, SetUserKey(l)
    PROVE  TokensInv' /\ OldTokensOnlyGo
<1>1. PICK t \in Tokens \ issued :
        /\ issued' = issued \cup {t}
        /\ userToken' = [userToken EXCEPT ![login[l].user] = t]
        /\ login' = [login EXCEPT ![l].step = "userKey", ![l].token = t]
  BY DEF SetUserKey
<1>2. /\ login[l].step = "checked" /\ login[l].user \in Accounts
      /\ UNCHANGED <<tokenUser, tokenTtl, mayLogin>> /\ userTtl' = userTtl \ {login[l].user}
  BY DEF SetUserKey, TokensInv, TokenInv
<1>3. /\ login'[l] = [step |-> "userKey", user |-> login[l].user, token |-> t]
      /\ \A k \in Logins : k # l => login'[k] = login[k]
  BY <1>1 DEF TokensInv, TokensTypeOK
<1>4. TokensTypeOK'
  BY <1>1, <1>2 DEF TokensInv, TokensTypeOK, LoginSteps
<1>5. \A v \in Accounts : userToken'[v] = IF v = login[l].user THEN t ELSE userToken[v]
  BY <1>1, <1>2 DEF TokensInv, TokensTypeOK
<1>6. t # NoToken /\ t \notin issued /\ issued \subseteq issued' /\ t \in issued'
  BY <1>1, TokensAssumption
<1>7. TokenInv'
  <2>1. /\ \A u \in Accounts : userToken'[u] # NoToken => userToken'[u] \in issued'
        /\ \A k \in Tokens : tokenUser'[k] # Nobody => k \in issued'
    BY <1>2, <1>5, <1>6 DEF TokensInv, TokenInv
  <2>2. ASSUME NEW k \in Logins
        PROVE  /\ login'[k].step # "idle" => login'[k].user \in Accounts
               /\ login'[k].step \in {"idle", "checked"} => login'[k].token = NoToken
               /\ login'[k].step \notin {"idle", "checked"} => login'[k].token \in issued'
    BY <1>2, <1>3, <1>6 DEF TokensInv, TokenInv
  <2>3. \A u, v \in Accounts :
            userToken'[u] # NoToken /\ userToken'[u] = userToken'[v] => u = v
    BY <1>5, <1>6 DEF TokensInv, TokenInv
  <2>4. ASSUME NEW k \in Logins, NEW u \in Accounts,
               login'[k].token # NoToken, userToken'[u] = login'[k].token
        PROVE  login'[k].user = u
    <3>1. login[k].token # t
      BY <1>6, TokensAssumption DEF TokensInv, TokensTypeOK, TokenInv
    <3>2. userToken[u] # t
      BY <1>6 DEF TokensInv, TokenInv
    <3> QED BY <1>3, <1>5, <2>4, <3>1, <3>2 DEF TokensInv, TokenInv
  <2> QED BY <2>1, <2>2, <2>3, <2>4 DEF TokenInv
<1>8. ExpiryInv'
  <2>1. ASSUME NEW u \in Accounts, userToken'[u] # NoToken, u \notin userTtl'
        PROVE  /\ tokenUser'[userToken'[u]] = Nobody
               /\ \A k \in Logins :
                     login'[k].token = userToken'[u] => login'[k].step = "userKey"
    <3>1. CASE u = login[l].user
      <4>1. userToken'[u] = t /\ tokenUser[t] = Nobody
        BY <1>1, <1>5, <3>1 DEF TokensInv, TokenInv
      <4>2. ASSUME NEW k \in Logins, login'[k].token = t PROVE k = l
        BY <1>3, <1>6, <4>2, TokensAssumption DEF TokensInv, TokensTypeOK, TokenInv
      <4> QED BY <1>2, <1>3, <4>1, <4>2
    <3>2. CASE u # login[l].user
      <4>1. userToken'[u] = userToken[u] /\ u \notin userTtl /\ userToken[u] # t
        BY <1>2, <1>5, <1>6, <2>1, <3>2 DEF TokensInv, TokenInv
      <4> QED BY <1>2, <1>3, <2>1, <4>1 DEF TokensInv, ExpiryInv
    <3> QED BY <3>1, <3>2
  <2> QED BY <2>1 DEF ExpiryInv
<1>9. OldTokensOnlyGo
  BY <1>5, <1>6 DEF OldTokensOnlyGo
<1> QED BY <1>4, <1>7, <1>8, <1>9 DEF TokensInv

\* The first EXPIRE only adds a deadline to the user's key.
LEMMA ExpireUserKeyKeeps ==
    ASSUME TokensInv, NEW l \in Logins, ExpireUserKey(l)
    PROVE  TokensInv' /\ OldTokensOnlyGo
<1>1. /\ UNCHANGED <<userToken, tokenUser, tokenTtl, issued, mayLogin>>
      /\ login[l].step = "userKey" /\ login[l].user \in Accounts
      /\ login' = [login EXCEPT ![l].step = "userExpiry"]
      /\ userTtl' = IF userToken[login[l].user] = NoToken THEN userTtl
                    ELSE userTtl \cup {login[l].user}
  BY DEF ExpireUserKey, LoginAt, TokensInv, TokenInv
<1>2. /\ login'[l] = [step |-> "userExpiry", user |-> login[l].user, token |-> login[l].token]
      /\ \A k \in Logins : k # l => login'[k] = login[k]
  BY <1>1 DEF TokensInv, TokensTypeOK
<1>3. TokensTypeOK'
  BY <1>1 DEF TokensInv, TokensTypeOK, LoginSteps
<1>4. TokenInv'
  <2>1. ASSUME NEW k \in Logins
        PROVE  /\ login'[k].step # "idle" => login'[k].user \in Accounts
               /\ login'[k].step \in {"idle", "checked"} => login'[k].token = NoToken
               /\ login'[k].step \notin {"idle", "checked"} => login'[k].token \in issued'
               /\ login'[k].token = login[k].token /\ login'[k].user = login[k].user
    BY <1>1, <1>2 DEF TokensInv, TokenInv
  <2> QED BY <1>1, <2>1 DEF TokensInv, TokenInv
<1>5. ExpiryInv'
  <2>1. ASSUME NEW u \in Accounts, userToken[u] # NoToken, u \notin userTtl'
        PROVE  /\ tokenUser[userToken[u]] = Nobody
               /\ \A k \in Logins : login'[k].token = userToken[u] => login'[k].step = "userKey"
    <3>1. u \notin userTtl /\ u # login[l].user
      BY <1>1, <2>1
    <3>2. login[l].token # userToken[u]
      BY <2>1, <3>1 DEF TokensInv, TokenInv
    <3> QED BY <1>2, <2>1, <3>1, <3>2 DEF TokensInv, ExpiryInv
  <2> QED BY <1>1, <2>1 DEF ExpiryInv
<1> QED BY <1>1, <1>3, <1>4, <1>5 DEF TokensInv, OldTokensOnlyGo

\* The second SET makes the login's own token live; nobody else has that token.
LEMMA SetTokenKeyKeeps ==
    ASSUME TokensInv, NEW l \in Logins, SetTokenKey(l)
    PROVE  TokensInv' /\ OldTokensOnlyGo
<1>1. /\ UNCHANGED <<userToken, userTtl, issued, mayLogin>>
      /\ login[l].step = "userExpiry" /\ login[l].user \in Accounts
      /\ login[l].token \in issued /\ login[l].token \in Tokens
      /\ login' = [login EXCEPT ![l].step = "tokenKey"]
      /\ tokenUser' = [tokenUser EXCEPT ![login[l].token] = login[l].user]
      /\ tokenTtl' = tokenTtl \ {login[l].token}
  BY DEF SetTokenKey, LoginAt, TokensInv, TokenInv, TokensTypeOK
<1>2. /\ login'[l] = [step |-> "tokenKey", user |-> login[l].user, token |-> login[l].token]
      /\ \A k \in Logins : k # l => login'[k] = login[k]
      /\ \A t \in Tokens : t # login[l].token => tokenUser'[t] = tokenUser[t]
  BY <1>1 DEF TokensInv, TokensTypeOK
<1>3. TokensTypeOK'
  BY <1>1 DEF TokensInv, TokensTypeOK, LoginSteps
<1>4. TokenInv'
  <2>1. ASSUME NEW k \in Logins
        PROVE  /\ login'[k].step # "idle" => login'[k].user \in Accounts
               /\ login'[k].step \in {"idle", "checked"} => login'[k].token = NoToken
               /\ login'[k].step \notin {"idle", "checked"} => login'[k].token \in issued'
               /\ login'[k].token = login[k].token /\ login'[k].user = login[k].user
    BY <1>1, <1>2 DEF TokensInv, TokenInv
  <2>2. \A t \in Tokens : tokenUser'[t] # Nobody => t \in issued
    BY <1>1, <1>2 DEF TokensInv, TokenInv
  <2> QED BY <1>1, <2>1, <2>2 DEF TokensInv, TokenInv
<1>5. ExpiryInv'
  <2>1. ASSUME NEW u \in Accounts, userToken[u] # NoToken, u \notin userTtl
        PROVE  /\ tokenUser'[userToken[u]] = Nobody
               /\ \A k \in Logins : login'[k].token = userToken[u] => login'[k].step = "userKey"
    <3>1. login[l].token # userToken[u] /\ userToken[u] \in Tokens
      BY <1>1, <2>1 DEF TokensInv, ExpiryInv, TokensTypeOK
    <3> QED BY <1>2, <2>1, <3>1 DEF TokensInv, ExpiryInv
  <2> QED BY <1>1, <2>1 DEF ExpiryInv
<1> QED BY <1>1, <1>3, <1>4, <1>5 DEF TokensInv, OldTokensOnlyGo

\* A login that ends, well or not, leaves the keys as they are.
LEMMA LoginEndsKeeps ==
    ASSUME TokensInv, NEW l \in Logins, ExpireTokenKey(l) \/ LoginFails(l)
    PROVE  TokensInv' /\ OldTokensOnlyGo
<1>1. /\ UNCHANGED <<userToken, tokenUser, userTtl, issued, mayLogin>>
      /\ login' = [login EXCEPT ![l] = NoLogin]
      /\ tokenTtl' \subseteq Tokens
  BY DEF ExpireTokenKey, LoginFails, TokensInv, TokensTypeOK, TokenInv
<1>2. /\ login'[l] = NoLogin /\ NoLogin.step = "idle" /\ NoLogin.token = NoToken
      /\ \A k \in Logins : k # l => login'[k] = login[k]
  BY <1>1 DEF TokensInv, TokensTypeOK, NoLogin
<1>3. TokensTypeOK'
  BY <1>1 DEF TokensInv, TokensTypeOK, LoginSteps, NoLogin
<1>4. TokenInv'
  BY <1>1, <1>2 DEF TokensInv, TokenInv
<1>5. ExpiryInv'
  BY <1>1, <1>2 DEF TokensInv, ExpiryInv
<1> QED BY <1>1, <1>3, <1>4, <1>5 DEF TokensInv, OldTokensOnlyGo

\* A key that is dropped or expires.
LEMMA KeyGoesKeeps ==
    ASSUME TokensInv,
           \/ \E u \in Accounts : DeleteUserKey(u) \/ UserKeyExpires(u)
           \/ \E t \in Tokens : TokenKeyExpires(t)
    PROVE  TokensInv' /\ OldTokensOnlyGo
<1>1. CASE \E u \in Accounts : DeleteUserKey(u) \/ UserKeyExpires(u)
  <2>1. PICK u \in Accounts :
          /\ UNCHANGED <<tokenUser, tokenTtl, issued, mayLogin, login>>
          /\ userToken' = [userToken EXCEPT ![u] = NoToken]
          /\ userTtl' = userTtl \ {u}
    BY <1>1 DEF DeleteUserKey, UserKeyExpires
  <2>2. \A v \in Accounts : userToken'[v] = IF v = u THEN NoToken ELSE userToken[v]
    BY <2>1 DEF TokensInv, TokensTypeOK
  <2>3. TokensTypeOK'
    BY <2>1 DEF TokensInv, TokensTypeOK
  <2>4. TokenInv'
    BY <2>1, <2>2 DEF TokensInv, TokenInv
  <2>5. ExpiryInv'
    BY <2>1, <2>2 DEF TokensInv, ExpiryInv
  <2>6. OldTokensOnlyGo
    BY <2>1, <2>2, TokensAssumption DEF TokensInv, TokensTypeOK, OldTokensOnlyGo
  <2> QED BY <2>3, <2>4, <2>5, <2>6 DEF TokensInv
<1>2. CASE \E t \in Tokens : TokenKeyExpires(t)
  <2>1. PICK t \in Tokens :
          /\ UNCHANGED <<userToken, userTtl, issued, mayLogin, login>>
          /\ tokenUser' = [tokenUser EXCEPT ![t] = Nobody]
          /\ tokenTtl' = tokenTtl \ {t}
    BY <1>2 DEF TokenKeyExpires
  <2>2. \A k \in Tokens : tokenUser'[k] = IF k = t THEN Nobody ELSE tokenUser[k]
    BY <2>1 DEF TokensInv, TokensTypeOK
  <2>3. TokensTypeOK'
    BY <2>1 DEF TokensInv, TokensTypeOK
  <2>4. TokenInv'
    BY <2>1, <2>2 DEF TokensInv, TokenInv
  <2>5. ExpiryInv'
    <3>1. \A u \in Accounts : userToken[u] # NoToken => userToken[u] \in Tokens
      BY DEF TokensInv, TokensTypeOK
    <3> QED BY <2>1, <2>2, <3>1 DEF TokensInv, ExpiryInv
  <2> QED BY <2>1, <2>3, <2>4, <2>5 DEF TokensInv, OldTokensOnlyGo
<1> QED BY <1>1, <1>2

\* All steps on tokens together.
LEMMA TokensStepKeeps ==
    ASSUME TokensInv, TokensNext \/ \E u \in Accounts : DeleteUserKey(u)
    PROVE  TokensInv' /\ OldTokensOnlyGo
BY CheckCredentialsKeeps, SetUserKeyKeeps, ExpireUserKeyKeeps, SetTokenKeyKeeps,
   LoginEndsKeeps, KeyGoesKeeps DEF TokensNext

\* What a ban or a deletion changes is only who may log in.
LEMMA MayLoginKeeps ==
    ASSUME TokensInv, mayLogin' \in [Accounts -> BOOLEAN],
           UNCHANGED <<userToken, tokenUser, userTtl, tokenTtl, issued, login>>
    PROVE  TokensInv' /\ OldTokensOnlyGo
BY DEF TokensInv, TokensTypeOK, TokenInv, ExpiryInv, OldTokensOnlyGo

-----------------------------------------------------------------------------
(* The sessions of users.                                                  *)

\* Nobody has token t any more.
Dead(t) == t \in issued /\ \A u \in Accounts : userToken[u] # t

\* At most user v has token t.
OnlyOf(t, v) == t \in issued /\ \A u \in Accounts : userToken[u] = t => u = v

\* What a request has doomed it has ended once it is about to respond, and
\* nobody else has got it meanwhile.
DoomInv ==
    /\ \A t \in ended : Dead(t)
    /\ \A w \in Workers : doomed[w] # NoToken =>
        /\ work[w].step = "clearing" => OnlyOf(doomed[w], work[w].target)
        /\ work[w].step = "responding" => Dead(doomed[w])
    /\ \A p \in Savers : doomed[p] # NoToken =>
        /\ pc[p] = "clearing" => OnlyOf(doomed[p], req[p].target)
        /\ pc[p] = "responding" => Dead(doomed[p])

\* Whoever is about to clear the root's session is the root.
RootInv ==
    /\ \A w \in Workers :
        work[w].step \in {"admitted", "clearing"} /\ work[w].target = Root
            => work[w].actor = Root
    /\ \A p \in Savers : pc[p] = "clearing" /\ req[p].target = Root => req[p].actor = Root

WorkType ==
    /\ work \in [Workers -> [step : {"idle", "admitted", "clearing", "responding"},
                             kind : Kinds, actor : UserIds, target : UserIds]]
    /\ requests \in 0 .. MaxRequests
    /\ doomed \in [Workers \cup Savers -> Tokens \cup {NoToken}]
    /\ ended \subseteq Tokens /\ outdated \subseteq Tokens
    /\ lastAcked \in [UserIds -> BOOLEAN]

SessionsInv == TypeOK /\ TokensInv /\ WorkType /\ DoomInv /\ RootInv

\* A session step is a step of the permission service or leaves it alone.
LEMMA SessionStepOfService == [SessionsNext]_allVars => [Next]_vars
BY DEF SessionsNext, allVars, Next, Step, SaveBegin, SaveInside, SaveCommit, SaveClear,
       SaveRespond, SaveFails, Admit, UpdateRow, ClearSession, Answer, WorkFails, RemoveAccount

\* So every theorem about the permission service holds among logins and forced
\* logouts.
THEOREM SessionsRunTheService == SessionsSpec => Spec
<1>1. SessionsInit => Init
  BY DEF SessionsInit
<1> QED BY <1>1, SessionStepOfService, PTL DEF SessionsSpec, Spec

\* Dead tokens stay dead and those of one user stay that user's.
LEMMA DoomStays ==
    ASSUME OldTokensOnlyGo, NEW t, NEW v
    PROVE  (Dead(t) => Dead(t)') /\ (OnlyOf(t, v) => OnlyOf(t, v)')
BY DEF OldTokensOnlyGo, Dead, OnlyOf

\* A step that leaves requests and saves alone, whatever it does to tokens.
LEMMA SessionsUntouched ==
    ASSUME SessionsInv, OldTokensOnlyGo, UNCHANGED <<pc, req, sessionVars>>
    PROVE  WorkType' /\ DoomInv' /\ RootInv'
<1>1. /\ pc' = pc /\ req' = req /\ work' = work /\ requests' = requests /\ doomed' = doomed
      /\ ended' = ended /\ outdated' = outdated /\ lastAcked' = lastAcked
  BY DEF sessionVars
<1>2. WorkType' /\ RootInv'
  BY <1>1 DEF SessionsInv, WorkType, RootInv
<1>3. \A t \in ended' : Dead(t)'
  BY <1>1, DoomStays DEF SessionsInv, DoomInv
<1>4. ASSUME NEW w \in Workers, doomed'[w] # NoToken
      PROVE  /\ work'[w].step = "clearing" => OnlyOf(doomed[w], work[w].target)'
             /\ work'[w].step = "responding" => Dead(doomed[w])'
  BY <1>1, <1>4 DEF OldTokensOnlyGo, Dead, OnlyOf, SessionsInv, DoomInv
<1>5. ASSUME NEW p \in Savers, doomed'[p] # NoToken
      PROVE  /\ pc'[p] = "clearing" => OnlyOf(doomed[p], req[p].target)'
             /\ pc'[p] = "responding" => Dead(doomed[p])'
  BY <1>1, <1>5 DEF OldTokensOnlyGo, Dead, OnlyOf, SessionsInv, DoomInv
<1> QED BY <1>2, <1>3, <1>4, <1>5 DEF DoomInv

\* At the start nobody is logged in.
LEMMA SessionsInitEstablishes == SessionsInit => WorkType /\ DoomInv /\ RootInv
BY SessionsAssumption, UsersAssumption
DEF SessionsInit, Init, NoWork, WorkType, Kinds, DoomInv, RootInv

\* Steps of a save before its commit, and its end without a response.
LEMMA SaveUndoneKeeps ==
    ASSUME SessionsInv, TypeOK', NEW p \in Savers, SaveBegin(p) \/ SaveInside(p) \/ SaveFails(p)
    PROVE  TokensInv' /\ WorkType' /\ DoomInv' /\ RootInv'
<1>1. /\ UNCHANGED <<tokenVars, work, requests, ended, outdated>>
      /\ \A q \in Savers : q # p => pc'[q] = pc[q] /\ req'[q] = req[q]
      /\ pc'[p] \notin {"clearing", "responding"}
      /\ lastAcked' \in [UserIds -> BOOLEAN]
      /\ doomed' = doomed \/ doomed' = [doomed EXCEPT ![p] = NoToken]
  <2>1. CASE SaveBegin(p)
    BY <2>1 DEF SaveBegin, Begin, Goto, SessionsInv, WorkType, TypeOK
  <2>2. CASE SaveInside(p)
    BY <2>2 DEF SaveInside, sessionVars, LockRow, Authorize, Deny, ReadCurrent, Reject, Goto,
                Finish, SessionsInv, WorkType, TypeOK
  <2>3. CASE SaveFails(p)
    BY <2>3 DEF SaveFails, Fail, Goto, Finish, SessionsInv, WorkType, TypeOK
  <2> QED BY <2>1, <2>2, <2>3
<1>2. TokensInv' /\ OldTokensOnlyGo
  BY <1>1, MayLoginKeeps DEF SessionsInv, TokensInv, TokensTypeOK, tokenVars
<1>3. WorkType'
  BY <1>1 DEF SessionsInv, WorkType
<1>4. RootInv'
  BY <1>1 DEF SessionsInv, RootInv
<1>5. DoomInv'
  <2>1. \A t \in ended' : Dead(t)'
    BY <1>1, <1>2, DoomStays DEF SessionsInv, DoomInv
  <2>2. ASSUME NEW w \in Workers
        PROVE  doomed'[w] = doomed[w] /\ work'[w] = work[w]
    BY <1>1, SessionsAssumption DEF SessionsInv, WorkType
  <2>3. ASSUME NEW q \in Savers, q # p
        PROVE  doomed'[q] = doomed[q] /\ pc'[q] = pc[q] /\ req'[q] = req[q]
    BY <1>1, <2>3 DEF SessionsInv, WorkType
  <2>4. ASSUME NEW w \in Workers, doomed'[w] # NoToken
        PROVE  /\ work'[w].step = "clearing" => OnlyOf(doomed[w], work[w].target)'
               /\ work'[w].step = "responding" => Dead(doomed[w])'
    BY <1>2, <2>2, <2>4 DEF OldTokensOnlyGo, Dead, OnlyOf, SessionsInv, DoomInv
  <2>5. ASSUME NEW q \in Savers, doomed'[q] # NoToken
        PROVE  /\ pc'[q] = "clearing" => OnlyOf(doomed[q], req[q].target)'
               /\ pc'[q] = "responding" => Dead(doomed[q])'
    BY <1>1, <1>2, <2>3, <2>5 DEF OldTokensOnlyGo, Dead, OnlyOf, SessionsInv, DoomInv
  <2> QED BY <2>1, <2>4, <2>5 DEF DoomInv
<1> QED BY <1>2, <1>3, <1>4, <1>5

\* The commit of a sensitive change dooms the token its target has.
LEMMA SaveCommitKeeps ==
    ASSUME SessionsInv, TypeOK', NEW p \in Savers, SaveCommit(p)
    PROVE  TokensInv' /\ WorkType' /\ DoomInv' /\ RootInv'
<1> DEFINE token == userToken[req[p].target]
<1>1. /\ UNCHANGED <<tokenVars, work, requests, ended, lastAcked, req>>
      /\ \A q \in Savers : q # p => pc'[q] = pc[q]
      /\ doomed' = [doomed EXCEPT ![p] = IF pc'[p] = "clearing" THEN token ELSE NoToken]
      /\ outdated' = IF pc'[p] = "clearing" THEN outdated \cup ({token} \ {NoToken}) ELSE outdated
  BY DEF SaveCommit, Commit, Goto, SessionsInv, TypeOK
<1>2. req[p].target \in Accounts /\ token \in Tokens \cup {NoToken}
  <2>1. req[p].target \in UserIds
    BY DEF SessionsInv, TypeOK, RequestRecords
  <2> QED BY <2>1, SessionsAssumption DEF SessionsInv, TokensInv, TokensTypeOK
<1>3. TokensInv' /\ OldTokensOnlyGo
  BY <1>1, MayLoginKeeps DEF SessionsInv, TokensInv, TokensTypeOK, tokenVars
<1>4. WorkType'
  <2> HIDE DEF token
  <2> QED BY <1>1, <1>2 DEF SessionsInv, WorkType
<1>5. req[p].target = Root => req[p].actor = Root
  BY DEF SaveCommit, Commit, ChangeAllowed, RootTargetAllowed
<1>6. RootInv'
  BY <1>1, <1>5 DEF SessionsInv, RootInv
<1>7. DoomInv'
  <2>1. \A t \in ended' : Dead(t)'
    BY <1>1, <1>3, DoomStays DEF SessionsInv, DoomInv
  <2>2. ASSUME NEW w \in Workers PROVE doomed'[w] = doomed[w] /\ work'[w] = work[w]
    BY <1>1, SessionsAssumption DEF SessionsInv, WorkType
  <2>3. ASSUME NEW q \in Savers, q # p PROVE doomed'[q] = doomed[q] /\ pc'[q] = pc[q]
    BY <1>1, <2>3 DEF SessionsInv, WorkType
  <2>4. doomed'[p] = IF pc'[p] = "clearing" THEN token ELSE NoToken
    BY <1>1 DEF SessionsInv, WorkType
  <2>5. token # NoToken => token \in issued /\ \A u \in Accounts : userToken[u] = token => u = req[p].target
    BY <1>2 DEF SessionsInv, TokensInv, TokenInv
  <2>6. ASSUME NEW w \in Workers, doomed'[w] # NoToken
        PROVE  /\ work'[w].step = "clearing" => OnlyOf(doomed[w], work[w].target)'
               /\ work'[w].step = "responding" => Dead(doomed[w])'
    BY <1>3, <2>2, <2>6 DEF OldTokensOnlyGo, Dead, OnlyOf, SessionsInv, DoomInv
  <2> HIDE DEF token
  <2>7. ASSUME NEW q \in Savers, doomed'[q] # NoToken
        PROVE  /\ pc'[q] = "clearing" => OnlyOf(doomed[q], req[q].target)'
               /\ pc'[q] = "responding" => Dead(doomed[q])'
    <3>1. CASE q = p
      BY <1>1, <2>4, <2>5, <2>7, <3>1 DEF OnlyOf, tokenVars
    <3>2. CASE q # p
      BY <1>1, <1>3, <2>3, <2>7, <3>2 DEF OldTokensOnlyGo, Dead, OnlyOf, SessionsInv, DoomInv
    <3> QED BY <3>1, <3>2
  <2> QED BY <2>1, <2>6, <2>7 DEF DoomInv
<1> QED BY <1>3, <1>4, <1>6, <1>7

\* The DEL after the commit: the token that was doomed is gone from its user.
LEMMA SaveClearKeeps ==
    ASSUME SessionsInv, TypeOK', NEW p \in Savers, SaveClear(p)
    PROVE  TokensInv' /\ WorkType' /\ DoomInv' /\ RootInv'
<1>1. /\ UNCHANGED <<sessionVars, req>> /\ pc[p] = "clearing" /\ pc'[p] = "responding"
      /\ \A q \in Savers : q # p => pc'[q] = pc[q]
      /\ DeleteUserKey(req[p].target)
  BY DEF SaveClear, ClearToken, Goto, SessionsInv, TypeOK
<1>2. req[p].target \in Accounts
  BY SessionsAssumption DEF SessionsInv, TypeOK, RequestRecords
<1>3. TokensInv' /\ OldTokensOnlyGo
  BY <1>1, <1>2, TokensStepKeeps DEF SessionsInv
<1>4. WorkType' /\ RootInv'
  BY <1>1 DEF SessionsInv, WorkType, RootInv, sessionVars
<1>5. /\ issued' = issued
      /\ \A u \in Accounts : userToken'[u] = IF u = req[p].target THEN NoToken ELSE userToken[u]
  BY <1>1, <1>2 DEF DeleteUserKey, SessionsInv, TokensInv, TokensTypeOK
<1>6. DoomInv'
  <2>1. \A t \in ended' : Dead(t)'
    BY <1>1, <1>3, DoomStays DEF SessionsInv, DoomInv, sessionVars
  <2>2. ASSUME NEW w \in Workers, doomed'[w] # NoToken
        PROVE  /\ work'[w].step = "clearing" => OnlyOf(doomed[w], work[w].target)'
               /\ work'[w].step = "responding" => Dead(doomed[w])'
    BY <1>1, <1>3, <2>2 DEF OldTokensOnlyGo, Dead, OnlyOf, SessionsInv, DoomInv, sessionVars
  <2>3. ASSUME NEW q \in Savers, doomed'[q] # NoToken
        PROVE  /\ pc'[q] = "clearing" => OnlyOf(doomed[q], req[q].target)'
               /\ pc'[q] = "responding" => Dead(doomed[q])'
    <3>1. CASE q = p
      <4>1. OnlyOf(doomed[p], req[p].target) /\ doomed'[p] = doomed[p] /\ doomed[p] # NoToken
        BY <1>1, <2>3, <3>1 DEF SessionsInv, DoomInv, sessionVars
      <4> QED BY <1>1, <1>5, <3>1, <4>1 DEF OnlyOf, Dead
    <3>2. CASE q # p
      BY <1>1, <1>3, <2>3, <3>2
      DEF OldTokensOnlyGo, Dead, OnlyOf, SessionsInv, DoomInv, sessionVars
    <3> QED BY <3>1, <3>2
  <2> QED BY <2>1, <2>2, <2>3 DEF DoomInv
<1> QED BY <1>3, <1>4, <1>6

\* A response moves the doomed token to the ended ones.
LEMMA SaveRespondKeeps ==
    ASSUME SessionsInv, TypeOK', NEW p \in Savers, SaveRespond(p)
    PROVE  TokensInv' /\ WorkType' /\ DoomInv' /\ RootInv'
<1>1. /\ UNCHANGED <<tokenVars, work, requests, outdated>>
      /\ pc[p] = "responding" /\ pc'[p] = "idle"
      /\ \A q \in Savers : q # p => pc'[q] = pc[q] /\ req'[q] = req[q]
      /\ ended' = ended \cup ({doomed[p]} \ {NoToken})
      /\ doomed' = [doomed EXCEPT ![p] = NoToken]
      /\ lastAcked' \in [UserIds -> BOOLEAN]
  BY DEF SaveRespond, Respond, Finish, Goto, SessionsInv, TypeOK, WorkType
<1>2. TokensInv' /\ OldTokensOnlyGo
  BY <1>1, MayLoginKeeps DEF SessionsInv, TokensInv, TokensTypeOK, tokenVars
<1>3. WorkType'
  BY <1>1 DEF SessionsInv, WorkType
<1>4. RootInv'
  BY <1>1 DEF SessionsInv, RootInv
<1>5. DoomInv'
  <2>1. \A t \in ended' : Dead(t)
    BY <1>1 DEF SessionsInv, DoomInv
  <2>2. \A t \in ended' : Dead(t)'
    BY <1>2, <2>1, DoomStays
  <2>3. ASSUME NEW w \in Workers PROVE doomed'[w] = doomed[w] /\ work'[w] = work[w]
    BY <1>1, SessionsAssumption DEF SessionsInv, WorkType
  <2>4. ASSUME NEW q \in Savers
        PROVE  doomed'[q] = IF q = p THEN NoToken ELSE doomed[q]
    BY <1>1 DEF SessionsInv, WorkType
  <2>5. ASSUME NEW w \in Workers, doomed'[w] # NoToken
        PROVE  /\ work'[w].step = "clearing" => OnlyOf(doomed[w], work[w].target)'
               /\ work'[w].step = "responding" => Dead(doomed[w])'
    BY <1>2, <2>3, <2>5 DEF OldTokensOnlyGo, Dead, OnlyOf, SessionsInv, DoomInv
  <2>6. ASSUME NEW q \in Savers, doomed'[q] # NoToken
        PROVE  /\ pc'[q] = "clearing" => OnlyOf(doomed[q], req[q].target)'
               /\ pc'[q] = "responding" => Dead(doomed[q])'
    BY <1>1, <1>2, <2>4, <2>6 DEF OldTokensOnlyGo, Dead, OnlyOf, SessionsInv, DoomInv
  <2> QED BY <2>2, <2>5, <2>6 DEF DoomInv
<1> QED BY <1>2, <1>3, <1>4, <1>5

\* Requests of UserController: admission, the update that dooms the token, the
\* DEL, and the response or the failure.
LEMMA AdmitKeeps ==
    ASSUME SessionsInv, NEW w \in Workers, Admit(w)
    PROVE  TokensInv' /\ WorkType' /\ DoomInv' /\ RootInv'
<1>1. PICK kind \in Kinds, actor \in users, target \in users :
        /\ Admitted(kind, actor, target)
        /\ work' = [work EXCEPT ![w] = [step |-> "admitted", kind |-> kind,
                                        actor |-> actor, target |-> target]]
  BY DEF Admit
<1>2. /\ UNCHANGED <<tokenVars, pc, req, doomed, ended, outdated, lastAcked>>
      /\ requests' \in 0 .. MaxRequests /\ users \subseteq UserIds
  BY SessionsAssumption DEF Admit, vars, SessionsInv, WorkType, TypeOK
<1>3. TokensInv' /\ OldTokensOnlyGo
  BY <1>2, MayLoginKeeps DEF SessionsInv, TokensInv, TokensTypeOK, tokenVars
<1>4. WorkType'
  BY <1>1, <1>2 DEF SessionsInv, WorkType
<1>5. target = Root => actor = Root
  BY <1>1 DEF Admitted, MutationAllowed, Kinds
<1>6. RootInv'
  BY <1>1, <1>2, <1>5 DEF SessionsInv, RootInv, WorkType
<1>7. DoomInv'
  <2>1. \A v \in Workers : v # w => work'[v] = work[v]
    BY <1>1 DEF SessionsInv, WorkType
  <2>2. work'[w].step = "admitted"
    BY <1>1 DEF SessionsInv, WorkType
  <2> QED BY <1>2, <2>1, <2>2 DEF SessionsInv, DoomInv, Dead, OnlyOf, tokenVars
<1> QED BY <1>3, <1>4, <1>6, <1>7

\* The write to the users row dooms the token its target has.
LEMMA UpdateRowKeeps ==
    ASSUME SessionsInv, NEW w \in Workers, UpdateRow(w)
    PROVE  TokensInv' /\ WorkType' /\ DoomInv' /\ RootInv'
<1> DEFINE token == userToken[work[w].target]
<1>1. /\ UNCHANGED <<userToken, tokenUser, userTtl, tokenTtl, issued, login>>
      /\ UNCHANGED <<pc, req, requests, ended, outdated, lastAcked>>
      /\ work[w].step = "admitted" /\ work' = [work EXCEPT ![w].step = "clearing"]
      /\ doomed' = [doomed EXCEPT ![w] = token]
      /\ mayLogin' \in [Accounts -> BOOLEAN]
  BY DEF UpdateRow, vars, SessionsInv, TokensInv, TokensTypeOK
<1>2. work[w].target \in Accounts /\ token \in Tokens \cup {NoToken}
  <2>1. work[w].target \in UserIds
    BY DEF SessionsInv, WorkType
  <2> QED BY <2>1, SessionsAssumption DEF SessionsInv, TokensInv, TokensTypeOK
<1>3. TokensInv' /\ OldTokensOnlyGo
  BY <1>1, MayLoginKeeps DEF SessionsInv
<1>4. token # NoToken => OnlyOf(token, work[w].target)
  BY <1>2 DEF SessionsInv, TokensInv, TokenInv, OnlyOf
<1>5. /\ work'[w] = [work[w] EXCEPT !.step = "clearing"] /\ doomed'[w] = token
      /\ \A v \in Workers : v # w => work'[v] = work[v]
      /\ \A x \in Workers \cup Savers : x # w => doomed'[x] = doomed[x]
  BY <1>1 DEF SessionsInv, WorkType
<1> HIDE DEF token
<1>6. WorkType'
  BY <1>1, <1>2 DEF SessionsInv, WorkType
<1>7. work'[w].target = work[w].target /\ work'[w].actor = work[w].actor /\ work'[w].step = "clearing"
  BY <1>5 DEF SessionsInv, WorkType
<1>8. RootInv'
  BY <1>1, <1>5, <1>7 DEF SessionsInv, RootInv
<1>9. DoomInv'
  <2>1. \A v \in Savers : v # w
    BY SessionsAssumption
  <2>2. \A t \in ended' : Dead(t)'
    BY <1>1, <1>3, DoomStays DEF SessionsInv, DoomInv
  <2>3. ASSUME NEW v \in Workers, doomed'[v] # NoToken
        PROVE  /\ work'[v].step = "clearing" => OnlyOf(doomed[v], work[v].target)'
               /\ work'[v].step = "responding" => Dead(doomed[v])'
    <3>1. CASE v = w
      BY <1>1, <1>4, <1>5, <1>7, <2>3, <3>1 DEF OnlyOf
    <3>2. CASE v # w
      BY <1>1, <1>5, <2>3, <3>2 DEF Dead, OnlyOf, SessionsInv, DoomInv
    <3> QED BY <3>1, <3>2
  <2>4. ASSUME NEW p \in Savers, doomed'[p] # NoToken
        PROVE  /\ pc'[p] = "clearing" => OnlyOf(doomed[p], req[p].target)'
               /\ pc'[p] = "responding" => Dead(doomed[p])'
    BY <1>1, <1>5, <2>1, <2>4 DEF Dead, OnlyOf, SessionsInv, DoomInv
  <2> QED BY <2>2, <2>3, <2>4 DEF DoomInv
<1> QED BY <1>3, <1>6, <1>8, <1>9

\* The DEL of a request: the doomed token is gone from its user.
LEMMA ClearSessionKeeps ==
    ASSUME SessionsInv, NEW w \in Workers, ClearSession(w)
    PROVE  TokensInv' /\ WorkType' /\ DoomInv' /\ RootInv'
<1>1. /\ UNCHANGED <<pc, req, requests, doomed, ended, outdated, lastAcked>>
      /\ work[w].step = "clearing" /\ work' = [work EXCEPT ![w].step = "responding"]
      /\ DeleteUserKey(work[w].target)
  BY DEF ClearSession, vars
<1>2. work[w].target \in Accounts
  BY SessionsAssumption DEF SessionsInv, WorkType
<1>3. TokensInv' /\ OldTokensOnlyGo
  BY <1>1, <1>2, TokensStepKeeps DEF SessionsInv
<1>4. /\ issued' = issued
      /\ \A u \in Accounts : userToken'[u] = IF u = work[w].target THEN NoToken ELSE userToken[u]
  BY <1>1, <1>2 DEF DeleteUserKey, SessionsInv, TokensInv, TokensTypeOK
<1>5. /\ work'[w].step = "responding"
      /\ \A v \in Workers : v # w => work'[v] = work[v]
  BY <1>1 DEF SessionsInv, WorkType
<1>6. WorkType'
  BY <1>1 DEF SessionsInv, WorkType
<1>7. RootInv'
  BY <1>1, <1>5 DEF SessionsInv, RootInv
<1>8. DoomInv'
  <2>1. \A t \in ended' : Dead(t)'
    BY <1>1, <1>3, DoomStays DEF SessionsInv, DoomInv
  <2>2. ASSUME NEW v \in Workers, doomed'[v] # NoToken
        PROVE  /\ work'[v].step = "clearing" => OnlyOf(doomed[v], work[v].target)'
               /\ work'[v].step = "responding" => Dead(doomed[v])'
    <3>1. CASE v = w
      <4>1. OnlyOf(doomed[w], work[w].target) /\ doomed'[w] = doomed[w] /\ doomed[w] # NoToken
        BY <1>1, <2>2, <3>1 DEF SessionsInv, DoomInv
      <4> QED BY <1>4, <1>5, <3>1, <4>1 DEF OnlyOf, Dead
    <3>2. CASE v # w
      BY <1>1, <1>3, <1>5, <2>2, <3>2 DEF OldTokensOnlyGo, Dead, OnlyOf, SessionsInv, DoomInv
    <3> QED BY <3>1, <3>2
  <2>3. ASSUME NEW p \in Savers, doomed'[p] # NoToken
        PROVE  /\ pc'[p] = "clearing" => OnlyOf(doomed[p], req[p].target)'
               /\ pc'[p] = "responding" => Dead(doomed[p])'
    BY <1>1, <1>3, <2>3 DEF OldTokensOnlyGo, Dead, OnlyOf, SessionsInv, DoomInv
  <2> QED BY <2>1, <2>2, <2>3 DEF DoomInv
<1> QED BY <1>3, <1>6, <1>7, <1>8

\* An answer moves the doomed token to the ended ones; a failure forgets it.
LEMMA WorkEndsKeeps ==
    ASSUME SessionsInv, NEW w \in Workers, Answer(w) \/ WorkFails(w)
    PROVE  TokensInv' /\ WorkType' /\ DoomInv' /\ RootInv'
<1>1. /\ UNCHANGED <<tokenVars, pc, req, requests, outdated, lastAcked>>
      /\ work' = [work EXCEPT ![w] = NoWork]
      /\ doomed' = [doomed EXCEPT ![w] = NoToken]
      /\ \/ work[w].step = "responding" /\ ended' = ended \cup ({doomed[w]} \ {NoToken})
         \/ ended' = ended
  BY DEF Answer, WorkFails, vars
<1>2. TokensInv' /\ OldTokensOnlyGo
  BY <1>1, MayLoginKeeps DEF SessionsInv, TokensInv, TokensTypeOK, tokenVars
<1>3. /\ work'[w].step = "idle" /\ doomed'[w] = NoToken
      /\ \A v \in Workers : v # w => work'[v] = work[v]
      /\ \A x \in Workers \cup Savers : x # w => doomed'[x] = doomed[x]
  BY <1>1 DEF SessionsInv, WorkType, NoWork
<1>4. WorkType'
  BY <1>1, UsersAssumption DEF SessionsInv, WorkType, NoWork, Kinds
<1>5. RootInv'
  BY <1>1, <1>3 DEF SessionsInv, RootInv
<1>6. \A t \in ended' : Dead(t)
  BY <1>1 DEF SessionsInv, DoomInv
<1>7. \A t \in ended' : Dead(t)'
  BY <1>2, <1>6, DoomStays
<1>8. DoomInv'
  BY <1>1, <1>3, <1>7 DEF SessionsInv, DoomInv, Dead, OnlyOf, tokenVars
<1> QED BY <1>2, <1>4, <1>5, <1>8

\* Every step keeps the invariant.
LEMMA SessionsStepKeeps ==
    ASSUME SessionsInv, TypeOK', [SessionsNext]_allVars
    PROVE  SessionsInv'
<1>1. ASSUME NEW p \in Savers,
             \/ SaveBegin(p) \/ SaveInside(p) \/ SaveCommit(p)
             \/ SaveClear(p) \/ SaveRespond(p) \/ SaveFails(p)
      PROVE  SessionsInv'
  BY <1>1, SaveUndoneKeeps, SaveCommitKeeps, SaveClearKeeps, SaveRespondKeeps DEF SessionsInv
<1>2. ASSUME NEW w \in Workers,
             Admit(w) \/ UpdateRow(w) \/ ClearSession(w) \/ Answer(w) \/ WorkFails(w)
      PROVE  SessionsInv'
  BY <1>2, AdmitKeeps, UpdateRowKeeps, ClearSessionKeeps, WorkEndsKeeps DEF SessionsInv
<1>3. CASE TokensNext /\ UNCHANGED <<vars, sessionVars>>
  <2>1. TokensInv' /\ OldTokensOnlyGo
    BY <1>3, TokensStepKeeps DEF SessionsInv
  <2> QED BY <1>3, <2>1, SessionsUntouched DEF SessionsInv, vars
<1>4. ASSUME NEW u \in UserIds, RemoveAccount(u) PROVE SessionsInv'
  <2>1. mayLogin' \in [Accounts -> BOOLEAN]
    BY <1>4 DEF RemoveAccount, SessionsInv, TokensInv, TokensTypeOK
  <2>2. TokensInv' /\ OldTokensOnlyGo
    BY <1>4, <2>1, MayLoginKeeps DEF RemoveAccount, SessionsInv
  <2> QED BY <1>4, <2>2, SessionsUntouched DEF RemoveAccount, DeleteUser, SessionsInv
<1>5. CASE UNCHANGED allVars
  <2>1. TokensInv' /\ OldTokensOnlyGo
    BY <1>5, MayLoginKeeps DEF allVars, tokenVars, SessionsInv, TokensInv, TokensTypeOK
  <2> QED BY <1>5, <2>1, SessionsUntouched DEF allVars, vars, SessionsInv
<1> QED BY <1>1, <1>2, <1>3, <1>4, <1>5 DEF SessionsNext

\* The invariant holds for ever.
LEMMA SessionsInvariance == SessionsSpec => []SessionsInv
<1>1. SessionsInit => TokensInv /\ WorkType /\ DoomInv /\ RootInv
  BY TokensInitEstablishes, SessionsInitEstablishes DEF SessionsInit
<1>2. SessionsSpec => []TypeOK
  BY SessionsRunTheService, TypeCorrect
<1>3. SessionsInv /\ TypeOK' /\ [SessionsNext]_allVars => SessionsInv'
  BY SessionsStepKeeps
<1>4. TypeOK /\ TokensInv /\ WorkType /\ DoomInv /\ RootInv => SessionsInv
  BY DEF SessionsInv
<1> QED BY <1>1, <1>2, <1>3, <1>4, PTL DEF SessionsSpec

\* Every reachable state of users, saves, requests and tokens is well typed.
THEOREM SessionsTypeCorrect == SessionsSpec => []SessionsTypeOK
<1>1. SessionsInv => SessionsTypeOK
  BY DEF SessionsInv, TokensInv, WorkType, SessionsTypeOK
<1> QED BY <1>1, SessionsInvariance, PTL

\* No session outlives its 72 hours, for any number of logins that interleave
\* command by command with forced logouts, expiries and dying workers.
THEOREM SessionsExpire == SessionsSpec => []LiveSessionsExpire
<1>1. SessionsInv => LiveSessionsExpire
  <2> SUFFICES ASSUME SessionsInv, NEW t \in Tokens, Live(t) PROVE tokenUser[t] \in userTtl
    BY DEF LiveSessionsExpire
  <2>1. tokenUser[t] \in Accounts /\ userToken[tokenUser[t]] = t /\ t # NoToken
    BY TokensAssumption DEF Live, SessionsInv, TokensInv, TokensTypeOK
  <2> QED BY <2>1, TokensAssumption DEF SessionsInv, TokensInv, ExpiryInv
<1> QED BY <1>1, SessionsInvariance, PTL

\* A session a response has reported ended is never accepted again.
THEOREM EndedSessionsStayEnded == SessionsSpec => []AckedEndIsFinal
<1>1. SessionsInv => AckedEndIsFinal
  <2> SUFFICES ASSUME SessionsInv, NEW t \in ended, Live(t) PROVE FALSE
    BY DEF AckedEndIsFinal
  <2>1. tokenUser[t] \in Accounts
    BY DEF Live, SessionsInv, TokensInv, TokensTypeOK, WorkType
  <2> QED BY <2>1 DEF Live, SessionsInv, DoomInv, Dead
<1> QED BY <1>1, SessionsInvariance, PTL

\* Nobody but the root ends the root's session.
THEOREM RootEndsItsOwn == SessionsSpec => RootSessionIsItsOwn
<1> DEFINE Own ==
      userToken[Root] # NoToken /\ userToken'[Root] = NoToken =>
          \/ Root \in userTtl /\ UNCHANGED <<work, pc>>
          \/ \E p \in Savers : pc[p] = "clearing" /\ req[p].actor = Root
          \/ \E w \in Workers : work[w].step = "clearing" /\ work[w].actor = Root
<1>1. SessionsInv /\ [SessionsNext]_allVars => [Own]_allVars
  <2> SUFFICES ASSUME SessionsInv, SessionsNext, userToken[Root] # NoToken,
                      userToken'[Root] = NoToken
               PROVE  Own
    OBVIOUS
  <2>1. ASSUME NEW p \in Savers, SaveClear(p) PROVE Own
    <3>1. pc[p] = "clearing" /\ (req[p].target = Root => req[p].actor = Root)
      BY <2>1 DEF SaveClear, ClearToken, SessionsInv, RootInv
    <3>2. userToken' = [userToken EXCEPT ![req[p].target] = NoToken]
      BY <2>1 DEF SaveClear, DeleteUserKey
    <3>3. req[p].target = Root
      BY <3>2
    <3> QED BY <3>1, <3>3
  <2>2. ASSUME NEW w \in Workers, ClearSession(w) PROVE Own
    <3>1. work[w].step = "clearing" /\ (work[w].target = Root => work[w].actor = Root)
      BY <2>2 DEF ClearSession, SessionsInv, RootInv
    <3>2. userToken' = [userToken EXCEPT ![work[w].target] = NoToken]
      BY <2>2 DEF ClearSession, DeleteUserKey
    <3>3. work[w].target = Root
      BY <3>2
    <3> QED BY <3>1, <3>3
  <2>3. ASSUME TokensNext, UNCHANGED <<vars, sessionVars>> PROVE Own
    <3>1. PICK u \in Accounts : UserKeyExpires(u) \/ UNCHANGED userToken
                              \/ \E l \in Logins : SetUserKey(l)
      BY <2>3, UsersAssumption, SessionsAssumption
      DEF TokensNext, CheckCredentials, ExpireUserKey, SetTokenKey, ExpireTokenKey,
          LoginFails, TokenKeyExpires, LoginAt
    <3>2. ASSUME UserKeyExpires(u) PROVE Root \in userTtl
      <4>1. u \in userTtl /\ userToken' = [userToken EXCEPT ![u] = NoToken]
        BY <3>2 DEF UserKeyExpires
      <4> QED BY <4>1
    <3>3. ASSUME NEW l \in Logins, SetUserKey(l) PROVE FALSE
      <4>1. PICK t \in Tokens : userToken' = [userToken EXCEPT ![login[l].user] = t]
        BY <3>3 DEF SetUserKey
      <4>2. t # NoToken /\ Root \in Accounts
        BY TokensAssumption, UsersAssumption, SessionsAssumption
      <4> QED BY <4>1, <4>2 DEF SessionsInv, TokensInv, TokensTypeOK
    <3> QED BY <2>3, <3>1, <3>2, <3>3 DEF vars, sessionVars
  <2>4. ASSUME UNCHANGED userToken PROVE Own
    BY <2>4
  <2> HIDE DEF Own
  <2> QED BY <2>1, <2>2, <2>3, <2>4
      DEF SessionsNext, SaveBegin, SaveInside, SaveCommit, SaveRespond, SaveFails, Admit,
          UpdateRow, Answer, WorkFails, RemoveAccount, tokenVars
<1> QED BY <1>1, SessionsInvariance, PTL DEF SessionsSpec, RootSessionIsItsOwn
=============================================================================
