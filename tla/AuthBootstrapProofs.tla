------------------------- MODULE AuthBootstrapProofs -------------------------
(***************************************************************************)
(* Proofs about AuthBootstrap, for any number of accounts, tokens,         *)
(* requests and changes of permissions.                                    *)
(***************************************************************************)
EXTENDS AuthBootstrap, TLAPS

\* Requests under way: the generations of getInfo requests are those of the past
\* and the present, no two the same; only a request with a token is answered.
CallsInv ==
    /\ \A c \in infoCalls : c.generation <= generation
    /\ \A c, d \in infoCalls : c.generation = d.generation => c = d
    /\ \A c \in infoCalls : c.token = NoToken => c.sent = NoToken
    /\ \A c \in infoCalls : c.status = "answered" =>
          c.sent # NoToken /\ c.grants \in Answers

\* The backend accepts only what it has issued.
IssuedInv == \A k \in accepted : issued[k] \in Answers

\* A bootstrap of the present generation finds no routes.
FreshInv == \A c \in infoCalls : c.generation = generation => routes = Nothing

BInv ==
    /\ BootstrapTypeOK /\ IssuedInv /\ CallsInv /\ FreshInv
    /\ OneAnswerEverywhere /\ LoggedOutTabIsEmpty

TabInv == CallsInv /\ FreshInv /\ OneAnswerEverywhere /\ LoggedOutTabIsEmpty

tabVars == <<stateVars, generation, infoCalls>>

\* Nothing is not the answer of the backend.
LEMMA NothingIsNoAnswer == Nothing \notin Answers
<1>1. Answers \subseteq [account : Accounts, version : Nat]
  BY BootstrapAssumption DEF Answers
<1>2. QED
  BY <1>1, BootstrapAssumption

\* A step that leaves store, router and getInfo requests alone keeps TabInv.
LEMMA TabUntouched == ASSUME TabInv, UNCHANGED tabVars PROVE TabInv'
BY DEF TabInv, tabVars, stateVars, CallsInv, FreshInv, OneAnswerEverywhere,
       LoggedOutTabIsEmpty

\* The guard starts a bootstrap only where there are no routes.
LEMMA GuardKeeps ==
    ASSUME BInv, NEW stored \in Header, NEW jar \in Header,
           Guard(stored, jar, routes), UNCHANGED <<info, routes, matcher>>,
           token' = stored, stored # NoToken \/ stored = token
    PROVE  /\ TabInv'
           /\ generation' \in Nat /\ page' \in {"blank", "login", "app"}
           /\ infoCalls' \in SUBSET InfoCalls /\ calls' \in 0 .. MaxCalls
<1> USE DEF BInv, TabInv, OneAnswerEverywhere, LoggedOutTabIsEmpty
<1>1. CASE UNCHANGED <<generation, infoCalls, calls>>
  <2>1. page' \in {"blank", "login", "app"}
    BY DEF Guard, Show, BootstrapTypeOK
  <2>2. QED
    BY <1>1, <2>1 DEF CallsInv, FreshInv, BootstrapTypeOK
<1>2. CASE /\ jar # NoToken /\ routes = Nothing
           /\ calls < MaxCalls /\ calls' = calls + 1 /\ Advance
           /\ infoCalls' = infoCalls \cup
                {[generation |-> generation', token |-> stored,
                  sent |-> XToken(stored, jar), status |-> "pending",
                  grants |-> Nothing]}
           /\ UNCHANGED page
  <2> DEFINE new == [generation |-> generation', token |-> stored,
                     sent |-> XToken(stored, jar), status |-> "pending",
                     grants |-> Nothing]
  <2>1. generation' = generation + 1 /\ generation \in Nat
    BY <1>2 DEF Advance, BootstrapTypeOK
  <2>2. new \in InfoCalls
    BY <2>1 DEF InfoCalls, XToken, Header
  <2>3. infoCalls' = infoCalls \cup {new} /\ infoCalls \in SUBSET InfoCalls
    BY <1>2 DEF BootstrapTypeOK
  <2>4. \A c \in infoCalls : c.generation \in Nat /\ c.generation < generation'
    BY <2>1, <2>3 DEF CallsInv, InfoCalls
  <2>5. new.generation = generation' /\ new.token = stored
        /\ new.sent = XToken(stored, jar) /\ new.status = "pending"
    OBVIOUS
  <2> HIDE DEF new
  <2>6. CallsInv'
    BY <2>1, <2>3, <2>4, <2>5 DEF CallsInv, XToken
  <2>7. FreshInv' /\ OneAnswerEverywhere' /\ LoggedOutTabIsEmpty'
    BY <1>2
    DEF FreshInv
  <2>8. QED
    BY <1>2, <2>1, <2>2, <2>3, <2>6, <2>7, BootstrapAssumption
    DEF BootstrapTypeOK
<1>3. QED
  BY <1>1, <1>2 DEF Guard

-----------------------------------------------------------------------------
(***************************************************************************)
(* One step each                                                           *)
(***************************************************************************)

\* The answer of a current bootstrap fills a store without routes.
LEMMA InfoAnsweredKeeps ==
    ASSUME BInv, NEW c \in infoCalls, InfoAnswered(c)
    PROVE  BInv'
<1> USE DEF BInv
<1>1. c \in InfoCalls /\ c.grants \in Answers
  BY DEF InfoAnswered, CallsInv, BootstrapTypeOK
<1>2. infoCalls' \in SUBSET InfoCalls /\ infoCalls' \subseteq infoCalls
  BY DEF InfoAnswered, BootstrapTypeOK
<1>3. IssuedInv'
  BY DEF InfoAnswered, IssuedInv, backendVars
<1>4. CallsInv'
  BY <1>2 DEF InfoAnswered, CallsInv
<1>5. CASE Current(c)
  <2>1. info' = c.grants /\ routes' = c.grants /\ matcher' = matcher \cup {c.grants}
        /\ page' \in {"login", "app"}
    BY <1>5 DEF InfoAnswered, Show
  <2>2. routes = Nothing /\ matcher = {}
    BY <1>5 DEF Current, FreshInv, OneAnswerEverywhere
  <2>3. OneAnswerEverywhere'
    BY <1>1, <2>1, <2>2, NothingIsNoAnswer DEF OneAnswerEverywhere
  <2>4. FreshInv'
    BY <1>5 DEF Current, InfoAnswered, FreshInv, CallsInv
  <2>5. token # NoToken /\ token' = token
    BY <1>5 DEF Current, InfoAnswered, CallsInv
  <2>6. BootstrapTypeOK'
    BY <1>1, <1>2, <2>1, <2>2, <2>5
    DEF InfoAnswered, BootstrapTypeOK, backendVars
  <2>7. QED
    BY <1>3, <1>4, <2>3, <2>4, <2>5, <2>6 DEF LoggedOutTabIsEmpty
<1>6. CASE ~Current(c)
  <2>1. UNCHANGED <<info, routes, matcher, page, token, generation>>
    BY <1>6 DEF InfoAnswered
  <2>2. BootstrapTypeOK'
    BY <1>2, <2>1 DEF InfoAnswered, BootstrapTypeOK, backendVars
  <2>3. QED
    BY <1>2, <1>3, <1>4, <2>1, <2>2
    DEF FreshInv, OneAnswerEverywhere, LoggedOutTabIsEmpty
<1>7. QED
  BY <1>5, <1>6

\* A rejected bootstrap clears the tab if it is the current one.
LEMMA InfoRejectedKeeps ==
    ASSUME BInv, NEW c \in infoCalls, InfoRejected(c)
    PROVE  BInv'
<1> USE DEF BInv
<1>1. infoCalls' \in SUBSET InfoCalls /\ infoCalls' \subseteq infoCalls
  BY DEF InfoRejected, BootstrapTypeOK
<1>2. IssuedInv' /\ dialog' \in BOOLEAN
  BY DEF InfoRejected, Refused, IssuedInv, backendVars, BootstrapTypeOK
<1>3. CASE Current(c)
  <2>1. /\ generation' = generation + 1 /\ generation \in Nat
        /\ cookie' = NoToken /\ token' = NoToken /\ info' = Nothing
        /\ routes' = Nothing /\ matcher' = {} /\ page' = "login"
    BY <1>3 DEF InfoRejected, Advance, ClearTab, Show, BootstrapTypeOK
  <2>2. BootstrapTypeOK'
    BY <1>1, <1>2, <2>1 DEF InfoRejected, BootstrapTypeOK, backendVars, Header
  <2>3. \A d \in infoCalls : d.generation \in Nat
    BY DEF BootstrapTypeOK, InfoCalls
  <2>4. CallsInv'
    BY <1>1, <2>1, <2>3 DEF CallsInv
  <2>5. QED
    BY <1>2, <2>1, <2>2, <2>4 DEF FreshInv, OneAnswerEverywhere, LoggedOutTabIsEmpty
<1>4. CASE ~Current(c)
  <2>1. UNCHANGED <<generation, cookie, stateVars, page>>
    BY <1>4 DEF InfoRejected
  <2>2. BootstrapTypeOK'
    BY <1>1, <1>2, <2>1 DEF InfoRejected, BootstrapTypeOK, backendVars, stateVars
  <2>3. QED
    BY <1>1, <1>2, <2>1, <2>2
    DEF stateVars, CallsInv, FreshInv, OneAnswerEverywhere, LoggedOutTabIsEmpty
<1>5. QED
  BY <1>3, <1>4

\* Dropping a request under way disturbs nothing.
LEMMA InfoDeniedKeeps ==
    ASSUME BInv, NEW c \in infoCalls, InfoDenied(c)
    PROVE  BInv'
<1>1. infoCalls' \subseteq infoCalls
  BY DEF InfoDenied
<1>2. QED
  BY <1>1
  DEF InfoDenied, BInv, BootstrapTypeOK, IssuedInv, CallsInv, FreshInv, backendVars,
      stateVars, OneAnswerEverywhere, LoggedOutTabIsEmpty

\* The backend answers a request that came with an accepted token.
LEMMA ServeInfoKeeps ==
    ASSUME BInv, NEW c \in infoCalls, ServeInfo(c)
    PROVE  BInv'
<1> USE DEF BInv
<1> DEFINE grants == [account |-> Account(c.sent),
                      version |-> version[Account(c.sent)]]
           new == IF c.sent \in accepted
                  THEN [c EXCEPT !.status = "answered", !.grants = grants]
                  ELSE [c EXCEPT !.status = "expired"]
<1>1. c \in InfoCalls
  BY DEF BootstrapTypeOK
<1>2. c.sent \in accepted => grants \in Answers
  <2>1. c.sent \in accepted => issued[c.sent] \in Answers
    BY DEF IssuedInv
  <2>2. c.sent \in accepted => Account(c.sent) \in Accounts
    BY <2>1 DEF Account, Answers
  <2>3. QED
    BY <2>2 DEF Answers, BootstrapTypeOK
<1>3. c.sent \in accepted => c.sent # NoToken
  BY BootstrapAssumption DEF BootstrapTypeOK
<1>4. infoCalls' = (infoCalls \ {c}) \cup {new}
  BY DEF ServeInfo
<1> HIDE DEF grants
<1>5. /\ new \in InfoCalls
      /\ new.generation = c.generation /\ new.token = c.token /\ new.sent = c.sent
      /\ new.status = "answered" => new.sent # NoToken /\ new.grants \in Answers
  <2>1. CASE c.sent \in accepted
    BY <1>1, <1>2, <1>3, <2>1 DEF InfoCalls
  <2>2. CASE c.sent \notin accepted
    BY <1>1, <2>2 DEF InfoCalls
  <2>3. QED
    BY <2>1, <2>2
<1> HIDE DEF new
<1>6. BootstrapTypeOK'
  BY <1>4, <1>5 DEF ServeInfo, BootstrapTypeOK, backendVars, stateVars
<1>7. IssuedInv' /\ OneAnswerEverywhere' /\ LoggedOutTabIsEmpty'
  BY DEF ServeInfo, IssuedInv, backendVars, stateVars, OneAnswerEverywhere,
         LoggedOutTabIsEmpty
<1>8. CallsInv' /\ FreshInv'
  BY <1>4, <1>5 DEF ServeInfo, stateVars, CallsInv, FreshInv
<1>9. QED
  BY <1>6, <1>7, <1>8

\* The backend accepts credentials: the new token is the first of its kind.
LEMMA LoginAcceptedKeeps ==
    ASSUME BInv, NEW a \in Accounts, NEW k \in Tokens, LoginAccepted(a, k)
    PROVE  /\ issued' \in [Tokens -> Answers \cup {Nothing}]
           /\ accepted' \in SUBSET Tokens /\ version' = version
           /\ IssuedInv'
<1> USE DEF BInv
<1>1. [account |-> a, version |-> version[a]] \in Answers
  BY DEF BootstrapTypeOK, Answers
<1> DEFINE entry == [account |-> a, version |-> version[a]]
<1>2. issued' = [issued EXCEPT ![k] = entry]
      /\ accepted' \in SUBSET (accepted \cup {k})
  BY DEF LoginAccepted
<1> HIDE DEF entry
<1>3. entry \in Answers
  BY <1>1 DEF entry
<1>4. QED
  BY <1>2, <1>3 DEF LoginAccepted, IssuedInv, BootstrapTypeOK

\* A page that is loaded again starts empty.
LEMMA RestartKeeps ==
    ASSUME BInv, NEW jar \in Header, Restart(jar), cookie' = jar
    PROVE  BInv'
BY DEF Restart, Show, BInv, BootstrapTypeOK, IssuedInv, CallsInv, FreshInv,
       OneAnswerEverywhere, LoggedOutTabIsEmpty, backendVars

\* The answer of a logout clears the tab.
LEMMA LogoutDoneKeeps ==
    ASSUME BInv, NEW c \in logoutCalls, LogoutDone(c)
    PROVE  BInv'
<1>1. logoutCalls' \subseteq logoutCalls
  BY DEF LogoutDone
<1>2. BootstrapTypeOK' /\ IssuedInv'
  BY <1>1 DEF LogoutDone, ClearTab, Show, BInv, BootstrapTypeOK, IssuedInv,
              backendVars, Header
<1>3. QED
  BY <1>2 DEF LogoutDone, ClearTab, BInv, CallsInv, FreshInv, OneAnswerEverywhere,
              LoggedOutTabIsEmpty

\* A logout makes every bootstrap under way an old one.
LEMMA LogoutKeeps == ASSUME BInv, Logout PROVE BInv'
<1> USE DEF BInv
<1> DEFINE new == [generation |-> generation', sent |-> XToken(token, cookie),
                   status |-> "pending"]
<1>1. generation' = generation + 1 /\ generation \in Nat
  BY DEF Logout, Advance, BootstrapTypeOK
<1>2. new \in LogoutCalls
  BY <1>1 DEF LogoutCalls, XToken, BootstrapTypeOK
<1>3. logoutCalls' = logoutCalls \cup {new}
  BY DEF Logout
<1> HIDE DEF new
<1>4. calls' \in 0 .. MaxCalls
  BY BootstrapAssumption DEF Logout, BootstrapTypeOK
<1>5. BootstrapTypeOK' /\ IssuedInv'
  BY <1>1, <1>2, <1>3, <1>4
  DEF Logout, BootstrapTypeOK, IssuedInv, backendVars, stateVars
<1>6. \A d \in infoCalls : d.generation \in Nat
  BY DEF BootstrapTypeOK, InfoCalls
<1>7. CallsInv' /\ FreshInv'
  BY <1>1, <1>6 DEF Logout, stateVars, CallsInv, FreshInv
<1>8. QED
  BY <1>5, <1>7
  DEF Logout, stateVars, OneAnswerEverywhere, LoggedOutTabIsEmpty

-----------------------------------------------------------------------------
(***************************************************************************)
(* The invariant                                                           *)
(***************************************************************************)

LEMMA BInvInductive ==
    /\ BootstrapInit => BInv
    /\ BInv /\ [BootstrapNext]_vars => BInv'
<1>1. ASSUME BootstrapInit PROVE BInv
  <2>1. 0 \in 0 .. MaxChanges /\ 0 \in 0 .. MaxCalls
    BY BootstrapAssumption
  <2>2. BootstrapTypeOK
    BY <1>1, <2>1 DEF BootstrapInit, BootstrapTypeOK, Header
  <2>3. matcher = {info} \ {Nothing}
    BY <1>1, Zenon DEF BootstrapInit
  <2>4. QED
    BY <1>1, <2>2, <2>3
    DEF BootstrapInit, BInv, IssuedInv, CallsInv, FreshInv,
        OneAnswerEverywhere, LoggedOutTabIsEmpty
<1>2. BInv /\ [BootstrapNext]_vars => BInv'
  <2> SUFFICES ASSUME BInv, [BootstrapNext]_vars PROVE BInv'
    OBVIOUS
  <2>0. TabInv
    BY DEF BInv, TabInv
  <2> DEFINE quiet == UNCHANGED tabVars
  <2>1. CASE Navigate
    <3>1. TabInv' /\ generation' \in Nat /\ page' \in {"blank", "login", "app"}
          /\ infoCalls' \in SUBSET InfoCalls /\ calls' \in 0 .. MaxCalls
      <4>1. token \in Header /\ cookie \in Header
        BY DEF BInv, BootstrapTypeOK
      <4>2. Guard(token, cookie, routes) /\ UNCHANGED <<info, routes, matcher>>
            /\ token' = token
        BY <2>1 DEF Navigate, stateVars
      <4>3. QED
        BY <4>1, <4>2, GuardKeeps
    <3>2. QED
      BY <2>1, <3>1
      DEF Navigate, TabInv, BInv, BootstrapTypeOK, IssuedInv, backendVars, stateVars
  <2>2. ASSUME NEW k \in loginCalls, LoginArrives(k) PROVE BInv'
    <3>1. k \in Tokens /\ k \in Header /\ k # NoToken
      BY BootstrapAssumption DEF BInv, BootstrapTypeOK, Header
    <3>2. TabInv' /\ generation' \in Nat /\ page' \in {"blank", "login", "app"}
          /\ infoCalls' \in SUBSET InfoCalls /\ calls' \in 0 .. MaxCalls
      <4>1. Guard(k, k, routes) /\ UNCHANGED <<info, routes, matcher>> /\ token' = k
        BY <2>2 DEF LoginArrives
      <4>2. QED
        BY <3>1, <4>1, GuardKeeps
    <3>3. QED
      BY <2>2, <3>1, <3>2
      DEF LoginArrives, TabInv, BInv, BootstrapTypeOK, IssuedInv, backendVars
  <2>3. ASSUME NEW c \in infoCalls, InfoArrives(c) PROVE BInv'
    BY <2>3, InfoAnsweredKeeps, InfoRejectedKeeps, InfoDeniedKeeps DEF InfoArrives
  <2>4. ASSUME NEW c \in infoCalls, ServeInfo(c) PROVE BInv'
    BY <2>4, ServeInfoKeeps
  <2>5. ASSUME NEW a \in Accounts, NEW k \in Tokens,
               Login(a, k) \/ OtherTabLogin(a, k)
        PROVE  BInv'
    <3>1. LoginAccepted(a, k) /\ quiet
      BY <2>5 DEF Login, OtherTabLogin, tabVars, callVars
    <3>2. TabInv'
      BY <2>0, <3>1, TabUntouched
    <3>3. /\ cookie' \in Header /\ loginCalls' \in SUBSET Tokens
          /\ UNCHANGED <<page, dialog, logoutCalls, calls>>
      BY <2>5 DEF Login, OtherTabLogin, callVars, BInv, BootstrapTypeOK, Header
    <3>4. QED
      BY <3>1, <3>2, <3>3, LoginAcceptedKeeps
      DEF TabInv, BInv, BootstrapTypeOK, tabVars, stateVars
  <2>6. CASE Logout
    BY <2>6, LogoutKeeps
  <2>7. ASSUME NEW c \in logoutCalls, LogoutDone(c) PROVE BInv'
    BY <2>7, LogoutDoneKeeps
  <2>8. CASE Reload \/ ConfirmDialog
    <3>1. PICK jar \in Header : Restart(jar) /\ cookie' = jar
      BY <2>8 DEF Reload, ConfirmDialog, BInv, BootstrapTypeOK, Header
    <3>2. QED
      BY <3>1, RestartKeeps
  <2>9. ASSUME \/ NoticeExpiry \/ CancelDialog \/ OtherTabRemovesCookie
               \/ \E k \in loginCalls : LoginLost(k)
               \/ \E c \in logoutCalls : LogoutRejected(c) \/ ServeLogout(c)
               \/ \E a \in Accounts : PermissionsChange(a)
               \/ UNCHANGED vars
        PROVE  BInv'
    <3>1. quiet
      BY <2>9
      DEF NoticeExpiry, CancelDialog, OtherTabRemovesCookie, LoginLost,
          LogoutRejected, ServeLogout, PermissionsChange, vars, tabVars, callVars
    <3>2. TabInv'
      BY <2>0, <3>1, TabUntouched
    <3>3. accepted' \subseteq accepted /\ UNCHANGED <<issued, page, calls>>
      BY <2>9
      DEF NoticeExpiry, CancelDialog, OtherTabRemovesCookie, LoginLost,
          LogoutRejected, ServeLogout, PermissionsChange, vars, callVars, backendVars
    <3>4. /\ cookie' \in Header /\ dialog' \in BOOLEAN
          /\ loginCalls' \in SUBSET Tokens
      BY <2>9
      DEF NoticeExpiry, CancelDialog, OtherTabRemovesCookie, LoginLost, Refused,
          LogoutRejected, ServeLogout, PermissionsChange, vars, callVars,
          BInv, BootstrapTypeOK, Header
    <3>5. version' \in [Accounts -> 0 .. MaxChanges]
      <4>1. ASSUME NEW a \in Accounts, PermissionsChange(a)
            PROVE  version' \in [Accounts -> 0 .. MaxChanges]
        BY <4>1, BootstrapAssumption DEF PermissionsChange, BInv, BootstrapTypeOK
      <4>2. QED
        BY <2>9, <4>1
        DEF NoticeExpiry, CancelDialog, OtherTabRemovesCookie, LoginLost,
            LogoutRejected, ServeLogout, vars, backendVars, BInv, BootstrapTypeOK
    <3>6. logoutCalls' \in SUBSET LogoutCalls
      <4>1. ASSUME NEW c \in logoutCalls, ServeLogout(c)
            PROVE  logoutCalls' \in SUBSET LogoutCalls
        BY <4>1 DEF ServeLogout, LogoutCalls, BInv, BootstrapTypeOK
      <4>2. QED
        BY <2>9, <4>1
        DEF NoticeExpiry, CancelDialog, OtherTabRemovesCookie, LoginLost,
            LogoutRejected, PermissionsChange, vars, callVars, BInv, BootstrapTypeOK
    <3>7. QED
      BY <3>1, <3>2, <3>3, <3>4, <3>5, <3>6
      DEF TabInv, BInv, BootstrapTypeOK, IssuedInv, tabVars, stateVars
  <2>10. QED
    BY <2>1, <2>2, <2>3, <2>4, <2>5, <2>6, <2>7, <2>8, <2>9 DEF BootstrapNext
<1>3. QED
  BY <1>1, <1>2

\* Every reachable state of the tab and its requests is well typed.
THEOREM BootstrapTypeCorrect == BootstrapSpec => []BootstrapTypeOK
<1>1. BInv => BootstrapTypeOK
  BY DEF BInv
<1>2. QED
  BY <1>1, BInvInductive, PTL DEF BootstrapSpec

\* Store, menu and router hold one answer, however requests overlap.
THEOREM NeverTwoSessions == BootstrapSpec => []OneAnswerEverywhere
<1>1. BInv => OneAnswerEverywhere
  BY DEF BInv
<1>2. QED
  BY <1>1, BInvInductive, PTL DEF BootstrapSpec

\* No late answer brings an ended session back.
THEOREM EndedSessionStaysEmpty == BootstrapSpec => []LoggedOutTabIsEmpty
<1>1. BInv => LoggedOutTabIsEmpty
  BY DEF BInv
<1>2. QED
  BY <1>1, BInvInductive, PTL DEF BootstrapSpec
=============================================================================
