--------------------------- MODULE UserSessionProofs ---------------------------
(***************************************************************************)
(* What the requests of a browser session may count on, for every number   *)
(* of requests under way and every bound.  The hard one is Usable: under   *)
(* rotation the only refresh token that the token server still accepts may *)
(* be in the copy of one request, so the invariant says who holds it.      *)
(***************************************************************************)
EXTENDS UserSession, TLAPS

Has(r) == request[r].copy # NoSession

(* What a request's progress says of its copy.                             *)
CopiesInv ==
    \A r \in Requests :
        /\ request[r].at = "done" => request[r] = Free
        /\ ~Has(r) => request[r].at \in {"done", "end"}
        /\ request[r].at \in {"poll", "exchange", "entered"} => request[r].copy.user
        /\ request[r].at = "handled" => request[r].copy.secret # 0

(* Once the session is destroyed every copy of it is outdated.             *)
GoneInv == session = NoSession => \A r \in Requests : Has(r) => r \in stale

(* A copy that is not outdated has the user and the secret of the session. *)
OpenInv ==
    \A r \in Requests \ stale : ~crossed /\ session # NoSession /\ Has(r) =>
        /\ session.user => request[r].copy.user
        /\ session.secret # 0 => request[r].copy.secret = session.secret

(* No token is newer than the last grant; without rotation there is one.   *)
TokensInv ==
    /\ \A t \in valid : t <= granted
    /\ session # NoSession => session.refresh <= granted
    /\ \A r \in Requests : Has(r) => request[r].copy.refresh <= granted
    /\ ~rotates =>
         /\ valid = {0}
         /\ session # NoSession => session.refresh = 0
         /\ \A r \in Requests : Has(r) => request[r].copy.refresh = 0

(* r alone holds a refresh token that is accepted, and will write it.      *)
Own(r) ==
    LET t == request[r].copy.refresh IN
    /\ Has(r)
    /\ request[r].at \in Unwritten
    /\ request[r].copy.user
    /\ t \in valid
    /\ t # session.refresh
    /\ \A q \in Requests \ {r} : Has(q) => request[q].copy.refresh # t

Same(r) ==
    /\ request[r].copy.user = session.user
    /\ request[r].copy.refresh = session.refresh

(* If the stored refresh token was spent, some request owns its successor; *)
(* a copy that is not outdated is as the session, or owns such a token.    *)
RenewInv ==
    rotates /\ ~crossed /\ session # NoSession =>
        /\ session.user /\ session.refresh \notin valid => \E r \in Requests : Own(r)
        /\ \A r \in Requests \ stale : Has(r) => Same(r) \/ Own(r)

(* The page that is shown was made with the session's secret.              *)
PageInv == ~crossed /\ session # NoSession /\ page # 0 => session.secret = page

(* What logins, logouts and failed exchanges leave of the session.         *)
LoginInv ==
    /\ left /\ ~crossed => session = NoSession
    /\ ~rotates /\ ~failed /\ ~left => session # NoSession
    /\ ~rotates /\ ~failed /\ ~left /\ entered /\ ~crossed => session.user

Inv ==
    /\ TypeOK
    /\ CopiesInv
    /\ GoneInv
    /\ OpenInv
    /\ TokensInv
    /\ RenewInv
    /\ PageInv
    /\ LoginInv

-----------------------------------------------------------------------------

(* A request that is not over has a copy of a session. *)
LEMMA CopyType ==
    ASSUME TypeOK, CopiesInv, NEW r \in Requests, request[r].at \notin {"done", "end"}
    PROVE  /\ request[r] \in Request
           /\ request[r].copy \in Session
BY DEF TypeOK, CopiesInv, Has, Request

(* A copy made from a copy is one of a session, as an exchange makes it,   *)
LEMMA RenewedType ==
    ASSUME TypeOK, NEW copy \in Session
    PROVE  /\ Renewed(copy) \in Session
           /\ Renewed(copy) # NoSession
           /\ Renewed(copy).user = copy.user
           /\ Renewed(copy).secret = copy.secret
           /\ Renewed(copy).refresh = IF rotates THEN granted + 1 ELSE copy.refresh
<1>1. PICK t \in Nat : t = IF rotates THEN granted + 1 ELSE copy.refresh
  BY DEF TypeOK, Session, Grants
<1>2. Renewed(copy) = [copy EXCEPT !.token = granted + 1, !.refresh = t]
  BY <1>1 DEF Renewed, NextRefresh
<1>3. granted + 1 \in Nat
  BY DEF TypeOK, Grants
<1>4. Renewed(copy) \in Session
  BY <1>2, <1>3 DEF Session, Grants
<1>5. QED
  BY <1>1, <1>2, <1>4, NoSessionAssumption DEF Session

(* ... as ensureSecurityHeaders() makes one.                                *)
LEMMA SecuredType ==
    ASSUME TypeOK, NEW copy \in Session
    PROVE  /\ Secured(copy) \in Session
           /\ Secured(copy) # NoSession
           /\ Secured(copy).user = copy.user
           /\ Secured(copy).refresh = copy.refresh
           /\ Secured(copy).secret = IF copy.secret # 0 THEN copy.secret ELSE secrets + 1
<1>1. CASE copy.secret # 0
  BY <1>1, NoSessionAssumption DEF Secured
<1>2. CASE copy.secret = 0
  <2>1. secrets + 1 \in Nat
    BY DEF TypeOK, Secrets
  <2>2. Secured(copy) = [copy EXCEPT !.secret = secrets + 1]
    BY <1>2 DEF Secured
  <2>3. Secured(copy) \in Session
    BY <2>1, <2>2 DEF Session, Secrets
  <2>4. QED
    BY <1>2, <2>2, <2>3, NoSessionAssumption DEF Session
<1>3. QED
  BY <1>1, <1>2

(* ... as a login makes one.                                               *)
LEMMA WithUserType ==
    ASSUME TypeOK, NEW copy \in Session
    PROVE  /\ WithUser(copy) \in Session
           /\ WithUser(copy) # NoSession
           /\ WithUser(copy).user
           /\ WithUser(copy).secret = copy.secret
           /\ WithUser(copy).refresh = NextRefresh
<1>1. granted + 1 \in Nat /\ NextRefresh \in Nat
  BY DEF TypeOK, Grants, NextRefresh
<1>2. WithUser(copy) \in Session
  BY <1>1 DEF WithUser, Session, Grants
<1>3. QED
  BY <1>1, <1>2, NoSessionAssumption DEF WithUser, Session

(* A request record changed in its state and copy.                         *)
LEMMA RequestMade ==
    ASSUME NEW q \in Request, NEW copy \in Session \cup {NoSession},
           NEW at \in {"done", "loaded", "poll", "exchange", "checked", "handled", "callback",
                       "entered", "end"}
    PROVE  /\ [q EXCEPT !.at = at] \in Request
           /\ [q EXCEPT !.at = at, !.copy = copy] \in Request
BY DEF Request

(* What an exchange leaves at the token server is of its type.              *)
LEMMA ExchangedType ==
    ASSUME TypeOK, NEW r \in Requests, Exchanged(r)
    PROVE  granted' \in Grants /\ valid' \subseteq Grants
<1>1. granted + 1 \in Nat /\ NextRefresh \in Nat /\ valid \subseteq Nat
  BY DEF TypeOK, Grants, NextRefresh
<1>2. QED
  BY <1>1 DEF Exchanged, Grants

(* A step of one request leaves the records of the others alone.           *)
Moved(r, at, copy) ==
    /\ request'[r].at = at
    /\ request'[r].copy = copy
    /\ \A q \in Requests \ {r} : request'[q] = request[q]

(* ... those of ensureAuthenticated() and checkValidAndRefreshToken(),      *)
LEMMA CheckMoves ==
    ASSUME TypeOK, NEW r \in Requests, Check(r)
    PROVE  \E at \in {"end", "checked", "poll", "exchange"} :
              /\ Moved(r, at, request[r].copy)
              /\ at \in {"poll", "exchange"} => request[r].copy.user
BY DEF TypeOK, Check, Go, Moved, Request

(* ... of a granted exchange,                                              *)
LEMMA GrantMoves ==
    ASSUME TypeOK, NEW r \in Requests, Grant(r)
    PROVE  Moved(r, "checked", Renewed(request[r].copy))
BY DEF TypeOK, Grant, Moved, Request

(* ... of ensureSecurityHeaders(),                                         *)
LEMMA HeadersMoves ==
    ASSUME TypeOK, NEW r \in Requests, NEW post \in BOOLEAN, NEW plain \in BOOLEAN,
           Headers(r, post, plain)
    PROVE  \E at \in {"handled", "end"} : Moved(r, at, Secured(request[r].copy))
BY DEF TypeOK, Headers, Moved, Request

(* ... and of a login.                                                     *)
LEMMA LoggedInMoves ==
    ASSUME TypeOK, NEW r \in Requests, LoggedIn(r)
    PROVE  Moved(r, "entered", WithUser(request[r].copy))
BY DEF TypeOK, LoggedIn, Moved, Request

(* A check changes no copy and nothing else that a copy is compared with.  *)
LEMMA CheckKeeps ==
    ASSUME TypeOK, NEW r \in Requests, Check(r)
    PROVE  /\ UNCHANGED <<server, session, page, secrets, arrived, history>>
           /\ \A q \in Requests : request'[q].copy = request[q].copy
BY CheckMoves DEF Check, Moved

-----------------------------------------------------------------------------

(* One lemma per part of the invariant.  Every step keeps the types.       *)
LEMMA TypeStep ==
    ASSUME TypeOK, CopiesInv, [Next]_vars
    PROVE  TypeOK'
<1> USE MaxAssumption DEF TypeOK, server, history
<1>1. ASSUME NEW r \in Requests, NEW public \in BOOLEAN, Arrive(r, public)
      PROVE  TypeOK'
  BY <1>1 DEF Arrive, Free, Request
<1>2. ASSUME NEW r \in Requests, Check(r)
      PROVE  TypeOK'
  <2>1. request[r] \in Request
    BY DEF Request
  <2>2. PICK at \in {"end", "checked", "poll", "exchange"} :
           /\ request' = [request EXCEPT ![r].at = at]
           /\ lock' \in BOOLEAN
    BY <1>2 DEF Check, Go
  <2>3. request' \in [Requests -> Request]
    BY <2>1, <2>2, RequestMade
  <2>4. QED
    BY <1>2, <2>2, <2>3 DEF Check
<1>3. ASSUME NEW r \in Requests, Grant(r)
      PROVE  TypeOK'
  <2>1. Renewed(request[r].copy) \in Session /\ request[r] \in Request
    BY <1>3, CopyType, RenewedType DEF Grant
  <2>3. request' \in [Requests -> Request]
    BY <1>3, <2>1, RequestMade DEF Grant
  <2>4. granted' \in Grants /\ valid' \subseteq Grants
    BY <1>3, ExchangedType DEF Grant
  <2>5. QED
    BY <1>3, <2>3, <2>4 DEF Grant
<1>4. ASSUME NEW r \in Requests, NEW answerLost \in BOOLEAN, Refuse(r, answerLost)
      PROVE  TypeOK'
  <2>1. request[r] \in Request
    OBVIOUS
  <2>2. request' \in [Requests -> Request]
    BY <1>4, <2>1, RequestMade DEF Refuse, DestroySession
  <2>3. failed' \in BOOLEAN
    BY <1>4, Zenon DEF Refuse, Acceptable
  <2>4. granted' \in Grants /\ valid' \subseteq Grants
    BY <1>4, ExchangedType DEF Refuse
  <2>5. QED
    BY <1>4, <2>2, <2>3, <2>4 DEF Refuse, DestroySession, Outdate, UnderWay
<1>5. ASSUME NEW r \in Requests, NEW post \in BOOLEAN, NEW plain \in BOOLEAN, Headers(r, post, plain)
      PROVE  TypeOK'
  <2>1. Secured(request[r].copy) \in Session /\ request[r] \in Request
    BY <1>5, CopyType, SecuredType DEF Headers
  <2>2. PICK at \in {"handled", "end"} :
           request' = [request EXCEPT ![r].at = at, ![r].copy = Secured(request[r].copy)]
    BY <1>5 DEF Headers
  <2>3. request' \in [Requests -> Request]
    BY <2>1, <2>2, RequestMade
  <2>4. QED
    BY <1>5, <2>3 DEF Headers, Secrets
<1>6. ASSUME NEW r \in Requests, Callback(r)
      PROVE  TypeOK'
  BY <1>6 DEF Callback, Go, Request
<1>7. ASSUME NEW r \in Requests, LoggedIn(r)
      PROVE  TypeOK'
  <2>1. WithUser(request[r].copy) \in Session /\ request[r] \in Request
    BY <1>7, CopyType, WithUserType DEF LoggedIn
  <2>2. request' \in [Requests -> Request]
    BY <1>7, <2>1, RequestMade DEF LoggedIn
  <2>3. QED
    BY <1>7, <2>2 DEF LoggedIn, NextRefresh, Grants
<1>8. ASSUME NEW r \in Requests, NotLoggedIn(r)
      PROVE  TypeOK'
  BY <1>8 DEF NotLoggedIn, Go, Request
<1>9. ASSUME NEW r \in Requests, Logout(r)
      PROVE  TypeOK'
  BY <1>9 DEF Logout, DestroySession, Outdate, UnderWay, Request
<1>10. ASSUME NEW r \in Requests, Respond(r)
      PROVE  TypeOK'
  <2>1. request' \in [Requests -> Request]
    BY <1>10 DEF Respond, Free, Request, Secrets
  <2>2. session' \in Session \cup {NoSession} /\ page' \in Secrets
    BY <1>10, CopyType DEF Respond, Request, Session
  <2>3. stale' \in SUBSET Requests /\ crossed' \in BOOLEAN /\ entered' \in BOOLEAN
    BY <1>10 DEF Respond, Outdate, UnderWay
  <2>4. QED
    BY <1>10, <2>1, <2>2, <2>3 DEF Respond
<1>11. CASE Expire
  BY <1>11 DEF Expire, Grants
<1>12. CASE Crash
  BY <1>12 DEF Crash, Free, Request, Secrets
<1>13. CASE UNCHANGED vars
  BY <1>13 DEF vars
<1>14. QED
  BY <1>1, <1>2, <1>3, <1>4, <1>5, <1>6, <1>7, <1>8, <1>9, <1>10, <1>11, <1>12, <1>13 DEF Next

(* A copy is lost only by who ends; a secret is made before a page.        *)
LEMMA CopiesStep ==
    ASSUME TypeOK, CopiesInv, [Next]_vars
    PROVE  CopiesInv'
<1> USE DEF CopiesInv, Has
<1>1. ASSUME NEW r \in Requests, NEW public \in BOOLEAN, Arrive(r, public)
      PROVE  CopiesInv'
  BY <1>1 DEF Arrive, TypeOK, Request
<1>2. ASSUME NEW r \in Requests, Check(r)
      PROVE  CopiesInv'
  BY <1>2, CheckMoves DEF Check, Moved
<1>3. ASSUME NEW r \in Requests, Grant(r)
      PROVE  CopiesInv'
  <2>1. request[r].copy \in Session
    BY <1>3, CopyType DEF Grant
  <2>2. Renewed(request[r].copy) # NoSession
    BY <2>1, RenewedType
  <2>3. QED
    BY <1>3, <2>2, GrantMoves DEF Moved
<1>4. ASSUME NEW r \in Requests, NEW answerLost \in BOOLEAN, Refuse(r, answerLost)
      PROVE  CopiesInv'
  BY <1>4 DEF Refuse, DestroySession, TypeOK, Request
<1>5. ASSUME NEW r \in Requests, NEW post \in BOOLEAN, NEW plain \in BOOLEAN, Headers(r, post, plain)
      PROVE  CopiesInv'
  <2>1. secrets + 1 # 0
    BY DEF TypeOK, Secrets
  <2>2. request[r].copy \in Session
    BY <1>5, CopyType DEF Headers
  <2>3. Secured(request[r].copy) # NoSession /\ Secured(request[r].copy).secret # 0
    BY <2>1, <2>2, SecuredType
  <2>4. QED
    BY <1>5, <2>3, HeadersMoves DEF Moved
<1>6. ASSUME NEW r \in Requests, Callback(r)
      PROVE  CopiesInv'
  BY <1>6 DEF Callback, Go, TypeOK, Request
<1>7. ASSUME NEW r \in Requests, LoggedIn(r)
      PROVE  CopiesInv'
  <2>1. request[r].copy \in Session
    BY <1>7, CopyType DEF LoggedIn
  <2>2. WithUser(request[r].copy) # NoSession /\ WithUser(request[r].copy).user
    BY <2>1, WithUserType
  <2>3. QED
    BY <1>7, <2>2, LoggedInMoves DEF Moved
<1>8. ASSUME NEW r \in Requests, NotLoggedIn(r)
      PROVE  CopiesInv'
  BY <1>8 DEF NotLoggedIn, Go, TypeOK, Request
<1>9. ASSUME NEW r \in Requests, Logout(r)
      PROVE  CopiesInv'
  BY <1>9 DEF Logout, DestroySession, TypeOK, Request
<1>10. ASSUME NEW r \in Requests, Respond(r)
      PROVE  CopiesInv'
  BY <1>10 DEF Respond, Free, TypeOK, Request
<1>11. CASE Expire
  BY <1>11 DEF Expire
<1>12. CASE Crash
  BY <1>12 DEF Crash, Free
<1>13. CASE UNCHANGED vars
  BY <1>13 DEF vars
<1>14. QED
  BY <1>1, <1>2, <1>3, <1>4, <1>5, <1>6, <1>7, <1>8, <1>9, <1>10, <1>11, <1>12, <1>13 DEF Next

(* Whoever destroys the session outdates all the other copies.             *)
LEMMA GoneStep ==
    ASSUME TypeOK, CopiesInv, GoneInv, [Next]_vars
    PROVE  GoneInv'
<1> USE DEF TypeOK, Request, CopiesInv, GoneInv, Has, Free
<1>1. ASSUME NEW r \in Requests, NEW public \in BOOLEAN, Arrive(r, public)
      PROVE  GoneInv'
  BY <1>1, NoSessionAssumption DEF Arrive, Free, server, history
<1>2. ASSUME NEW r \in Requests, Check(r)
      PROVE  GoneInv'
  BY <1>2, CheckKeeps DEF server, history
<1>3. ASSUME NEW r \in Requests, Grant(r)
      PROVE  GoneInv'
  BY <1>3, NoSessionAssumption DEF Grant, Exchanged, NextRefresh, Renewed, Acceptable, TokenSent, server, history
<1>4. ASSUME NEW r \in Requests, NEW answerLost \in BOOLEAN, Refuse(r, answerLost)
      PROVE  GoneInv'
  BY <1>4, NoSessionAssumption DEF Refuse, Exchanged, NextRefresh, DestroySession, Outdate, UnderWay, Acceptable, TokenSent, server, history
<1>5. ASSUME NEW r \in Requests, NEW post \in BOOLEAN, NEW plain \in BOOLEAN, Headers(r, post, plain)
      PROVE  GoneInv'
  BY <1>5, NoSessionAssumption DEF Headers, Secured, server, history
<1>6. ASSUME NEW r \in Requests, Callback(r)
      PROVE  GoneInv'
  BY <1>6, NoSessionAssumption DEF Callback, Go, server, history
<1>7. ASSUME NEW r \in Requests, LoggedIn(r)
      PROVE  GoneInv'
  BY <1>7, NoSessionAssumption DEF LoggedIn, WithUser, NextRefresh, server, history
<1>8. ASSUME NEW r \in Requests, NotLoggedIn(r)
      PROVE  GoneInv'
  BY <1>8, NoSessionAssumption DEF NotLoggedIn, Go, server, history
<1>9. ASSUME NEW r \in Requests, Logout(r)
      PROVE  GoneInv'
  BY <1>9, NoSessionAssumption DEF Logout, DestroySession, Outdate, UnderWay, server, history
<1>10. ASSUME NEW r \in Requests, Respond(r)
      PROVE  GoneInv'
  BY <1>10, NoSessionAssumption DEF Respond, Free, Outdate, UnderWay, server, history
<1>11. CASE Expire
  BY <1>11, NoSessionAssumption DEF Expire, server, history
<1>12. CASE Crash
  BY <1>12, NoSessionAssumption DEF Crash, Free, Unwritten, server, history
<1>13. CASE UNCHANGED vars
  BY <1>13, NoSessionAssumption DEF vars, server, history
<1>14. QED
  BY <1>1, <1>2, <1>3, <1>4, <1>5, <1>6, <1>7, <1>8, <1>9, <1>10, <1>11, <1>12, <1>13 DEF Next

(* Whoever writes a changed copy outdates those it does not agree with.    *)
LEMMA OpenStep ==
    ASSUME TypeOK, CopiesInv, GoneInv, OpenInv, [Next]_vars
    PROVE  OpenInv'
<1> USE DEF TypeOK, Request, Session, Grants, Secrets, CopiesInv, GoneInv, OpenInv, Has, Free
<1>1. ASSUME NEW r \in Requests, NEW public \in BOOLEAN, Arrive(r, public)
      PROVE  OpenInv'
  BY <1>1, NoSessionAssumption DEF Arrive, Free, server, history
<1>2. ASSUME NEW r \in Requests, Check(r)
      PROVE  OpenInv'
  BY <1>2, CheckKeeps DEF server, history
<1>3. ASSUME NEW r \in Requests, Grant(r)
      PROVE  OpenInv'
  BY <1>3, NoSessionAssumption DEF Grant, Exchanged, NextRefresh, Renewed, Acceptable, TokenSent, server, history
<1>4. ASSUME NEW r \in Requests, NEW answerLost \in BOOLEAN, Refuse(r, answerLost)
      PROVE  OpenInv'
  BY <1>4, NoSessionAssumption DEF Refuse, Exchanged, NextRefresh, DestroySession, Outdate, UnderWay, Acceptable, TokenSent, server, history
<1>5. ASSUME NEW r \in Requests, NEW post \in BOOLEAN, NEW plain \in BOOLEAN, Headers(r, post, plain)
      PROVE  OpenInv'
  BY <1>5, NoSessionAssumption DEF Headers, Secured, server, history
<1>6. ASSUME NEW r \in Requests, Callback(r)
      PROVE  OpenInv'
  BY <1>6, NoSessionAssumption DEF Callback, Go, server, history
<1>7. ASSUME NEW r \in Requests, LoggedIn(r)
      PROVE  OpenInv'
  BY <1>7, NoSessionAssumption DEF LoggedIn, WithUser, NextRefresh, server, history
<1>8. ASSUME NEW r \in Requests, NotLoggedIn(r)
      PROVE  OpenInv'
  BY <1>8, NoSessionAssumption DEF NotLoggedIn, Go, server, history
<1>9. ASSUME NEW r \in Requests, Logout(r)
      PROVE  OpenInv'
  BY <1>9, NoSessionAssumption DEF Logout, DestroySession, Outdate, UnderWay, server, history
<1>10. ASSUME NEW r \in Requests, Respond(r)
      PROVE  OpenInv'
  BY <1>10, NoSessionAssumption DEF Respond, Free, Outdate, UnderWay, server, history
<1>11. CASE Expire
  BY <1>11, NoSessionAssumption DEF Expire, server, history
<1>12. CASE Crash
  BY <1>12, NoSessionAssumption DEF Crash, Free, Unwritten, server, history
<1>13. CASE UNCHANGED vars
  BY <1>13, NoSessionAssumption DEF vars, server, history
<1>14. QED
  BY <1>1, <1>2, <1>3, <1>4, <1>5, <1>6, <1>7, <1>8, <1>9, <1>10, <1>11, <1>12, <1>13 DEF Next

(* Tokens come from the token server and are copied.                       *)
LEMMA TokensStep ==
    ASSUME TypeOK, CopiesInv, TokensInv, [Next]_vars
    PROVE  TokensInv'
<1> USE DEF TypeOK, Request, Session, Grants, Secrets, CopiesInv, TokensInv, Has, Free
<1>1. ASSUME NEW r \in Requests, NEW public \in BOOLEAN, Arrive(r, public)
      PROVE  TokensInv'
  BY <1>1, NoSessionAssumption DEF Arrive, Free, server, history
<1>2. ASSUME NEW r \in Requests, Check(r)
      PROVE  TokensInv'
  BY <1>2, CheckKeeps DEF server, history
<1>3. ASSUME NEW r \in Requests, Grant(r)
      PROVE  TokensInv'
  BY <1>3, NoSessionAssumption DEF Grant, Exchanged, NextRefresh, Renewed, Acceptable, TokenSent, server, history
<1>4. ASSUME NEW r \in Requests, NEW answerLost \in BOOLEAN, Refuse(r, answerLost)
      PROVE  TokensInv'
  BY <1>4, NoSessionAssumption DEF Refuse, Exchanged, NextRefresh, DestroySession, Outdate, UnderWay, Acceptable, TokenSent, server, history
<1>5. ASSUME NEW r \in Requests, NEW post \in BOOLEAN, NEW plain \in BOOLEAN, Headers(r, post, plain)
      PROVE  TokensInv'
  BY <1>5, NoSessionAssumption DEF Headers, Secured, server, history
<1>6. ASSUME NEW r \in Requests, Callback(r)
      PROVE  TokensInv'
  BY <1>6, NoSessionAssumption DEF Callback, Go, server, history
<1>7. ASSUME NEW r \in Requests, LoggedIn(r)
      PROVE  TokensInv'
  BY <1>7, NoSessionAssumption DEF LoggedIn, WithUser, NextRefresh, server, history
<1>8. ASSUME NEW r \in Requests, NotLoggedIn(r)
      PROVE  TokensInv'
  BY <1>8, NoSessionAssumption DEF NotLoggedIn, Go, server, history
<1>9. ASSUME NEW r \in Requests, Logout(r)
      PROVE  TokensInv'
  BY <1>9, NoSessionAssumption DEF Logout, DestroySession, Outdate, UnderWay, server, history
<1>10. ASSUME NEW r \in Requests, Respond(r)
      PROVE  TokensInv'
  BY <1>10, NoSessionAssumption DEF Respond, Free, Outdate, UnderWay, server, history
<1>11. CASE Expire
  BY <1>11, NoSessionAssumption DEF Expire, server, history
<1>12. CASE Crash
  BY <1>12, NoSessionAssumption DEF Crash, Free, Unwritten, server, history
<1>13. CASE UNCHANGED vars
  BY <1>13, NoSessionAssumption DEF vars, server, history
<1>14. QED
  BY <1>1, <1>2, <1>3, <1>4, <1>5, <1>6, <1>7, <1>8, <1>9, <1>10, <1>11, <1>12, <1>13 DEF Next

(* The step of another request leaves a token with its owner, unless it    *)
(* spends that token or takes it as well.                                  *)
LEMMA OwnKept ==
    ASSUME TypeOK, NEW r \in Requests, NEW q \in Requests \ {r}, Own(q), session' = session,
           \A p \in Requests \ {r} : request'[p] = request[p],
           request[q].copy.refresh \in valid',
           request'[r].copy # NoSession => request'[r].copy.refresh # request[q].copy.refresh
    PROVE  Own(q)'
BY DEF Own, Has

(* Rotation: Grant spends the session's token, or the asking request's,    *)
(* and gives that request a new one; Respond writes it and outdates the    *)
(* copies with the spent one.                                              *)
LEMMA RenewStep ==
    ASSUME TypeOK, CopiesInv, GoneInv, TokensInv, RenewInv, [Next]_vars
    PROVE  RenewInv'
<1> SUFFICES ASSUME rotates', ~crossed', session' # NoSession
             PROVE  /\ session'.user /\ session'.refresh \notin valid' => \E r \in Requests : Own(r)'
                    /\ \A r \in Requests \ stale' : Has(r)' => Same(r)' \/ Own(r)'
  BY DEF RenewInv
<1> DEFINE Goal == /\ session'.user /\ session'.refresh \notin valid' => \E r \in Requests : Own(r)'
                   /\ \A r \in Requests \ stale' : Has(r)' => Same(r)' \/ Own(r)'
<1>1. ASSUME NEW r \in Requests, NEW public \in BOOLEAN, Arrive(r, public)
      PROVE  Goal
  <2>1. rotates /\ ~crossed /\ session # NoSession
    BY <1>1 DEF Arrive, history, server
  <2>2. /\ request'[r].copy = session
        /\ request[r].copy = NoSession
        /\ \A p \in Requests \ {r} : request'[p] = request[p]
    BY <1>1 DEF Arrive, TypeOK, Free
  <2>3. \A q \in Requests : Own(q) => Own(q)'
    BY <1>1, <2>1, <2>2, OwnKept DEF Arrive, Own, Has, server
  <2>4. Same(r)' /\ \A q \in Requests \ {r} : (Has(q)' => Has(q)) /\ (Same(q) => Same(q)')
    BY <1>1, <2>2 DEF Arrive, Same, Has
  <2>5. QED
    BY <1>1, <2>1, <2>3, <2>4 DEF RenewInv, Arrive, history, server
<1>2. ASSUME NEW r \in Requests, Check(r)
      PROVE  Goal
  <2>1. rotates /\ ~crossed /\ session' = session /\ session # NoSession /\ valid' = valid /\ stale' = stale
    BY <1>2 DEF Check, history, server
  <2>2. /\ request'[r].copy = request[r].copy
        /\ \A p \in Requests \ {r} : request'[p] = request[p]
    BY <1>2, CheckMoves DEF Moved
  <2>3. \A q \in Requests : Own(q) => Own(q)'
    BY <1>2, <2>1, <2>2, OwnKept DEF Check, Own, Has, Unwritten
  <2>4. \A q \in Requests : (Has(q)' => Has(q)) /\ (Same(q) => Same(q)')
    BY <2>1, <2>2 DEF Same, Has
  <2>5. QED
    BY <2>1, <2>3, <2>4 DEF RenewInv
<1>3. ASSUME NEW r \in Requests, Grant(r)
      PROVE  Goal
  <2>1. rotates /\ ~crossed /\ session' = session /\ session # NoSession /\ stale' = stale
    BY <1>3 DEF Grant, history
  <2>2. /\ request[r].copy \in Session
        /\ request[r].copy.user
        /\ Has(r)
        /\ request[r].copy.refresh \in valid
    BY <1>3, CopyType DEF Grant, CopiesInv, Acceptable, TokenSent, Has
  <2>3. valid' = (valid \ {request[r].copy.refresh}) \cup {granted + 1} /\ granted \in Nat
    BY <1>3, <2>1 DEF Grant, Exchanged, TokenSent, NextRefresh, TypeOK, Grants
  <2>4. /\ request'[r].at = "checked"
        /\ request'[r].copy # NoSession
        /\ request'[r].copy.user
        /\ request'[r].copy.refresh = granted + 1
        /\ \A p \in Requests \ {r} : request'[p] = request[p]
    BY <1>3, <2>1, <2>2, GrantMoves, RenewedType DEF Moved
  <2>5. \A q \in Requests : Has(q) => request[q].copy.refresh <= granted /\ request[q].copy.refresh \in Nat
    BY DEF TokensInv, TypeOK, Request, Session, Grants, Has
  <2>6. session.refresh # granted + 1
    BY <2>1, <2>3 DEF TokensInv, TypeOK, Session, Grants
  <2>7. Own(r)'
    BY <2>1, <2>3, <2>4, <2>5, <2>6 DEF Own, Has, Unwritten
  <2>8. \A q \in Requests \ {r} : Own(q) => Own(q)'
    BY <1>3, <2>1, <2>2, <2>3, <2>4, <2>5, OwnKept DEF Own
  <2>9. \A q \in Requests \ {r} : (Has(q)' => Has(q)) /\ (Same(q) => Same(q)')
    BY <2>1, <2>4 DEF Same, Has
  <2>10. QED
    BY <2>1, <2>7, <2>8, <2>9 DEF RenewInv
<1>4. ASSUME NEW r \in Requests, NEW answerLost \in BOOLEAN, Refuse(r, answerLost)
      PROVE  Goal
  BY <1>4 DEF Refuse, DestroySession
<1>5. ASSUME NEW r \in Requests, NEW post \in BOOLEAN, NEW plain \in BOOLEAN, Headers(r, post, plain)
      PROVE  Goal
  <2>1. rotates /\ ~crossed /\ session' = session /\ session # NoSession /\ valid' = valid /\ stale' = stale
    BY <1>5 DEF Headers, history, server
  <2>2. /\ request[r].copy \in Session
        /\ Has(r)
    BY <1>5, CopyType DEF Headers, CopiesInv, Has
  <2>3. /\ request'[r].at \in Unwritten
        /\ request'[r].copy # NoSession
        /\ request'[r].copy.user = request[r].copy.user
        /\ request'[r].copy.refresh = request[r].copy.refresh
        /\ \A p \in Requests \ {r} : request'[p] = request[p]
    BY <1>5, <2>2, HeadersMoves, SecuredType DEF Moved, Unwritten
  <2>4. \A q \in Requests : Own(q) => Own(q)'
    BY <1>5, <2>1, <2>2, <2>3 DEF Own, Has
  <2>5. \A q \in Requests : (Has(q)' => Has(q)) /\ (Same(q) => Same(q)')
    BY <2>1, <2>2, <2>3 DEF Same, Has
  <2>6. QED
    BY <2>1, <2>4, <2>5 DEF RenewInv
<1>6. ASSUME NEW r \in Requests, Callback(r) \/ NotLoggedIn(r)
      PROVE  Goal
  <2>0. UNCHANGED <<server, session, history>>
    BY <1>6 DEF Callback, NotLoggedIn
  <2>1. rotates /\ ~crossed /\ session' = session /\ session # NoSession /\ valid' = valid /\ stale' = stale
    BY <2>0 DEF history, server
  <2>2. /\ request'[r].copy = request[r].copy
        /\ request'[r].at \in Unwritten
        /\ \A p \in Requests \ {r} : request'[p] = request[p]
    BY <1>6 DEF Callback, NotLoggedIn, Go, TypeOK, Request, Unwritten
  <2>3. \A q \in Requests : Own(q) => Own(q)'
    BY <2>1, <2>2 DEF Own, Has
  <2>4. \A q \in Requests : (Has(q)' => Has(q)) /\ (Same(q) => Same(q)')
    BY <2>1, <2>2 DEF Same, Has
  <2>5. QED
    BY <2>1, <2>3, <2>4 DEF RenewInv
<1>7. ASSUME NEW r \in Requests, LoggedIn(r)
      PROVE  Goal
  <2>1. rotates /\ ~crossed /\ session' = session /\ session # NoSession /\ stale' = stale
    BY <1>7 DEF LoggedIn, history
  <2>2. /\ request[r].copy \in Session
        /\ Has(r)
    BY <1>7, CopyType DEF LoggedIn, CopiesInv, Has
  <2>3. valid' = valid \cup {granted + 1} /\ granted \in Nat
    BY <1>7, <2>1 DEF LoggedIn, NextRefresh, TypeOK, Grants
  <2>4. /\ request'[r].at = "entered"
        /\ request'[r].copy # NoSession
        /\ request'[r].copy.user
        /\ request'[r].copy.refresh = granted + 1
        /\ \A p \in Requests \ {r} : request'[p] = request[p]
    BY <1>7, <2>1, <2>2, LoggedInMoves, WithUserType DEF Moved, NextRefresh
  <2>5. \A q \in Requests : Has(q) => request[q].copy.refresh <= granted /\ request[q].copy.refresh \in Nat
    BY DEF TokensInv, TypeOK, Request, Session, Grants, Has
  <2>6. session.refresh # granted + 1
    BY <2>1, <2>3 DEF TokensInv, TypeOK, Session, Grants
  <2>7. Own(r)'
    BY <2>1, <2>3, <2>4, <2>5, <2>6 DEF Own, Has, Unwritten
  <2>8. \A q \in Requests \ {r} : Own(q) => Own(q)'
    BY <1>7, <2>1, <2>2, <2>3, <2>4, <2>5, OwnKept DEF Own
  <2>9. \A q \in Requests \ {r} : (Has(q)' => Has(q)) /\ (Same(q) => Same(q)')
    BY <2>1, <2>4 DEF Same, Has
  <2>10. QED
    BY <2>1, <2>7, <2>8, <2>9 DEF RenewInv
<1>8. ASSUME NEW r \in Requests, Logout(r)
      PROVE  Goal
  BY <1>8 DEF Logout, DestroySession
<1>9. ASSUME NEW r \in Requests, Respond(r)
      PROVE  Goal
  <2>1. rotates /\ ~crossed /\ valid' = valid
    BY <1>9 DEF Respond, history, server
  <2>2. /\ ~Has(r)'
        /\ \A p \in Requests \ {r} : request'[p] = request[p]
    BY <1>9 DEF Respond, TypeOK, Free, Has
  <2>3. CASE session' = session
    <3>1. session # NoSession
      BY <2>3
    <3>2. stale' = stale \ {r}
      BY <1>9, <2>3 DEF Respond
    <3>3. ~Own(r)
      <4>1. Has(r) => session' = request[r].copy
        BY <1>9 DEF Respond, Has
      <4>2. QED
        BY <2>3, <4>1 DEF Own
    <3>4. \A q \in Requests : Own(q) => Own(q)'
      BY <2>1, <2>2, <2>3, <3>3, OwnKept DEF Own, Has
    <3>5. \A q \in Requests : (Has(q)' => Has(q)) /\ (Has(q)' /\ Same(q) => Same(q)')
      BY <2>2, <2>3 DEF Same, Has
    <3>6. session'.user /\ session'.refresh \notin valid => \E q \in Requests : Own(q)'
      BY <2>1, <2>3, <3>1, <3>4 DEF RenewInv
    <3>7. ASSUME NEW q \in Requests \ stale', Has(q)'
          PROVE  Same(q)' \/ Own(q)'
      <4>1. q \notin stale /\ Has(q)
        BY <2>2, <3>2, <3>5, <3>7
      <4>2. QED
        BY <2>1, <3>1, <3>4, <3>5, <3>7, <4>1 DEF RenewInv
    <3>8. QED
      BY <2>1, <3>6, <3>7
  <2>4. CASE session' # session
    <3>1. /\ Has(r)
          /\ session' = request[r].copy
          /\ stale' = (stale \cup UnderWay) \ {r}
          /\ r \notin stale
      BY <1>9, <2>4 DEF Respond, Has, Outdate
    <3>2. session # NoSession
      BY <3>1 DEF GoneInv
    <3>3. Same(r) \/ Own(r)
      BY <2>1, <3>1, <3>2 DEF RenewInv
    <3>4. \A q \in Requests : Has(q)' => q \in stale'
      BY <2>2, <3>1 DEF UnderWay, Has, CopiesInv, Free
    <3>5. ASSUME session'.user, session'.refresh \notin valid
          PROVE  \E q \in Requests : Own(q)'
      <4>1. Same(r)
        BY <3>1, <3>3, <3>5 DEF Own
      <4>2. PICK q \in Requests : Own(q)
        BY <2>1, <3>1, <3>2, <3>5, <4>1 DEF RenewInv, Same
      <4>3. q # r /\ session'.refresh = session.refresh
        BY <3>1, <4>1, <4>2 DEF Same, Own
      <4>4. Own(q)'
        BY <2>1, <2>2, <4>2, <4>3 DEF Own, Has
      <4>5. QED
        BY <4>4
    <3>6. QED
      BY <2>1, <3>4, <3>5
  <2>5. QED
    BY <2>3, <2>4
<1>10. CASE Expire
  BY <1>10 DEF Expire, history, RenewInv, Own, Has, Same
<1>11. CASE Crash
  <2>1. rotates /\ ~crossed /\ session' = session /\ session # NoSession /\ valid' = valid
    BY <1>11 DEF Crash, server
  <2>2. \A r \in Requests : ~Own(r) /\ ~Has(r)'
    BY <1>11 DEF Crash, Own, Free, Has
  <2>3. QED
    BY <2>1, <2>2 DEF RenewInv
<1>12. CASE UNCHANGED vars
  BY <1>12 DEF vars, RenewInv, Own, Has, Same
<1>13. QED
  BY <1>1, <1>2, <1>3, <1>4, <1>5, <1>6, <1>7, <1>8, <1>9, <1>10, <1>11, <1>12 DEF Next

(* The page shown last was made by the copy written last.                  *)
LEMMA PageStep ==
    ASSUME TypeOK, CopiesInv, GoneInv, OpenInv, PageInv, [Next]_vars
    PROVE  PageInv'
<1> USE DEF TypeOK, Request, Session, Grants, Secrets, CopiesInv, GoneInv, OpenInv, PageInv, Has, Free
<1>1. ASSUME NEW r \in Requests, NEW public \in BOOLEAN, Arrive(r, public)
      PROVE  PageInv'
  BY <1>1, NoSessionAssumption DEF Arrive, Free, server, history
<1>2. ASSUME NEW r \in Requests, Check(r)
      PROVE  PageInv'
  BY <1>2, CheckKeeps DEF server, history
<1>3. ASSUME NEW r \in Requests, Grant(r)
      PROVE  PageInv'
  BY <1>3, NoSessionAssumption DEF Grant, Exchanged, NextRefresh, Renewed, Acceptable, TokenSent, server, history
<1>4. ASSUME NEW r \in Requests, NEW answerLost \in BOOLEAN, Refuse(r, answerLost)
      PROVE  PageInv'
  BY <1>4, NoSessionAssumption DEF Refuse, Exchanged, NextRefresh, DestroySession, Outdate, UnderWay, Acceptable, TokenSent, server, history
<1>5. ASSUME NEW r \in Requests, NEW post \in BOOLEAN, NEW plain \in BOOLEAN, Headers(r, post, plain)
      PROVE  PageInv'
  BY <1>5, NoSessionAssumption DEF Headers, Secured, server, history
<1>6. ASSUME NEW r \in Requests, Callback(r)
      PROVE  PageInv'
  BY <1>6, NoSessionAssumption DEF Callback, Go, server, history
<1>7. ASSUME NEW r \in Requests, LoggedIn(r)
      PROVE  PageInv'
  BY <1>7, NoSessionAssumption DEF LoggedIn, WithUser, NextRefresh, server, history
<1>8. ASSUME NEW r \in Requests, NotLoggedIn(r)
      PROVE  PageInv'
  BY <1>8, NoSessionAssumption DEF NotLoggedIn, Go, server, history
<1>9. ASSUME NEW r \in Requests, Logout(r)
      PROVE  PageInv'
  BY <1>9, NoSessionAssumption DEF Logout, DestroySession, Outdate, UnderWay, server, history
<1>10. ASSUME NEW r \in Requests, Respond(r)
      PROVE  PageInv'
  BY <1>10, NoSessionAssumption DEF Respond, Free, Outdate, UnderWay, server, history
<1>11. CASE Expire
  BY <1>11, NoSessionAssumption DEF Expire, server, history
<1>12. CASE Crash
  BY <1>12, NoSessionAssumption DEF Crash, Free, Unwritten, server, history
<1>13. CASE UNCHANGED vars
  BY <1>13, NoSessionAssumption DEF vars, server, history
<1>14. QED
  BY <1>1, <1>2, <1>3, <1>4, <1>5, <1>6, <1>7, <1>8, <1>9, <1>10, <1>11, <1>12, <1>13 DEF Next

(* The session goes with a logout or a failed exchange, and a user that    *)
(* logged in is in every copy that is not outdated.                        *)
LEMMA LoginStep ==
    ASSUME TypeOK, CopiesInv, GoneInv, OpenInv, TokensInv, LoginInv, [Next]_vars
    PROVE  LoginInv'
<1> USE DEF TypeOK, Request, Session, Grants, Secrets, CopiesInv, GoneInv, OpenInv, TokensInv, LoginInv, Has, Free
<1>1. ASSUME NEW r \in Requests, NEW public \in BOOLEAN, Arrive(r, public)
      PROVE  LoginInv'
  BY <1>1, NoSessionAssumption DEF Arrive, Free, server, history
<1>2. ASSUME NEW r \in Requests, Check(r)
      PROVE  LoginInv'
  BY <1>2, CheckKeeps DEF server, history
<1>3. ASSUME NEW r \in Requests, Grant(r)
      PROVE  LoginInv'
  BY <1>3, NoSessionAssumption DEF Grant, Exchanged, NextRefresh, Renewed, Acceptable, TokenSent, server, history
<1>4. ASSUME NEW r \in Requests, NEW answerLost \in BOOLEAN, Refuse(r, answerLost)
      PROVE  LoginInv'
  BY <1>4, NoSessionAssumption DEF Refuse, Exchanged, NextRefresh, DestroySession, Outdate, UnderWay, Acceptable, TokenSent, server, history
<1>5. ASSUME NEW r \in Requests, NEW post \in BOOLEAN, NEW plain \in BOOLEAN, Headers(r, post, plain)
      PROVE  LoginInv'
  BY <1>5, NoSessionAssumption DEF Headers, Secured, server, history
<1>6. ASSUME NEW r \in Requests, Callback(r)
      PROVE  LoginInv'
  BY <1>6, NoSessionAssumption DEF Callback, Go, server, history
<1>7. ASSUME NEW r \in Requests, LoggedIn(r)
      PROVE  LoginInv'
  BY <1>7, NoSessionAssumption DEF LoggedIn, WithUser, NextRefresh, server, history
<1>8. ASSUME NEW r \in Requests, NotLoggedIn(r)
      PROVE  LoginInv'
  BY <1>8, NoSessionAssumption DEF NotLoggedIn, Go, server, history
<1>9. ASSUME NEW r \in Requests, Logout(r)
      PROVE  LoginInv'
  BY <1>9, NoSessionAssumption DEF Logout, DestroySession, Outdate, UnderWay, server, history
<1>10. ASSUME NEW r \in Requests, Respond(r)
      PROVE  LoginInv'
  BY <1>10, NoSessionAssumption DEF Respond, Free, Outdate, UnderWay, server, history
<1>11. CASE Expire
  BY <1>11, NoSessionAssumption DEF Expire, server, history
<1>12. CASE Crash
  BY <1>12, NoSessionAssumption DEF Crash, Free, Unwritten, server, history
<1>13. CASE UNCHANGED vars
  BY <1>13, NoSessionAssumption DEF vars, server, history
<1>14. QED
  BY <1>1, <1>2, <1>3, <1>4, <1>5, <1>6, <1>7, <1>8, <1>9, <1>10, <1>11, <1>12, <1>13 DEF Next

-----------------------------------------------------------------------------

(* The process starts with one fresh session and no request.               *)
LEMMA InitInv == Init => Inv
<1> SUFFICES ASSUME Init
             PROVE  Inv
  OBVIOUS
<1>1. session \in Session
  BY DEF Init, Session, Grants, Secrets
<1>2. TypeOK
  <2>1. Free \in Request
    BY DEF Free, Request, Secrets
  <2>2. request \in [Requests -> Request]
    BY <2>1 DEF Init
  <2>3. arrived \in 0 .. MaxRequests
    BY MaxAssumption DEF Init
  <2>4. granted \in Grants /\ valid \subseteq Grants /\ fresh \in Nat
    BY DEF Init, Grants
  <2>5. page \in Secrets /\ secrets \in Secrets
    BY DEF Init, Secrets
  <2>6. stale \in SUBSET Requests
    BY DEF Init
  <2>7. QED
    BY <1>1, <2>2, <2>3, <2>4, <2>5, <2>6, Zenon DEF Init, TypeOK
<1>3. session # NoSession
  BY <1>1, NoSessionAssumption
<1>4. \A r \in Requests : request[r] = Free
  BY DEF Init
<1>5. CopiesInv /\ GoneInv /\ OpenInv /\ PageInv
  BY <1>4 DEF CopiesInv, GoneInv, OpenInv, PageInv, Has, Free, Init
<1>6. TokensInv /\ RenewInv
  BY <1>4 DEF TokensInv, RenewInv, Has, Free, Init
<1>7. LoginInv
  BY <1>3 DEF LoginInv, Init
<1>8. QED
  BY <1>2, <1>5, <1>6, <1>7 DEF Inv

(* The conjunction is inductive.                                           *)
LEMMA InvStep == Inv /\ [Next]_vars => Inv'
BY TypeStep, CopiesStep, GoneStep, OpenStep, TokensStep, RenewStep, PageStep, LoginStep DEF Inv

(* Every reachable state satisfies the inductive invariant.                *)
LEMMA Invariance == Spec => []Inv
BY InitInv, InvStep, PTL DEF Spec

(* Every reachable state is of its type.                                   *)
THEOREM TypeCorrect == Spec => []TypeOK
BY Invariance, PTL DEF Inv

(* Where the token server does not rotate refresh tokens nobody is logged  *)
(* out by an order of requests, expirations and exchanges in lib/auth.     *)
THEOREM NobodyLoggedOut == Spec => []StaysLoggedIn
<1>1. Inv => StaysLoggedIn
  BY DEF Inv, LoginInv, StaysLoggedIn
<1>2. QED
  BY <1>1, Invariance, PTL

(* When no copy is to be written the stored refresh token is accepted: the *)
(* one exchange at a time of checkValidAndRefreshToken() loses no token.   *)
THEOREM TokenUsable == Spec => []Usable
<1>1. ASSUME Inv, session # NoSession, ~crossed, session.user,
             \A r \in Requests : request[r].at \notin Unwritten
      PROVE  session.refresh \in valid
  <2>1. CASE rotates
    BY <1>1, <2>1 DEF Inv, RenewInv, Own
  <2>2. CASE ~rotates
    BY <1>1, <2>2 DEF Inv, TokensInv
  <2>3. QED
    BY <2>1, <2>2
<1>2. Inv => Usable
  BY <1>1 DEF Usable
<1>3. QED
  BY <1>2, Invariance, PTL

(* A session that /logout destroyed comes back only when an outdated copy  *)
(* is written.                                                             *)
THEOREM LogoutStays == Spec => []LogoutHolds
<1>1. Inv => LogoutHolds
  BY DEF Inv, LoginInv, LogoutHolds
<1>2. QED
  BY <1>1, Invariance, PTL

(* The CSRF token of the page that is shown passes ensureSecurityHeaders() *)
(* once more, unless an outdated copy was written.                         *)
THEOREM PageStaysAccepted == Spec => []PageAccepted
<1>1. Inv => PageAccepted
  BY DEF Inv, PageInv, PageAccepted
<1>2. QED
  BY <1>1, Invariance, PTL
=============================================================================
