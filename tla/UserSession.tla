----------------------------- MODULE UserSession -----------------------------
(***************************************************************************)
(* The requests of one browser session, from before its login to its       *)
(* logout, as they pass lib/auth/authentication.js: ensureAuthenticated(), *)
(* checkValidAndRefreshToken(), which exchanges an expired token at the    *)
(* token server, one exchange at a time for the whole process,             *)
(* ensureSecurityHeaders() with its CSRF secret, /auth/callback, where the *)
(* strategy of lib/auth/passport-uaa has the user logged in, and /logout.  *)
(*                                                                         *)
(* Every request works on a copy of the session, which express-session     *)
(* reads when the request comes and writes back when its response ends     *)
(* (resave, as by default).  The token server may rotate refresh tokens:   *)
(* each is good for one exchange then.  Tokens are named by the exchange   *)
(* or login that granted them, lasting refresh tokens by 0.                *)
(***************************************************************************)
EXTENDS Naturals, FiniteSets

CONSTANTS
    Requests,       \* requests that may be under way at once
    NoSession,      \* the store has no session; a request's copy was destroyed
    MaxRequests     \* bound: requests, and so grants and secrets

ASSUME MaxAssumption == MaxRequests \in Nat

Grants == Nat

Secrets == Nat      \* 0 before generateToken() made one

(* passport's user, accessToken and refreshToken, and session[secretKey].  *)
Session == [user : BOOLEAN, token : Grants, refresh : Grants, secret : Secrets]

ASSUME NoSessionAssumption == NoSession \notin Session

VARIABLES
    secure,         \* options.isAllUrlsSecure
    rotates,        \* the token server rotates refresh tokens
    granted,        \* the last grant of the token server
    valid,          \* the refresh tokens that it accepts
    fresh,          \* the first grant that has not expired
    lock,           \* isRefreshTokenChecking
    session,        \* the session at the store
    request,        \* each request: its progress and copy, and the secret behind
                    \* the CSRF token it was sent with
    page,           \* the secret behind the CSRF token of the page that is shown
    secrets,        \* history: secrets made so far
    arrived,        \* history: requests so far
    stale,          \* history: requests whose copy another request outdated
    crossed,        \* history: an outdated copy was written, or one was lost
    failed,         \* history: an exchange failed that could have been granted
    entered,        \* history: the user logged in
    left            \* history: the user logged out

vars == <<secure, rotates, granted, valid, fresh, lock, session, request, page, secrets,
          arrived, stale, crossed, failed, entered, left>>

history == <<stale, crossed, failed, entered, left>>

server == <<secure, rotates, granted, valid, fresh>>

Free == [at |-> "done", public |-> FALSE, copy |-> NoSession, sent |-> 0]

Request == [at : {"done", "loaded", "poll", "exchange", "checked", "handled",
                  "callback", "entered", "end"},
            public : BOOLEAN, copy : Session \cup {NoSession}, sent : Secrets]

TypeOK ==
    /\ secure \in BOOLEAN
    /\ rotates \in BOOLEAN
    /\ granted \in Grants
    /\ valid \subseteq Grants
    /\ fresh \in Nat
    /\ lock \in BOOLEAN
    /\ session \in Session \cup {NoSession}
    /\ request \in [Requests -> Request]
    /\ page \in Secrets
    /\ secrets \in Secrets
    /\ arrived \in 0 .. MaxRequests
    /\ stale \in SUBSET Requests
    /\ crossed \in BOOLEAN
    /\ failed \in BOOLEAN
    /\ entered \in BOOLEAN
    /\ left \in BOOLEAN

Init ==
    /\ secure \in BOOLEAN
    /\ rotates \in BOOLEAN
    /\ granted = 0
    /\ valid = {0}
    /\ fresh = 0
    /\ lock = FALSE
    /\ entered \in BOOLEAN
    /\ session = [user |-> entered, token |-> 0, refresh |-> 0, secret |-> 0]
    /\ request = [r \in Requests |-> Free]
    /\ page = 0
    /\ secrets = 0
    /\ arrived = 0
    /\ stale = {}
    /\ crossed = FALSE
    /\ failed = FALSE
    /\ left = FALSE

(* Where a request may hold a copy that differs from what is stored. *)
Unwritten == {"checked", "handled", "callback", "entered", "end"}

UnderWay == {r \in Requests : request[r].at # "done"}

-----------------------------------------------------------------------------

(* A request comes, and the session middleware reads the session.  The     *)
(* unsecure URLs, /logout among them, need no valid token.                 *)
Arrive(r, public) ==
    /\ request[r] = Free
    /\ session # NoSession
    /\ arrived < MaxRequests
    /\ arrived' = arrived + 1
    /\ request' = [request EXCEPT ![r] =
                     [at |-> IF public THEN "checked" ELSE "loaded",
                      public |-> public, copy |-> session, sent |-> page]]
    /\ UNCHANGED <<server, lock, session, page, secrets, history>>

Go(r, at) == request' = [request EXCEPT ![r].at = at]

(* ensureAuthenticated(): refused, or redirected to /login. *)
TurnedAway(copy) == secure /\ ~copy.user

(* The first two checks, the second again every 500 ms while locked out. *)
Check(r) ==
    LET copy == request[r].copy IN
    /\ request[r].at \in {"loaded", "poll"}
    /\ IF TurnedAway(copy) THEN Go(r, "end") /\ UNCHANGED lock
       ELSE IF ~copy.user \/ copy.token >= fresh THEN Go(r, "checked") /\ UNCHANGED lock
       ELSE IF lock THEN Go(r, "poll") /\ UNCHANGED lock
       ELSE Go(r, "exchange") /\ lock' = TRUE
    /\ UNCHANGED <<server, session, page, secrets, arrived, history>>

(* What the process sends to the token server, which grants the next token *)
(* for a valid refresh token, and spends it where it rotates them.         *)
AccessToken(copy) == copy.token

TokenSent(copy) == copy.refresh

Acceptable(r) == TokenSent(request[r].copy) \in valid

NextRefresh == IF rotates THEN granted + 1 ELSE 0

Exchanged(r) ==
    /\ granted' = granted + 1
    /\ valid' = (IF rotates THEN valid \ {TokenSent(request[r].copy)} ELSE valid)
                  \cup {NextRefresh}

(* What the answer changes in the copy of the one request that asked. *)
WithOldOnly(copy) == [copy EXCEPT !.token = granted + 1]

Renewed(copy) ==
    [copy EXCEPT !.token = granted + 1, !.refresh = IF rotates THEN NextRefresh ELSE copy.refresh]

Grant(r) ==
    /\ request[r].at = "exchange"
    /\ Acceptable(r)
    /\ Exchanged(r)
    /\ request' = [request EXCEPT ![r].at = "checked", ![r].copy = Renewed(@)]
    /\ lock' = FALSE
    /\ UNCHANGED <<secure, rotates, fresh, session, page, secrets, arrived, history>>

(* Others under way keep a copy of what is no longer. *)
Outdate(r) == stale' = (stale \cup UnderWay) \ {r}

(* logOutSession() *)
DestroySession(r, at) ==
    /\ session' = NoSession
    /\ request' = [request EXCEPT ![r].at = at, ![r].copy = NoSession]
    /\ Outdate(r)

(* A refusal, or an error there or on the way: the user is logged out.     *)
RefuseKeepingLock(r, answerLost) ==
    /\ request[r].at = "exchange"
    /\ ~answerLost
    /\ DestroySession(r, "end")
    /\ failed' = (failed \/ Acceptable(r))
    /\ UNCHANGED <<server, lock, page, secrets, arrived, crossed, entered, left>>

Refuse(r, answerLost) ==
    /\ request[r].at = "exchange"
    /\ answerLost => Acceptable(r)
    /\ IF answerLost THEN Exchanged(r) ELSE UNCHANGED <<granted, valid>>
    /\ DestroySession(r, "end")
    /\ lock' = FALSE
    /\ failed' = (failed \/ Acceptable(r))
    /\ UNCHANGED <<secure, rotates, fresh, page, secrets, arrived, crossed, entered, left>>

(* ensureSecurityHeaders(): the secret that the copy has, or a new one;    *)
(* then a form without its token, or a request that did not come by HTTPS  *)
(* where transportSecurity asks for that, goes no further.                 *)
AlwaysNew(copy) == [copy EXCEPT !.secret = secrets + 1]

Secured(copy) == IF copy.secret # 0 THEN copy ELSE [copy EXCEPT !.secret = secrets + 1]

Headers(r, post, plain) ==
    LET copy == Secured(request[r].copy)
        accepted == ~plain /\ (~post \/ request[r].sent = copy.secret)
    IN
    /\ request[r].at = "checked"
    /\ request' = [request EXCEPT ![r].at = IF accepted THEN "handled" ELSE "end",
                                  ![r].copy = copy]
    /\ secrets' = IF copy = request[r].copy THEN secrets ELSE secrets + 1
    /\ UNCHANGED <<server, lock, session, page, arrived, history>>

(* /auth/callback: the strategy asks the token server for a token and then *)
(* for the profile, on which verifyAuth() puts the tokens.                 *)
Callback(r) ==
    /\ request[r].at = "handled"
    /\ request[r].public
    /\ Go(r, "callback")
    /\ UNCHANGED <<server, lock, session, page, secrets, arrived, history>>

WithUser(copy) == [copy EXCEPT !.user = TRUE, !.token = granted + 1, !.refresh = NextRefresh]

LoggedIn(r) ==
    /\ request[r].at = "callback"
    /\ granted' = granted + 1
    /\ valid' = valid \cup {NextRefresh}
    /\ request' = [request EXCEPT ![r].at = "entered", ![r].copy = WithUser(@)]
    /\ UNCHANGED <<secure, rotates, fresh, lock, session, page, secrets, arrived, history>>

NotLoggedIn(r) ==
    /\ request[r].at = "callback"
    /\ Go(r, "end")
    /\ UNCHANGED <<server, lock, session, page, secrets, arrived, history>>

ForgetUser(r) ==
    /\ request[r].at = "handled"
    /\ request[r].public
    /\ Go(r, "end")
    /\ left' = TRUE
    /\ UNCHANGED <<server, lock, session, page, secrets, arrived,
                   stale, crossed, failed, entered>>

Logout(r) ==
    /\ request[r].at = "handled"
    /\ request[r].public
    /\ DestroySession(r, "end")
    /\ left' = TRUE
    /\ UNCHANGED <<server, lock, page, secrets, arrived, crossed, failed, entered>>

(* The response ends: the copy is written, and a handled page is shown. *)
Respond(r) ==
    LET copy == request[r].copy IN
    /\ request[r].at \in {"handled", "entered", "end"}
    /\ request' = [request EXCEPT ![r] = Free]
    /\ IF copy = NoSession
       THEN stale' = stale \ {r} /\ UNCHANGED <<session, crossed>>
       ELSE /\ session' = copy
            /\ IF session' = session THEN stale' = stale \ {r} ELSE Outdate(r)
            /\ crossed' = (crossed \/ r \in stale)
    /\ page' = IF request[r].at = "handled" THEN copy.secret ELSE page
    /\ entered' = (entered \/ request[r].at = "entered")
    /\ UNCHANGED <<server, lock, secrets, arrived, failed, left>>

Expire ==
    /\ fresh <= granted
    /\ fresh' = granted + 1
    /\ UNCHANGED <<secure, rotates, granted, valid, lock, session, request, page, secrets, arrived, history>>

(* The process ends, as it does when the answer's body is no JSON, and     *)
(* another starts: the lock and all requests are gone.                     *)
Crash ==
    /\ UnderWay # {}
    /\ lock' = FALSE
    /\ request' = [r \in Requests |-> Free]
    /\ stale' = {}
    /\ crossed' = (crossed \/ \E r \in Requests : request[r].at \in Unwritten)
    /\ UNCHANGED <<server, session, page, secrets, arrived, failed, entered, left>>

Next ==
    \/ \E r \in Requests :
          \/ \E public \in BOOLEAN : Arrive(r, public)
          \/ Check(r)
          \/ Grant(r)
          \/ \E answerLost \in BOOLEAN : Refuse(r, answerLost)
          \/ \E post, plain \in BOOLEAN : Headers(r, post, plain)
          \/ Callback(r)
          \/ LoggedIn(r)
          \/ NotLoggedIn(r)
          \/ Logout(r)
          \/ Respond(r)
    \/ Expire
    \/ Crash

(* The token server answers in the end; timers run out; handlers end. *)
Fairness ==
    \A r \in Requests :
        /\ WF_vars(Check(r))
        /\ WF_vars(Grant(r) \/ \E answerLost \in BOOLEAN : Refuse(r, answerLost))

Spec == Init /\ [][Next]_vars

FairSpec == Spec /\ Fairness

-----------------------------------------------------------------------------

(* As long as refresh tokens may be used again, no order of requests,      *)
(* expirations, exchanges and logins logs the user out, and a user that    *)
(* logged in is in the session unless an older copy was written over it.   *)
StaysLoggedIn ==
    ~rotates /\ ~failed /\ ~left
    => session # NoSession /\ (entered /\ ~crossed => session.user)

(* The stored refresh token is the one that the next exchange needs, when  *)
(* no copy is still to be written.                                         *)
Usable ==
    /\ session # NoSession
    /\ ~crossed
    /\ session.user
    /\ \A r \in Requests : request[r].at \notin Unwritten
    => session.refresh \in valid

(* After /logout the session stays away, unless another request that was   *)
(* under way then writes its copy back.                                    *)
LogoutHolds == left /\ ~crossed => session = NoSession

(* The next form that is sent from the page that is shown has a token that *)
(* the session's secret validates.                                         *)
PageAccepted ==
    UnderWay = {} /\ ~crossed /\ session # NoSession /\ page # 0 => session.secret = page

(* A request that waits for another's exchange goes on. *)
WaitsEnd == \A r \in Requests : request[r].at = "poll" ~> request[r].at # "poll"
=============================================================================
