--------------------------- MODULE DeviceSessions ---------------------------
(***************************************************************************)
(* Refresh tokens: login, refresh, logout, password changes and the        *)
(* removal of a user, of internal/web/server.go over the user_devices      *)
(* table of internal/store/store.go, and the app on each device.           *)
(*                                                                         *)
(* A row of user_devices holds the hash of one token.  A refresh compares  *)
(* it, and later, in a statement of its own, replaces whatever hash is     *)
(* there by that of a new token.  A token remembers the user and the       *)
(* version of the password of the login it descends from.                  *)
(***************************************************************************)
EXTENDS Naturals

CONSTANTS Users, Devices,
          Paths,        \* parts of an app that send requests independently
          Controllers,  \* those that only refresh: CallController's autoReconnect
          Steady,       \* devices with one request at a time and no reply lost
          MaxPassword,  \* bound on password changes
          MaxToken,     \* bound on tokens issued
          NoToken

ASSUME SteadyDevices == Steady \subseteq Devices
ASSUME ControllerPaths == Controllers \subseteq Paths
ASSUME TokenBounds == MaxPassword \in Nat /\ MaxToken \in Nat

Tokens == [user : Users, pw : 0..MaxPassword, n : 0..MaxToken]

ASSUME NoTokenIsNone == NoToken \notin Tokens

VARIABLES
    users,      \* rows of users
    password,   \* version of each user's password_hash
    changing,   \* a password was updated and the devices are not cleared yet
    accepted,   \* the token whose hash is in the device's row, NoToken for ''
    issued,     \* number of tokens made so far
    held,       \* the token in the app's session store, NoToken if logged out
    req         \* the request of each part of each app

serverVars == <<users, password, changing, accepted, issued>>
deviceVars == <<serverVars, held, req>>

Requests == Devices \X Paths

\* "login" and "refresh" have passed their check and will issue a token.  A refresh
\* is "denied" for its token; the answer is the same if a row was "unread".
Steps == {"idle", "sent", "login", "refresh", "loggedIn", "refreshed", "denied",
          "unread", "failed", "leaving", "left"}

DevicesTypeOK ==
    /\ users \subseteq Users
    /\ password \in [Users -> 0..MaxPassword]
    /\ changing \in SUBSET Users
    /\ accepted \in [Devices -> Tokens \cup {NoToken}]
    /\ issued \in 0..MaxToken
    /\ held \in [Devices -> Tokens \cup {NoToken}]
    /\ req \in [Requests -> [at : Steps, token : Tokens \cup {NoToken}]]

Idle == [at |-> "idle", token |-> NoToken]

DevicesInit ==
    /\ users = Users
    /\ password = [u \in Users |-> 0]
    /\ changing = {}
    /\ accepted = [d \in Devices |-> NoToken]
    /\ issued = 0
    /\ held = [d \in Devices |-> NoToken]
    /\ req = [r \in Requests |-> Idle]

Goes(r, at, token) == req' = [req EXCEPT ![r] = [at |-> at, token |-> token]]

\* A steady device begins nothing while something of it is under way.
Free(d, p) ==
    /\ req[<<d, p>>].at = "idle"
    /\ d \in Steady => \A q \in Paths : req[<<d, q>>].at = "idle"

\* The rows of user_devices that are u's lose their hash.
ClearUser(u) ==
    accepted' = [d \in Devices |->
                    IF accepted[d] # NoToken /\ accepted[d].user = u
                    THEN NoToken ELSE accepted[d]]

---------------------------------------------------------------------------
(* Requests of the apps.                                                   *)

\* handleLogin up to bcrypt: the password is the current one.  The user logs in.
LoginCheck(d, p, u) ==
    /\ p \notin Controllers
    /\ Free(d, p)
    /\ held[d] = NoToken
    /\ u \in users
    /\ Goes(<<d, p>>, "login", [user |-> u, pw |-> password[u], n |-> 0])
    /\ UNCHANGED <<serverVars, held>>

RefreshSend(d, p) ==
    /\ Free(d, p)
    /\ held[d] # NoToken
    /\ Goes(<<d, p>>, "sent", held[d])
    /\ UNCHANGED <<serverVars, held>>

\* GetUserDeviceByToken, which may fail, and the comparison of the hash.
RefreshCheck(d, p) ==
    LET token == req[<<d, p>>].token IN
    /\ req[<<d, p>>].at = "sent"
    /\ \E at \in {IF accepted[d] = token THEN "refresh" ELSE "denied", "unread"} :
          Goes(<<d, p>>, at, token)
    /\ UNCHANGED <<serverVars, held>>

\* issueDeviceSession: UpsertUserDevice takes the row over, whatever it holds.
issueDeviceSession(d, p, token) ==
    LET r == <<d, p>> IN
    /\ issued < MaxToken
    /\ issued' = issued + 1
    /\ accepted' = [accepted EXCEPT ![d] = token]
    /\ Goes(r, IF req[r].at = "login" THEN "loggedIn" ELSE "refreshed", token)
    /\ UNCHANGED <<users, password, changing, held>>

Passed(d, p) == req[<<d, p>>].at \in {"login", "refresh"}

NewToken(r) == [req[r].token EXCEPT !.n = issued + 1]

\* Mutant: a refresh gives the token back as it is.
IssueSame(d, p) ==
    /\ Passed(d, p)
    /\ req[<<d, p>>].token.user \in users
    /\ \/ req[<<d, p>>].at = "login" /\ issueDeviceSession(d, p, NewToken(<<d, p>>))
       \/ req[<<d, p>>].at = "refresh" /\ issueDeviceSession(d, p, req[<<d, p>>].token)

\* Mutant: foreign keys are not enforced.
IssueToAnyone(d, p) == Passed(d, p) /\ issueDeviceSession(d, p, NewToken(<<d, p>>))

\* The foreign key of user_devices wants the user to be there.
Issue(d, p) ==
    /\ Passed(d, p)
    /\ req[<<d, p>>].token.user \in users
    /\ issueDeviceSession(d, p, NewToken(<<d, p>>))

\* For a refresh GetUserCredentialByID finds no user, or fails: 401.  The foreign
\* key refuses the row, or the store fails: 500.
IssueFails(d, p) ==
    LET r == <<d, p>> IN
    /\ Passed(d, p)
    /\ \/ Goes(r, "failed", NoToken)
       \/ req[r].at = "refresh" /\ Goes(r, "unread", NoToken)
    /\ UNCHANGED <<serverVars, held>>

\* Mutant: a session that is there is left alone.
GrantedOnce(d, p) ==
    /\ req[<<d, p>>].at \in {"loggedIn", "refreshed"}
    /\ held' = [held EXCEPT ![d] = IF @ = NoToken THEN req[<<d, p>>].token ELSE @]
    /\ Goes(<<d, p>>, "idle", NoToken)
    /\ UNCHANGED serverVars

\* saveSession, even when the session has been cleared meanwhile.
Granted(d, p) ==
    /\ req[<<d, p>>].at \in {"loggedIn", "refreshed"}
    /\ held' = [held EXCEPT ![d] = req[<<d, p>>].token]
    /\ Goes(<<d, p>>, "idle", NoToken)
    /\ UNCHANGED serverVars

\* 401 on a refresh: clearSession.
Denied(d, p) ==
    /\ req[<<d, p>>].at \in {"denied", "unread"}
    /\ held' = [held EXCEPT ![d] = NoToken]
    /\ Goes(<<d, p>>, "idle", NoToken)
    /\ UNCHANGED serverVars

\* Any other error changes nothing; the app may try again.
Failed(d, p) ==
    /\ req[<<d, p>>].at = "failed"
    /\ Goes(<<d, p>>, "idle", NoToken)
    /\ UNCHANGED <<serverVars, held>>

\* The reply does not reach the app.
Lost(d, p) ==
    /\ d \notin Steady
    /\ req[<<d, p>>].at \in {"loggedIn", "refreshed", "denied", "unread", "failed", "left"}
    /\ Goes(<<d, p>>, "idle", NoToken)
    /\ UNCHANGED <<serverVars, held>>

LogoutSend(d, p) ==
    /\ p \notin Controllers
    /\ Free(d, p)
    /\ held[d] # NoToken
    /\ Goes(<<d, p>>, "leaving", held[d])
    /\ UNCHANGED <<serverVars, held>>

\* handleLogout: the access token has expired and nothing is cleared, or
\* ClearUserDeviceAuth clears the row if it is that user's; 200 either way.
LogoutClear(d, p) ==
    LET token == req[<<d, p>>].token IN
    /\ req[<<d, p>>].at = "leaving"
    /\ \/ UNCHANGED accepted
       \/ /\ accepted[d] # NoToken
          /\ accepted[d].user = token.user
          /\ accepted' = [accepted EXCEPT ![d] = NoToken]
    /\ Goes(<<d, p>>, "left", token)
    /\ UNCHANGED <<users, password, changing, issued, held>>

LogoutDone(d, p) ==
    /\ req[<<d, p>>].at = "left"
    /\ held' = [held EXCEPT ![d] = NoToken]
    /\ Goes(<<d, p>>, "idle", NoToken)
    /\ UNCHANGED serverVars

---------------------------------------------------------------------------
(* Passwords, users, time.                                                 *)

\* UpdateUserPasswordHashByID, by the user, who knows the old one, or an
\* administrator.
PasswordUpdate(u) ==
    /\ u \in users \ changing
    /\ password[u] < MaxPassword
    /\ password' = [password EXCEPT ![u] = @ + 1]
    /\ changing' = changing \cup {u}
    /\ UNCHANGED <<users, accepted, issued, held, req>>

\* ClearUserDeviceAuthByUserID; its error is ignored, but SQLite obliges.
PasswordClear(u) ==
    /\ u \in changing
    /\ changing' = changing \ {u}
    /\ ClearUser(u)
    /\ UNCHANGED <<users, password, issued, held, req>>

\* DeleteUser takes the rows of user_devices along.
UserDeleted(u) ==
    /\ u \in users
    /\ users' = users \ {u}
    /\ ClearUser(u)
    /\ UNCHANGED <<password, changing, issued, held, req>>

\* Mutant: the user's id is left where the hash was.
ExpiresPartly(d) ==
    /\ accepted[d] # NoToken
    /\ accepted' = [accepted EXCEPT ![d] = @.user]
    /\ UNCHANGED <<users, password, changing, issued, held, req>>

\* refresh_expires_at passes, after which the hash is of no use.
Expires(d) ==
    /\ accepted[d] # NoToken
    /\ accepted' = [accepted EXCEPT ![d] = NoToken]
    /\ UNCHANGED <<users, password, changing, issued, held, req>>

RequestStep(d, p) ==
    \/ \E u \in Users : LoginCheck(d, p, u)
    \/ RefreshSend(d, p) \/ RefreshCheck(d, p)
    \/ Issue(d, p) \/ IssueFails(d, p)
    \/ Granted(d, p) \/ Denied(d, p) \/ Failed(d, p) \/ Lost(d, p)
    \/ LogoutSend(d, p) \/ LogoutClear(d, p) \/ LogoutDone(d, p)

UserStep(u) == PasswordUpdate(u) \/ PasswordClear(u) \/ UserDeleted(u)

DevicesNext ==
    \/ \E d \in Devices, p \in Paths : RequestStep(d, p)
    \/ \E u \in Users : UserStep(u)
    \/ \E d \in Devices : Expires(d)

DevicesSpec == DevicesInit /\ [][DevicesNext]_deviceVars

---------------------------------------------------------------------------
AtRest(d) == \A p \in Paths : req[<<d, p>>].at = "idle"

\* An app that sends one request at a time and gets the replies holds the very
\* token the server accepts whenever it is at rest, unless the session was
\* ended: it is never refused because of its own refreshes.
InStep ==
    \A d \in Steady :
        AtRest(d) /\ held[d] # NoToken /\ accepted[d] # NoToken
        => held[d] = accepted[d]

\* A token that was accepted and is not any more never comes back: a refresh
\* that compared it before a logout, a password change or another refresh can
\* still replace the row, but only by a token nobody had.
RevokedForGood ==
    [][\A d \in Devices :
          accepted'[d] \notin {accepted[d], NoToken} => accepted'[d].n > issued]_deviceVars

\* The session of a removed user does not come back by a login or refresh that
\* had passed its check before.
DeletedStayOut ==
    \A d \in Devices : accepted[d] # NoToken => accepted[d].user \in users

---------------------------------------------------------------------------
\* server.go, handleRefresh: "invalid refresh session".  A token is refused for
\* sessions that are over.
RefusedMeansEnded ==
    \A d \in Devices, p \in Paths :
        req[<<d, p>>].at = "denied" => accepted[d] = NoToken

\* ApiClient.kt: refreshWithRetry.  A refresh that brought no reply can be tried
\* again with the token the app has.
RetryFindsToken ==
    \A d \in Devices :
        AtRest(d) /\ held[d] # NoToken /\ accepted[d] # NoToken
        => held[d] = accepted[d]

\* server.go, handleChangeOwnPassword: "relogin": true.  Once the change is
\* through, sessions descend from a login with the new password.
ChangeMeansRelogin ==
    \A d \in Devices :
        accepted[d] # NoToken =>
            \/ accepted[d].pw = password[accepted[d].user]
            \/ accepted[d].user \in changing

\* ApiClient.kt, refresh: "not logged in" is the answer when there is no
\* session; a session is only made by a login.
LoggedOutStays ==
    [][\A d \in Devices : held[d] = NoToken /\ held'[d] # NoToken =>
          \E p \in Paths : req[<<d, p>>].at = "loggedIn"]_deviceVars
=============================================================================
