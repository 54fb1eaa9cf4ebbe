----------------------- MODULE DeviceSessions_proofs -----------------------
(***************************************************************************)
(* Proofs about DeviceSessions for every set of users, devices and paths.  *)
(***************************************************************************)
EXTENDS DeviceSessions, TLAPS

USE DEF serverVars, Requests, Goes, Steps

---------------------------------------------------------------------------
(* Types.                                                                  *)

LEMMA DevicesTypeInit == DevicesInit => DevicesTypeOK
BY TokenBounds DEF DevicesInit, DevicesTypeOK, Idle

LEMMA ClearType ==
    ASSUME DevicesTypeOK, NEW u \in Users, ClearUser(u)
    PROVE  accepted' \in [Devices -> Tokens \cup {NoToken}]
BY DEF DevicesTypeOK, ClearUser

\* A request moves on: the type of the requests is kept.
LEMMA GoesType ==
    ASSUME DevicesTypeOK, NEW d \in Devices, NEW p \in Paths, NEW at \in Steps,
           NEW token \in Tokens \cup {NoToken}, Goes(<<d, p>>, at, token)
    PROVE  req' \in [Requests -> [at : Steps, token : Tokens \cup {NoToken}]]
BY DEF DevicesTypeOK

LEMMA NewTokenType ==
    ASSUME DevicesTypeOK, NEW d \in Devices, NEW p \in Paths, issued < MaxToken,
           req[<<d, p>>].token # NoToken
    PROVE  NewToken(<<d, p>>) \in Tokens
<1>1. req[<<d, p>>].token \in Tokens
  BY DEF DevicesTypeOK
<1>2. issued + 1 \in 0..MaxToken
  BY TokenBounds DEF DevicesTypeOK
<1> QED BY <1>1, <1>2 DEF NewToken, Tokens

\* A request that carries a token carries one.
CarriedOK ==
    \A r \in Requests :
        req[r].at \in {"sent", "login", "refresh", "loggedIn", "refreshed",
                       "leaving", "left"} => req[r].token # NoToken

TypedInv == DevicesTypeOK /\ CarriedOK

LEMMA RequestTyped ==
    ASSUME TypedInv, NEW d \in Devices, NEW p \in Paths, RequestStep(d, p)
    PROVE  TypedInv'
<1> USE DEF TypedInv
<1>0. req[<<d, p>>] \in [at : Steps, token : Tokens \cup {NoToken}]
  BY DEF DevicesTypeOK
<1>1. ASSUME NEW u \in Users, LoginCheck(d, p, u) PROVE TypedInv'
  <2> DEFINE base == [user |-> u, pw |-> password[u], n |-> 0]
  <2>1. base \in Tokens
    BY TokenBounds DEF DevicesTypeOK, Tokens
  <2>2. base # NoToken
    BY <2>1, NoTokenIsNone
  <2>3. req' \in [Requests -> [at : Steps, token : Tokens \cup {NoToken}]]
    BY <1>1, <2>1, GoesType DEF LoginCheck
  <2>4. DevicesTypeOK'
    BY <1>1, <2>3 DEF LoginCheck, DevicesTypeOK
  <2>5. CarriedOK'
    BY <1>1, <2>2 DEF LoginCheck, CarriedOK, DevicesTypeOK
  <2> QED BY <2>4, <2>5
<1>2. ASSUME RefreshSend(d, p) \/ LogoutSend(d, p) PROVE TypedInv'
  <2>1. held[d] \in Tokens \cup {NoToken} /\ held[d] # NoToken
    BY <1>2 DEF RefreshSend, LogoutSend, DevicesTypeOK
  <2>2. req' \in [Requests -> [at : Steps, token : Tokens \cup {NoToken}]]
    BY <1>2, <2>1, GoesType DEF RefreshSend, LogoutSend
  <2>3. DevicesTypeOK'
    BY <1>2, <2>2 DEF RefreshSend, LogoutSend, DevicesTypeOK
  <2>4. CarriedOK'
    <3>1. PICK at \in Steps : req' = [req EXCEPT ![<<d, p>>] = [at |-> at, token |-> held[d]]]
      BY <1>2 DEF RefreshSend, LogoutSend
    <3> QED BY <2>1, <3>1 DEF CarriedOK, DevicesTypeOK
  <2> QED BY <2>3, <2>4
<1>3. ASSUME RefreshCheck(d, p) PROVE TypedInv'
  <2>0. PICK at \in Steps : Goes(<<d, p>>, at, req[<<d, p>>].token)
    BY <1>3 DEF RefreshCheck
  <2>1. req' \in [Requests -> [at : Steps, token : Tokens \cup {NoToken}]]
    BY <1>0, <2>0, GoesType
  <2>2. DevicesTypeOK'
    BY <1>3, <2>1 DEF RefreshCheck, DevicesTypeOK
  <2>3. CarriedOK'
    BY <1>3 DEF RefreshCheck, CarriedOK, DevicesTypeOK
  <2> QED BY <2>2, <2>3
<1>4. ASSUME Issue(d, p) PROVE TypedInv'
  <2> DEFINE token == NewToken(<<d, p>>)
  <2>1. token \in Tokens /\ token # NoToken
    BY <1>4, NewTokenType, NoTokenIsNone DEF Issue, Passed, issueDeviceSession, CarriedOK
  <2> HIDE DEF token
  <2>2. issueDeviceSession(d, p, token) /\ issued' \in 0..MaxToken
    BY <1>4, TokenBounds DEF Issue, issueDeviceSession, DevicesTypeOK, token
  <2>3. req' \in [Requests -> [at : Steps, token : Tokens \cup {NoToken}]]
    BY <2>1, <2>2, GoesType DEF issueDeviceSession
  <2>4. DevicesTypeOK'
    BY <2>1, <2>2, <2>3 DEF issueDeviceSession, DevicesTypeOK
  <2>5. CarriedOK'
    BY <2>1, <2>2 DEF issueDeviceSession, CarriedOK, DevicesTypeOK
  <2> QED BY <2>4, <2>5
<1>5. ASSUME IssueFails(d, p) PROVE TypedInv'
  <2>1. PICK answer \in {"failed", "unread"} : Goes(<<d, p>>, answer, NoToken)
    BY <1>5 DEF IssueFails
  <2>2. req' \in [Requests -> [at : Steps, token : Tokens \cup {NoToken}]]
    BY <2>1, GoesType
  <2>3. DevicesTypeOK'
    BY <1>5, <2>2 DEF IssueFails, DevicesTypeOK
  <2>4. CarriedOK'
    BY <2>1 DEF CarriedOK, DevicesTypeOK
  <2> QED BY <2>3, <2>4
<1>6. ASSUME Goes(<<d, p>>, "idle", NoToken), UNCHANGED serverVars,
             held' \in [Devices -> Tokens \cup {NoToken}]
      PROVE  TypedInv'
  <2>1. req' \in [Requests -> [at : Steps, token : Tokens \cup {NoToken}]]
    BY <1>6, GoesType
  <2>2. CarriedOK'
    BY <1>6 DEF CarriedOK, DevicesTypeOK
  <2> QED BY <1>6, <2>1, <2>2 DEF DevicesTypeOK
<1>7. ASSUME Granted(d, p) \/ Denied(d, p) \/ LogoutDone(d, p) PROVE TypedInv'
  BY <1>0, <1>6, <1>7 DEF Granted, Denied, LogoutDone, DevicesTypeOK
<1>8. ASSUME Failed(d, p) \/ Lost(d, p) PROVE TypedInv'
  BY <1>6, <1>8 DEF Failed, Lost, DevicesTypeOK
<1>9. ASSUME LogoutClear(d, p) PROVE TypedInv'
  <2>1. req' \in [Requests -> [at : Steps, token : Tokens \cup {NoToken}]]
    BY <1>0, <1>9, GoesType DEF LogoutClear
  <2>2. DevicesTypeOK'
    BY <1>9, <2>1 DEF LogoutClear, DevicesTypeOK
  <2>3. CarriedOK'
    BY <1>9 DEF LogoutClear, CarriedOK, DevicesTypeOK
  <2> QED BY <2>2, <2>3
<1> QED
  BY <1>1, <1>2, <1>3, <1>4, <1>5, <1>7, <1>8, <1>9 DEF RequestStep

LEMMA UserTyped ==
    ASSUME TypedInv, NEW u \in Users, UserStep(u)
    PROVE  TypedInv'
<1> USE DEF TypedInv
<1>1. CASE PasswordUpdate(u)
  <2>1. password' \in [Users -> 0..MaxPassword]
    BY <1>1, TokenBounds DEF PasswordUpdate, DevicesTypeOK
  <2> QED BY <1>1, <2>1 DEF PasswordUpdate, DevicesTypeOK, CarriedOK
<1>2. CASE PasswordClear(u)
  BY <1>2, ClearType DEF PasswordClear, DevicesTypeOK, CarriedOK
<1>3. CASE UserDeleted(u)
  BY <1>3, ClearType DEF UserDeleted, DevicesTypeOK, CarriedOK
<1> QED BY <1>1, <1>2, <1>3 DEF UserStep

LEMMA DevicesTypeStep == TypedInv /\ [DevicesNext]_deviceVars => TypedInv'
<1> SUFFICES ASSUME TypedInv, [DevicesNext]_deviceVars PROVE TypedInv'
  OBVIOUS
<1>1. ASSUME NEW d \in Devices, Expires(d) PROVE TypedInv'
  BY <1>1 DEF Expires, TypedInv, DevicesTypeOK, CarriedOK
<1>2. CASE UNCHANGED deviceVars
  BY <1>2 DEF deviceVars, TypedInv, DevicesTypeOK, CarriedOK
<1> QED BY <1>1, <1>2, RequestTyped, UserTyped DEF DevicesNext

LEMMA TypedInit == DevicesInit => TypedInv
BY DevicesTypeInit DEF TypedInv, DevicesInit, CarriedOK, Idle

\* Every variable keeps its type.
THEOREM DevicesTyped == DevicesSpec => []DevicesTypeOK
<1>1. TypedInv => DevicesTypeOK
  BY DEF TypedInv
<1> QED BY <1>1, TypedInit, DevicesTypeStep, PTL DEF DevicesSpec

---------------------------------------------------------------------------
(* What is accepted.                                                       *)

\* Only Issue puts a token into a row.
LEMMA OnlyIssue ==
    ASSUME TypedInv, DevicesNext
    PROVE  \/ \A d \in Devices : accepted'[d] \in {accepted[d], NoToken}
           \/ \E d \in Devices, p \in Paths : Issue(d, p)
<1> USE DEF TypedInv, DevicesTypeOK
<1>1. ASSUME NEW d \in Devices, NEW p \in Paths, RequestStep(d, p), ~Issue(d, p)
      PROVE  \A e \in Devices : accepted'[e] \in {accepted[e], NoToken}
  <2>1. CASE LogoutClear(d, p)
    BY <2>1 DEF LogoutClear
  <2>2. CASE UNCHANGED accepted
    BY <2>2
  <2>3. ASSUME NEW u \in Users, LoginCheck(d, p, u) PROVE UNCHANGED accepted
    BY <2>3 DEF LoginCheck
  <2>4. RefreshSend(d, p) \/ RefreshCheck(d, p) \/ IssueFails(d, p) => UNCHANGED accepted
    BY DEF RefreshSend, RefreshCheck, IssueFails
  <2>5. Granted(d, p) \/ Denied(d, p) \/ Failed(d, p) \/ Lost(d, p) => UNCHANGED accepted
    BY DEF Granted, Denied, Failed, Lost
  <2>6. LogoutSend(d, p) \/ LogoutDone(d, p) => UNCHANGED accepted
    BY DEF LogoutSend, LogoutDone
  <2> QED BY <1>1, <2>1, <2>2, <2>3, <2>4, <2>5, <2>6 DEF RequestStep
<1>2. ASSUME NEW u \in Users, UserStep(u)
      PROVE  \A e \in Devices : accepted'[e] \in {accepted[e], NoToken}
  BY <1>2 DEF UserStep, PasswordUpdate, PasswordClear, UserDeleted, ClearUser
<1>3. ASSUME NEW d \in Devices, Expires(d)
      PROVE  \A e \in Devices : accepted'[e] \in {accepted[e], NoToken}
  BY <1>3 DEF Expires
<1> QED BY <1>1, <1>2, <1>3 DEF DevicesNext

\* A token that stopped being accepted never is again: what a refresh or a login
\* that had passed its check puts in its place is a token nobody had.
THEOREM TokensRevokedForGood == DevicesSpec => RevokedForGood
<1> DEFINE Fresh == \A d \in Devices :
                       accepted'[d] \notin {accepted[d], NoToken} => accepted'[d].n > issued
<1>1. TypedInv /\ [DevicesNext]_deviceVars => [Fresh]_deviceVars
  <2> SUFFICES ASSUME TypedInv, DevicesNext PROVE Fresh
    OBVIOUS
  <2>1. ASSUME NEW e \in Devices, NEW p \in Paths, Issue(e, p) PROVE Fresh
    <3>1. accepted' = [accepted EXCEPT ![e] = NewToken(<<e, p>>)]
      BY <2>1 DEF Issue, issueDeviceSession
    <3>2. req[<<e, p>>].token \in Tokens
      BY <2>1 DEF Issue, Passed, TypedInv, CarriedOK, DevicesTypeOK
    <3>3. NewToken(<<e, p>>).n = issued + 1
      BY <3>2 DEF NewToken, Tokens
    <3>4. issued \in Nat
      BY TokenBounds DEF TypedInv, DevicesTypeOK
    <3> QED BY <3>1, <3>3, <3>4 DEF TypedInv, DevicesTypeOK
  <2> QED BY <2>1, OnlyIssue
<1>2. TypedInv /\ [DevicesNext]_deviceVars => TypedInv'
  BY DevicesTypeStep
<1> QED BY <1>1, <1>2, TypedInit, PTL DEF DevicesSpec, RevokedForGood

LEMMA StayOutStep == TypedInv /\ DeletedStayOut /\ [DevicesNext]_deviceVars => DeletedStayOut'
<1> SUFFICES ASSUME TypedInv, DeletedStayOut, [DevicesNext]_deviceVars PROVE DeletedStayOut'
  OBVIOUS
<1> USE DEF DeletedStayOut
<1>1. ASSUME NEW u \in Users, UserDeleted(u) PROVE DeletedStayOut'
  BY <1>1 DEF UserDeleted, ClearUser, TypedInv, DevicesTypeOK
<1>2. ASSUME NEW d \in Devices, NEW p \in Paths, Issue(d, p) PROVE DeletedStayOut'
  <2>1. /\ accepted' = [accepted EXCEPT ![d] = NewToken(<<d, p>>)]
        /\ UNCHANGED users
        /\ req[<<d, p>>].token.user \in users
    BY <1>2 DEF Issue, issueDeviceSession
  <2>2. req[<<d, p>>].token \in Tokens
    BY <1>2 DEF Issue, Passed, TypedInv, CarriedOK, DevicesTypeOK
  <2>3. NewToken(<<d, p>>).user \in users
    BY <2>1, <2>2 DEF NewToken, Tokens
  <2> QED BY <2>1, <2>3 DEF TypedInv, DevicesTypeOK
<1>3. ASSUME UNCHANGED users, \A d \in Devices : accepted'[d] \in {accepted[d], NoToken}
      PROVE  DeletedStayOut'
  BY <1>3
<1>4. (\E u \in Users : UserDeleted(u)) \/ UNCHANGED users
  <2>1. ASSUME NEW d \in Devices, NEW p \in Paths, RequestStep(d, p) PROVE UNCHANGED users
    BY <2>1 DEF RequestStep, LoginCheck, RefreshSend, RefreshCheck, Issue,
       issueDeviceSession, IssueFails, Granted, Denied, Failed, Lost, LogoutSend,
       LogoutClear, LogoutDone
  <2> QED
    BY <2>1 DEF DevicesNext, UserStep, PasswordUpdate, PasswordClear, Expires, deviceVars
<1>5. CASE UNCHANGED deviceVars
  BY <1>5 DEF deviceVars
<1> QED BY <1>1, <1>2, <1>3, <1>4, <1>5, OnlyIssue

\* No device ever holds an accepted token of a user who has been removed.
THEOREM DeletedAlwaysOut == DevicesSpec => []DeletedStayOut
<1>1. DevicesInit => DeletedStayOut
  BY DEF DevicesInit, DeletedStayOut
<1> QED BY <1>1, TypedInit, DevicesTypeStep, StayOutStep, PTL DEF DevicesSpec

---------------------------------------------------------------------------
(* A steady app is in step with its row.                                   *)

Granting(d, p) == req[<<d, p>>].at \in {"loggedIn", "refreshed"}

\* One request at a time; a grant on its way is what the row holds, and without
\* one the app holds it, unless the row has been cleared.
SteadyOK(d) ==
    /\ \A p, q \in Paths :
          req[<<d, p>>].at # "idle" /\ req[<<d, q>>].at # "idle" => p = q
    /\ \A p \in Paths : Granting(d, p) => accepted[d] \in {NoToken, req[<<d, p>>].token}
    /\ (\A p \in Paths : ~Granting(d, p)) =>
          held[d] = NoToken \/ accepted[d] \in {NoToken, held[d]}

SteadyInv == \A d \in Steady : SteadyOK(d)

\* The server may clear the row at any time.
LEMMA SteadyFrame ==
    ASSUME NEW d \in Devices, SteadyOK(d), UNCHANGED held[d],
           \A p \in Paths : UNCHANGED req[<<d, p>>],
           accepted'[d] \in {accepted[d], NoToken}
    PROVE  SteadyOK(d)'
BY DEF SteadyOK, Granting

\* A request of d that grants nothing moves on.
LEMMA SteadyMove ==
    ASSUME TypedInv, NEW d \in Devices, SteadyOK(d), NEW p \in Paths, NEW c,
           req' = [req EXCEPT ![<<d, p>>] = c],
           ~Granting(d, p),
           c.at \notin {"loggedIn", "refreshed"},
           req[<<d, p>>].at # "idle" \/ \A q \in Paths : req[<<d, q>>].at = "idle",
           held'[d] \in {held[d], NoToken},
           accepted'[d] \in {accepted[d], NoToken}
    PROVE  SteadyOK(d)'
<1>1. /\ req'[<<d, p>>] = c
      /\ \A q \in Paths \ {p} : req'[<<d, q>>] = req[<<d, q>>]
  BY DEF TypedInv, DevicesTypeOK, Requests
<1>2. \A q \in Paths : Granting(d, q)' => q # p /\ Granting(d, q)
  BY <1>1 DEF Granting
<1>3. \A q \in Paths : Granting(d, q) => Granting(d, q)'
  BY <1>1 DEF Granting
<1>4. \A q, r \in Paths : req'[<<d, q>>].at # "idle" /\ req'[<<d, r>>].at # "idle" => q = r
  BY <1>1 DEF SteadyOK
<1>5. \A q \in Paths : Granting(d, q)' => accepted'[d] \in {NoToken, req'[<<d, q>>].token}
  BY <1>1, <1>2 DEF SteadyOK
<1>6. (\A q \in Paths : ~Granting(d, q)') => held'[d] = NoToken \/ accepted'[d] \in {NoToken, held'[d]}
  BY <1>3 DEF SteadyOK
<1> QED BY <1>4, <1>5, <1>6 DEF SteadyOK

\* A request touches itself and the row and the session of its own device.
LEMMA RequestTouches ==
    ASSUME TypedInv, NEW e \in Devices, NEW p \in Paths, RequestStep(e, p)
    PROVE  /\ \E c : req' = [req EXCEPT ![<<e, p>>] = c]
           /\ \A d \in Devices \ {e} : held'[d] = held[d] /\ accepted'[d] = accepted[d]
<1> DEFINE Moves == \E at, token : Goes(<<e, p>>, at, token)
           Stays == \A d \in Devices \ {e} : held'[d] = held[d] /\ accepted'[d] = accepted[d]
<1> USE DEF TypedInv, DevicesTypeOK, serverVars
<1>0. ASSUME NEW at, NEW token, Goes(<<e, p>>, at, token) PROVE \E c : req' = [req EXCEPT ![<<e, p>>] = c]
  <2>1. req' = [req EXCEPT ![<<e, p>>] = [at |-> at, token |-> token]]
    BY <1>0 DEF Goes
  <2> QED BY <2>1
<1>1. ASSUME NEW u \in Users, LoginCheck(e, p, u) PROVE Moves /\ Stays
  <2>1. Moves
    BY <1>1 DEF LoginCheck
  <2>2. Stays
    BY <1>1 DEF LoginCheck
  <2> QED BY <2>1, <2>2
<1>2. ASSUME RefreshSend(e, p) PROVE Moves /\ Stays
  <2>1. Moves
    BY <1>2 DEF RefreshSend
  <2>2. Stays
    BY <1>2 DEF RefreshSend
  <2> QED BY <2>1, <2>2
<1>3. ASSUME RefreshCheck(e, p) PROVE Moves /\ Stays
  <2>1. Moves
    BY <1>3 DEF RefreshCheck
  <2>2. Stays
    BY <1>3 DEF RefreshCheck
  <2> QED BY <2>1, <2>2
<1>4. ASSUME Issue(e, p) PROVE Moves /\ Stays
  <2>1. Moves
    BY <1>4 DEF Issue, issueDeviceSession
  <2>2. Stays
    BY <1>4 DEF Issue, issueDeviceSession
  <2> QED BY <2>1, <2>2
<1>5. ASSUME IssueFails(e, p) PROVE Moves /\ Stays
  <2>1. Moves
    BY <1>5 DEF IssueFails
  <2>2. Stays
    BY <1>5 DEF IssueFails
  <2> QED BY <2>1, <2>2
<1>6. ASSUME Granted(e, p) PROVE Moves /\ Stays
  <2>1. Moves
    BY <1>6 DEF Granted
  <2>2. Stays
    BY <1>6 DEF Granted
  <2> QED BY <2>1, <2>2
<1>7. ASSUME Denied(e, p) PROVE Moves /\ Stays
  <2>1. Moves
    BY <1>7 DEF Denied
  <2>2. Stays
    BY <1>7 DEF Denied
  <2> QED BY <2>1, <2>2
<1>8. ASSUME Failed(e, p) PROVE Moves /\ Stays
  <2>1. Moves
    BY <1>8 DEF Failed
  <2>2. Stays
    BY <1>8 DEF Failed
  <2> QED BY <2>1, <2>2
<1>9. ASSUME Lost(e, p) PROVE Moves /\ Stays
  <2>1. Moves
    BY <1>9 DEF Lost
  <2>2. Stays
    BY <1>9 DEF Lost
  <2> QED BY <2>1, <2>2
<1>10. ASSUME LogoutSend(e, p) PROVE Moves /\ Stays
  <2>1. Moves
    BY <1>10 DEF LogoutSend
  <2>2. Stays
    BY <1>10 DEF LogoutSend
  <2> QED BY <2>1, <2>2
<1>11. ASSUME LogoutClear(e, p) PROVE Moves /\ Stays
  <2>1. Moves
    BY <1>11 DEF LogoutClear
  <2>2. Stays
    BY <1>11 DEF LogoutClear
  <2> QED BY <2>1, <2>2
<1>12. ASSUME LogoutDone(e, p) PROVE Moves /\ Stays
  <2>1. Moves
    BY <1>12 DEF LogoutDone
  <2>2. Stays
    BY <1>12 DEF LogoutDone
  <2> QED BY <2>1, <2>2
<1>13. Moves /\ Stays
  <2> HIDE DEF Moves, Stays
  <2> QED BY <1>1, <1>2, <1>3, <1>4, <1>5, <1>6, <1>7, <1>8, <1>9,
             <1>10, <1>11, <1>12 DEF RequestStep
<1> QED BY <1>0, <1>13

LEMMA SteadyOthers ==
    ASSUME TypedInv, NEW d \in Devices, NEW e \in Devices, e # d, SteadyOK(d),
           NEW p \in Paths, RequestStep(e, p)
    PROVE  SteadyOK(d)'
<1>1. PICK c : req' = [req EXCEPT ![<<e, p>>] = c]
  BY RequestTouches
<1>2. \A q \in Paths : req'[<<d, q>>] = req[<<d, q>>]
  BY <1>1 DEF TypedInv, DevicesTypeOK, Requests
<1>3. held'[d] = held[d] /\ accepted'[d] = accepted[d]
  BY RequestTouches
<1> QED BY <1>2, <1>3, SteadyFrame

LEMMA SteadyIssue ==
    ASSUME TypedInv, NEW d \in Devices, SteadyOK(d), NEW p \in Paths, Issue(d, p)
    PROVE  SteadyOK(d)'
<1> DEFINE token == NewToken(<<d, p>>)
           at == IF req[<<d, p>>].at = "login" THEN "loggedIn" ELSE "refreshed"
<1>1. /\ req' = [req EXCEPT ![<<d, p>>] = [at |-> at, token |-> token]]
      /\ accepted' = [accepted EXCEPT ![d] = token]
      /\ req[<<d, p>>].at # "idle"
  BY DEF Issue, Passed, issueDeviceSession, Goes
<1>2. /\ req'[<<d, p>>] = [at |-> at, token |-> token]
      /\ \A q \in Paths \ {p} : req'[<<d, q>>] = req[<<d, q>>]
      /\ accepted'[d] = token
  <2> HIDE DEF token, at
  <2> QED BY <1>1 DEF TypedInv, DevicesTypeOK, Requests
<1>3. \A q \in Paths \ {p} : req[<<d, q>>].at = "idle"
  BY <1>1 DEF SteadyOK
<1>4. req'[<<d, p>>].token = token /\ req'[<<d, p>>].at \in {"loggedIn", "refreshed"}
  BY <1>2
<1> HIDE DEF token, at
<1> QED BY <1>2, <1>3, <1>4 DEF SteadyOK, Granting

LEMMA SteadyGranted ==
    ASSUME TypedInv, NEW d \in Devices, SteadyOK(d), NEW p \in Paths, Granted(d, p)
    PROVE  SteadyOK(d)'
<1>1. /\ Granting(d, p)
      /\ held' = [held EXCEPT ![d] = req[<<d, p>>].token]
      /\ req' = [req EXCEPT ![<<d, p>>] = [at |-> "idle", token |-> NoToken]]
      /\ UNCHANGED accepted
  BY DEF Granted, Granting, Goes, serverVars
<1>2. /\ held'[d] = req[<<d, p>>].token
      /\ req'[<<d, p>>].at = "idle"
      /\ \A q \in Paths \ {p} : req'[<<d, q>>] = req[<<d, q>>]
  BY <1>1 DEF TypedInv, DevicesTypeOK, Requests
<1>3. \A q \in Paths \ {p} : req[<<d, q>>].at = "idle"
  BY <1>1 DEF SteadyOK, Granting
<1>4. accepted[d] \in {NoToken, held'[d]}
  BY <1>1, <1>2 DEF SteadyOK
<1> QED BY <1>1, <1>2, <1>3, <1>4 DEF SteadyOK, Granting

LEMMA SteadyOwn ==
    ASSUME TypedInv, NEW d \in Devices, d \in Steady, SteadyOK(d),
           NEW p \in Paths, RequestStep(d, p)
    PROVE  SteadyOK(d)'
<1> DEFINE From == /\ ~Granting(d, p)
                   /\ req[<<d, p>>].at # "idle" \/ \A q \in Paths : req[<<d, q>>].at = "idle"
           Keep == held'[d] \in {held[d], NoToken} /\ accepted'[d] \in {accepted[d], NoToken}
           To(at) == \E token : Goes(<<d, p>>, at, token)
<1>0. ASSUME From, Keep, NEW at, at \notin {"loggedIn", "refreshed"}, To(at) PROVE SteadyOK(d)'
  <2>1. PICK token : Goes(<<d, p>>, at, token)
    BY <1>0
  <2>2. req' = [req EXCEPT ![<<d, p>>] = [at |-> at, token |-> token]]
    BY <2>1 DEF Goes
  <2> QED BY <1>0, <2>1, <2>2, SteadyMove
<1> USE DEF TypedInv, DevicesTypeOK, serverVars
<1>1. ASSUME NEW u \in Users, LoginCheck(d, p, u) PROVE SteadyOK(d)'
  <2>1. From
    BY <1>1 DEF LoginCheck, Free, Granting
  <2>2. Keep
    BY <1>1 DEF LoginCheck
  <2>3. To("login")
    BY <1>1 DEF LoginCheck
  <2> HIDE DEF From, Keep, To
  <2> QED BY <2>1, <2>2, <2>3, <1>0
<1>4. CASE Issue(d, p)
  BY <1>4, SteadyIssue
<1>6. CASE Granted(d, p)
  BY <1>6, SteadyGranted
<1>2. CASE RefreshSend(d, p)
  <2>1. From
    BY <1>2 DEF RefreshSend, Free, Granting
  <2>2. Keep
    BY <1>2 DEF RefreshSend
  <2>3. To("sent")
    BY <1>2 DEF RefreshSend
  <2> HIDE DEF From, Keep, To
  <2> QED BY <2>1, <2>2, <2>3, <1>0
<1>3. CASE RefreshCheck(d, p)
  <2>1. From
    BY <1>3 DEF RefreshCheck, Granting
  <2>2. Keep
    BY <1>3 DEF RefreshCheck
  <2>3. To("refresh") \/ To("denied") \/ To("unread")
    BY <1>3 DEF RefreshCheck
  <2> HIDE DEF From, Keep, To
  <2> QED BY <2>1, <2>2, <2>3, <1>0
<1>5. CASE IssueFails(d, p)
  <2>1. From
    BY <1>5 DEF IssueFails, Passed, Granting
  <2>2. Keep
    BY <1>5 DEF IssueFails
  <2>3. To("failed") \/ To("unread")
    BY <1>5 DEF IssueFails
  <2> HIDE DEF From, Keep, To
  <2> QED BY <2>1, <2>2, <2>3, <1>0
<1>7. CASE Denied(d, p)
  <2>1. From
    BY <1>7 DEF Denied, Granting
  <2>2. Keep
    BY <1>7 DEF Denied
  <2>3. To("idle")
    BY <1>7 DEF Denied
  <2> HIDE DEF From, Keep, To
  <2> QED BY <2>1, <2>2, <2>3, <1>0
<1>8. CASE Failed(d, p)
  <2>1. From
    BY <1>8 DEF Failed, Granting
  <2>2. Keep
    BY <1>8 DEF Failed
  <2>3. To("idle")
    BY <1>8 DEF Failed
  <2> HIDE DEF From, Keep, To
  <2> QED BY <2>1, <2>2, <2>3, <1>0
<1>9. CASE Lost(d, p)
  <2>1. From
    BY <1>9 DEF Lost, Granting
  <2>2. Keep
    BY <1>9 DEF Lost
  <2>3. To("idle")
    BY <1>9 DEF Lost
  <2> HIDE DEF From, Keep, To
  <2> QED BY <2>1, <2>2, <2>3, <1>0
<1>10. CASE LogoutSend(d, p)
  <2>1. From
    BY <1>10 DEF LogoutSend, Free, Granting
  <2>2. Keep
    BY <1>10 DEF LogoutSend
  <2>3. To("leaving")
    BY <1>10 DEF LogoutSend
  <2> HIDE DEF From, Keep, To
  <2> QED BY <2>1, <2>2, <2>3, <1>0
<1>11. CASE LogoutClear(d, p)
  <2>1. From
    BY <1>11 DEF LogoutClear, Granting
  <2>2. Keep
    BY <1>11 DEF LogoutClear
  <2>3. To("left")
    BY <1>11 DEF LogoutClear
  <2> HIDE DEF From, Keep, To
  <2> QED BY <2>1, <2>2, <2>3, <1>0
<1>12. CASE LogoutDone(d, p)
  <2>1. From
    BY <1>12 DEF LogoutDone, Granting
  <2>2. Keep
    BY <1>12 DEF LogoutDone
  <2>3. To("idle")
    BY <1>12 DEF LogoutDone
  <2> HIDE DEF From, Keep, To
  <2> QED BY <2>1, <2>2, <2>3, <1>0
<1> QED
  BY <1>1, <1>2, <1>3, <1>4, <1>5, <1>6, <1>7, <1>8, <1>9, <1>10, <1>11, <1>12 DEF RequestStep

LEMMA SteadyStep == TypedInv /\ SteadyInv /\ [DevicesNext]_deviceVars => SteadyInv'
<1> SUFFICES ASSUME TypedInv, SteadyInv, [DevicesNext]_deviceVars, NEW d \in Steady
             PROVE  SteadyOK(d)'
  BY DEF SteadyInv
<1>d. d \in Devices /\ SteadyOK(d)
  BY SteadyDevices DEF SteadyInv
<1>0. ASSUME UNCHANGED <<held, req>>, accepted'[d] \in {accepted[d], NoToken}
      PROVE  SteadyOK(d)'
  BY <1>0, <1>d, SteadyFrame
<1>1. ASSUME NEW e \in Devices, NEW p \in Paths, RequestStep(e, p) PROVE SteadyOK(d)'
  BY <1>1, <1>d, SteadyOthers, SteadyOwn
<1>2. ASSUME NEW u \in Users, UserStep(u) PROVE SteadyOK(d)'
  <2>1. UNCHANGED <<held, req>> /\ accepted'[d] \in {accepted[d], NoToken}
    BY <1>2, <1>d DEF UserStep, PasswordUpdate, PasswordClear, UserDeleted, ClearUser
  <2> QED BY <2>1, <1>0
<1>3. ASSUME NEW e \in Devices, Expires(e) PROVE SteadyOK(d)'
  <2>1. UNCHANGED <<held, req>> /\ accepted'[d] \in {accepted[d], NoToken}
    BY <1>3, <1>d DEF Expires, TypedInv, DevicesTypeOK
  <2> QED BY <2>1, <1>0
<1>4. CASE UNCHANGED deviceVars
  <2>1. UNCHANGED <<held, req>> /\ accepted'[d] \in {accepted[d], NoToken}
    BY <1>4 DEF deviceVars, serverVars
  <2> QED BY <2>1, <1>0
<1> QED BY <1>1, <1>2, <1>3, <1>4 DEF DevicesNext

\* An app with one request at a time and no reply lost holds, at rest, the token
\* the server accepts, unless one of the two has been cleared.
THEOREM SteadyAlwaysInStep == DevicesSpec => []InStep
<1>1. DevicesInit => SteadyInv
  BY SteadyDevices DEF DevicesInit, SteadyInv, SteadyOK, Granting, Idle, Requests
<1>2. SteadyInv => InStep
  BY DEF SteadyInv, SteadyOK, InStep, Granting, AtRest
<1> QED BY <1>1, <1>2, TypedInit, DevicesTypeStep, SteadyStep, PTL DEF DevicesSpec
=============================================================================
