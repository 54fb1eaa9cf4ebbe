# CallFXO: TLA+ models, model checks and proofs

CallFXO is a PBX front end for FXO boxes. A Go server registers SIP gateways
(FXO boxes), bridges their calls to WebRTC clients, and tells browsers and
Android phones of inbound calls over WebSockets and push. This directory holds
TLA+ models of it, TLC configurations that check them on small instances, and
theorems that TLAPS checks for every value of the constants.

Source paths below are relative to the repository; `manager.go` is
`internal/call/manager.go`, `service.go` is `internal/sipx/service.go`,
`server.go` is `internal/web/server.go`, `store.go` is
`internal/store/store.go`, `CallController.kt` is the call controller of the
Android client, `ApiClient.kt` its HTTP client and `app.js` is `web/app.js`.

## 1. The system

| Component | State | Operations | Correct when |
|---|---|---|---|
| Call manager, sessions (`manager.go`) | `callsByID`, `callsBySIPID`, `callsByUser`; per session `UserID`, dialog, `closeOnce`; a row of `call_logs` | `StartCall`, `registerCall`, `unregisterCall`, `Hangup`, `close`, `onRemoteBye`, callbacks of the peer connection | the indexes agree; a user has one call and is busy only while it lasts; every log row is ended once; every call returns |
| Call manager, inbound (`manager.go`) | `incomingByID`; per invite `users`, `ended`, `connected`, a timer, a watcher goroutine | `onIncomingInvite`, `AcceptIncoming`, `RejectIncoming`, timer, watcher, `finishInbound`, `rejectWithResponse` | users hear once that a call stopped, never nothing; one accept wins; a connected call is not refused; the list shows what can still be answered |
| SIP service (`service.go`) | registrations (in the store), nonces, dialogs | `onRegister`, `onInvite`, `onBye`, `Invite`, DTMF | a box is called where, and heard from where, one REGISTER that knew its credentials said; a registration lasts as long as the box was told; nothing that expired stays |
| Store (`store.go`) | SQLite tables: users, boxes, registrations, permissions, devices, call logs, contacts | queries, some in transactions | cascades leave no orphan; one live token per device; rights are what was last asked for; pages leave no gap |
| Web server, signaling (`handleWS`) | per connection `current`; `wsClients` | dial, accept, reject, hangup, DTMF, recovery | a connection controls only calls of its user; every command comes to an end; a user with one connection has one call |
| Web server, notifications | `wsClients`, the pending list | `NotifyIncomingEvent`, `sendPendingIncoming`, push, `handleListIncomingCalls` | no client misses a ringing call or its end |
| Web server, box status | `boxState` | snapshot on connect, 2 second delta loop | a client ends up with the present status |
| Web server, sessions | access tokens, refresh tokens per device | login, refresh (rotation), logout, password change | a rotated token is not good again; a client that refreshes is not logged out |
| Android client | call state, incoming list, WebSocket, two refresh mutexes | dial, accept, end, sync, push payloads, reconnect | shows calls that ring, ends up without stale ones |
| Web client (`web/app.js`) | dialog, peer connection, WebSocket | dial, accept, clean up | the same |
| Bootstrap (`main.go`) | session secret, administrator | `config.Ensure`, `store.Open`, `ensureSessionSecret`, `bootstrapAdmin` | the secret stays over restarts; there is an administrator; a generated password is shown |

Components interact by calls with callbacks (`IncomingNotifier`,
`SignalCallbacks`, the two SIP handlers), by goroutines left behind
(the timer of an invite, the watcher of its dialog, one push per event,
`forwardSIPToWebRTC`), by shared maps under `m.mu`, `inv.mu`, `sess.mu` and
`wsMu`, and over the network (SIP, WebSocket, HTTP, push).

What is hard: locks are given up between a check and the write that depends on
it (`StartCall`, `AcceptIncoming`); one invite can be ended by five different
goroutines; `close` runs once, on whichever goroutine comes first, and an error
path waits for it; events leave the lock before they are sent; a client learns
of a call by four channels (pending list, announcement, push, a list it asks
for) that nothing orders; handlers and the SIP service use several SQL statements
for one decision; a refresh token is compared in one statement and replaced in
another; a start of the server can break off after any of its steps. `PROJECT.json` lists these hazards at their lines.

## 2. Modules

| Module | Models | Extends |
|---|---|---|
| `CallSessions` | sessions, indexes, dialogs, `close`, `onRemoteBye` | |
| `OutgoingCalls` | `StartCall` | `CallSessions` |
| `InboundInvites` | `onIncomingInvite`, `AcceptIncoming`, `RejectIncoming`, timer, watcher, `finishInbound` | `CallSessions` |
| `InviteLifecycle` | abstract: what an inbound call promises its users | |
| `SessionLifecycle` | abstract: what a call of `StartCall` or `AcceptIncoming` promises its caller | |
| `CallManager` | the composition, fairness, properties; `Promise == INSTANCE InviteLifecycle`, `Lifecycle == INSTANCE SessionLifecycle` | `OutgoingCalls`, `InboundInvites` |
| `IncomingNotify` | how clients are told of inbound calls, over the abstract life cycle | `InviteLifecycle` |
| `ManagerNotify` | the call manager and the notifications together; `Notify == INSTANCE IncomingNotify` over `events` and `incomingByID` | `CallManager` |
| `Signaling` | `handleWS`: the commands of a connection and its current call, over the abstract life cycle | `SessionLifecycle` |
| `DeviceSessions` | login, refresh, logout, password changes, removal of a user, and the app on each device | |
| `Registrations` | REGISTER, nonces, expiry and its clean-up, the look-ups of an INVITE and a dial | |
| `BoxStatus` | the 2 second poll, snapshot, list of connections, and the client's own requests | |
| `Permissions` | users, boxes, permissions, call logs: handlers over rows with foreign keys | |
| `Bootstrap` | `main` up to the listeners, over what is on disk, with crashes | |
| `CallLogPages` | paging through call logs | |
| `MCCallManager`, `MCSignaling`, `MCRegistrations` | symmetry set, connection owners and what REGISTERs come with, for TLC | their module |
| `CallManager_proofs` | theorems about the call manager alone and with the notifications | `ManagerNotify` |
| `IncomingNotify_proofs`, `Signaling_proofs`, `DeviceSessions_proofs`, `Registrations_proofs`, `BoxStatus_proofs`, `Bootstrap_proofs` | theorems | their module |
| `Store_proofs` | theorems | `Permissions`, `CallLogPages` |

The call manager meets its users through two abstractions. `CallManager`
implements `InviteLifecycle`, whose steps `IncomingNotify` takes as those of the
manager, and `SessionLifecycle`, whose steps `Signaling` takes. What is shown of
notifications and of the WebSocket handlers therefore holds over anything the
manager may do, as far as those abstractions tell. For the notifications that
link is closed: `ManagerNotify` puts `CallManager` in the place of the abstract
life cycle, and it is proved that the two together implement `IncomingNotify`
(section 5). The other modules share
tables of the store, each with the statements it uses; `Registrations` has the
rows `BoxStatus` polls (there a counter), `Permissions` has the query that says
who `IncomingNotify` tells.

### State and steps of the call manager

A member of `Sessions` is one call of `StartCall` or `AcceptIncoming` together
with the `CallSession` it makes; `phase` is the place of its goroutine. A member
of `Invites` is one inbound INVITE. A step is what a goroutine does between two
points at which it releases a lock, waits or calls out of the process.

| Code | Variables | Actions |
|---|---|---|
| `StartCall` | `phase`, `caller`, `target`, `callLog` | `DialCheck`, `DialRefused`, `DialNoMedia`, `DialMediaFails`, `DialInvite`, `DialAnswered`, `DialInviteFails`, `DialBadSDP`, `DialRegister`, `DialAbort` |
| `AcceptIncoming` | the same, `connected` | `AcceptLookup` ... `AcceptReturns`, with an action per error path |
| `CallSession.close` | `closing` | `close` (what `closeOnce` admits), `CloseUnregister`, `CloseFinish` |
| `registerCall`, `unregisterCall` | `callsByID`, `callsBySIPID`, `callsByUser` | inside the actions above |
| `onIncomingInvite` | `invUsers`, `listed`, `timer`, `watcher` | `InviteRefused`, `InviteArrives`, `InviteAnnounced` |
| the timer | `timer`, `expiring` | `TimerFires`, `TimerRejects`, `TimerFinishes` |
| the watcher | `watcher` | `WatchWakes`, `WatchFinishes` |
| `RejectIncoming` | `rejecting` | `RejectLookup`, `RejectRespond`, `RejectFinish` |
| `finishInbound` | `ended`, `finishing`, `stopReason` | `finishInbound` in its callers, then `FinishRemove`, `FinishTell`, `FinishClose` |
| sipgo (external) | `dialog` | `RemoteCancels`, `RespondFinal`, `AfterClose` |

`finishing` stands for the tail of `finishInbound` on the goroutine that set
`ended`; only one does, so one variable per invite is enough. `events` is the
history of what `emitIncomingEvent` handed over and `stopReason`, `canceled`
are recorded for the properties.

`Failing` names the statements on `call_logs` that may fail. Their errors are
thrown away in the code (`manager.go:183, 302, 554, 576, 710`): a call whose INSERT
failed goes on without a row (`none`), and one whose UPDATE failed leaves its row
as it was (`unended`), for good. `EndCallLog` is part of `CloseFinish`, and of
`DialNoMedia` and `AcceptNoMedia`, where `createWebRTCSide` gives up before there is
a session; a second one would leave the row `overwritten`. Error paths that call
`close` then return once no close of theirs is under way (`NotClosing`): after
`closeOnce` has let them through, or at once if they had not called it.

Simplifications: `UserID` and the
dialog of a session are set with the step that creates or binds it; a missing
public IP is one of the ways media can fail; the look-up of an invite and the
test that the user is free are one step in `AcceptLookup`, and so are `ReadBye`
and the look-up of the session in `RemoteBye`; whether sipgo drops or ends an
unanswered dialog that is closed, and whether it takes a second 200 OK, is left
open (both outcomes are explored); a BYE that fails is not told from one that
succeeds; the peer connection may fail at any time after it exists. Which
goroutine runs a `close` is not kept. `close` closes the peer connection, whose
callback calls `close` again; that this does not wait for itself inside `closeOnce`
rests on pion, which reports the closed connection on a goroutine of its own, and
is assumed of that library, not shown. `Quiescent`
is a stutter at rest that lets TLC look for deadlocks.

`Stage` and the mapping `Lifecycle` of `CallManager` read `SessionLifecycle` off
these variables: `stage` from `phase` (a session is `offered` once `UserID` is
set), `fall` from `closing`, `byUser` from `callsByUser`.

### State and steps of the notifications

`begun[i]` is the order in which `NotifyIncomingEvent` was called for a call,
`left` the connections each call has still to serve, `stream` and `read` what
was put on a connection and what the client has handled, `backlog` what
`sendPendingIncoming` has still to send, `pushed` and `flying` the pushes to a
phone, `sync` and `snapshot` its `syncIncomingSnapshot`, `shown` the calls a
client shows. `socket` follows `handleWS`: `added` to `wsClients`, pending list
read (`listed`), `serving`.

Simplifications: a device has one connection at a time; a `Send` that fails is
a connection that breaks, and takes with it what was not received; a phone has
one snapshot request at a time; users a call is not for are left out. Pushes may be
lost, delayed and reordered, and go to any phone. A browser shows one call at a
time and the next replaces it, as `showIncomingDialog` does.

A member of `Accepts` is one run of `AcceptIncoming`. `answer` says how far it is
with a call: it has set `connected` and owes the announcement (`due`), or has made
it (`out`). Several may answer the same call (`AnsweredOnce`, section 6), and one
that was under way when `finishInbound` ended the call still announces its answer,
after the stop; `Announce` takes them as they come, so that the properties hold
over every order in which `ringing`, `answered` and `stopped` are sent.

In `ManagerNotify` a session of the manager is such a run, `AnswerOf` reads
`answer` off its `phase`, `events` is `begun`, and a step that appends to `events`
serves the connections that are in `wsClients` at that moment (`ManagerStep`);
all other steps are the clients' (`ClientStep`). The goroutine that emitted an
event does not wait for its `Send`s in the model, so it may be further on than
in the code when a connection is served.

### State and steps of the WebSocket handlers

`conn` is the place of the goroutine of a connection: it reads one command,
waits in `StartCall` or `AcceptIncoming` (`calling`) or in `Hangup`
(`hangingUp`), and reads again. `job` is the call it waits for, `current` the
variable of that name, `origin` the connection whose callbacks a session has.

| Code | Actions |
|---|---|
| upgrade, `GetUserCall`, "call_recovered" | `Connect`, `Recover` |
| "dial", "incoming_accept" | `Dial`, `Accept`, then `Take` or `Report` when the manager returns |
| "hangup" | `Hangup`, `HungUp` |
| `OnHangup` of `signalCallbacksForClient` | `OnHangup`, the last step of a close |
| `ReadJSON` fails | `Disconnect` |

Simplifications: a connection is used once, a client that reconnects takes
another one of the same user; candidates and DTMF, which only use `current`, and
the messages sent back are left out; `incoming_reject` is in `InboundInvites`.

### State and steps of the refresh tokens

`accepted[d]` is the token whose hash is in the row of `user_devices`, `held[d]`
the one in the app's session store, `req` a request of each part of each app
(`Paths`: the call controller and the API client refresh under different
mutexes; those in `Controllers` never log in or out, as `autoReconnect` does not). A token knows the user and the password version of the login it
descends from. `LoginCheck`/`RefreshCheck` and `Issue` are the two statements of
a handler; `Granted`, `Denied`, `Failed` and `Lost` are what the app makes of the
reply. A refresh is `denied` for its token, and `unread` where a look-up failed or
found no user: the server answers 401 to all of these (`server.go:461-477`), so
that an error of the store logs the app out too. Then there are `LogoutSend`, `LogoutClear`, `LogoutDone`; `PasswordUpdate` and
`PasswordClear`; `UserDeleted`; `Expires`. Devices in `Steady` send one request
at a time and get every reply. Access tokens have no state of their own.

### State and steps of the registrar

`boxes`, `used` and `creds` are the rows of `fxo_boxes`, the ids given out and
the version of each box's credentials; `rows` is `fxo_registrations`; `nonces` is
known by expiry times; `register` and `call` are the requests under way, a call being
an INVITE or a dial, with what they have read. A `Binding` is what a row keeps of a
REGISTER: the host its contact names, if any, the source it came from and the
transport. The code never compares the first two; a dial goes to the contact
(`recipientForDial`), an INVITE must come from the source. `told`, `proven` and
`hasty` are histories: what the last OK said to a box, which bindings came with
REGISTERs that knew the credentials, and which boxes had two REGISTERs at once.

| Code | Actions |
|---|---|
| `replyAuthChallenge`, `storeNonce`, `validateNonce` | `Challenge`, `onRegister` |
| `onRegister` after the nonce | `Lookup`, `Refuse`, `Write`, `Erase`, `Answer` |
| `onInvite`, `matchInviteRegistration` | `InviteRead`, `Picked`, `matchInviteRegistration`, `InviteOver` |
| `StartCall`, `Service.Invite` | `GetFXOBoxByID`, `GetActiveRegistration`, `recipientForDial`, `DialOver` |
| `handleCreateFXO`, `handleUpdateFXO`, `handleDeleteFXO` | `CreateFXOBox`, `UpdateFXOBox`, `DeleteFXOBox` |
| `cleanupRegistrationsLoop`, `cleanupNoncesLoop` | `CleanupTick`, `CleanupDelete`, `CleanupFails`, `cleanupNoncesLoop` |

Simplifications: a nonce is not tied to a box or source, as in the code, and is
known until it expires; a host stands for an address with its port, which
`sameAddress` compares as text, and the other parts of a URI are left out; what a REGISTER asks for is a lifetime that was
parsed, and what the OK "said" is that lifetime, for the code sends no Expires.
`Sent` bounds what a REGISTER may come with; no REGISTER comes with more than one
contact. `matchInviteRegistration` picks a row by address and name, and only then
is its transport compared (`service.go:329`): an INVITE is refused though another
box at the address may have the right transport.

### State and steps of the box status

`online` and `inUse` count the changes of each; odd means true, and only that can
be seen. `poll`, `boxState` and `announced` belong to `boxStatusLoop` (`PollRead`,
`PollCompare`, `Announce`, `PollDone`), `conn` and `inbox` to a connection
(`addWSClient`, `sendBoxSnapshot`, `removeWSClient`), `fetch` and `view` to the
client, which on every message asks for the list of boxes (`refreshBoxes`,
`FetchRows`, `FetchInUse`, `FetchShown`, `FetchFails`). The contents of the
messages are left out: the web client throws them away and asks. Clients in
`Orderly` have requests that do not overlap, nor fail once the snapshot has been
sent.

### State and steps of the permissions

Rows of `users`, `fxo_boxes`, `user_fxo_permissions` and `call_logs` with the
cascades of their foreign keys. `SetPermissionAsked`, `SetPermissionUser`,
`SetPermissionBox` and `SetUserFXOPermission` are one `handleSetFXOPermission`;
`SetUserNotifyPreference` is a statement of its own; `UpdateFXORead` and
`UpdateFXOBox` are `handleUpdateFXO`; `DialAllowed`, `DialFindsBox`,
`CreateCallLog`, `EndCallLog` are what a dial does to these tables. `grants` and
`wishes` are histories of what was last asked for; `persons` counts how many
people an id was given to. Users are administrators or not for good.

### State and steps of the bootstrap

`config`, `database`, `secretRow` and `accounts` are on disk and survive; `proc`
is `main` with its local variables. One action per step: `Ensure`, `isFreshDB`,
`Open`, `Migrate`, `GetSetting`, `DrawSecret`, `UpsertSetting`, `FindAdmin`,
`CountAdmins`, `CreateConfigured` or `CreateGenerated`, `LogPassword`, `Serve`;
`Fails` at any of them, `Killed` anywhere; while it serves, accounts are made,
removed and given passwords. `BootInit` is an empty disk, or a database of
another server with any accounts.

### State and steps of the pages

`rows` are the ids of a user's call logs; `get` is the request under way, which
counts (`Count`) and selects (`Select`) in two statements; `page` and `total` are
what `app.js` shows. `wanted` and `seen` are histories of a walk that begins with
`FirstPage`, `removed` says whether a removal has disturbed it, `torn` that the
last answer's count is not that of its rows.

## 3. Runs

| Run | Instance | Properties | States |
|---|---|---|---|
| `mixed` | 1 user, 2 sessions, 1 invite; the user dials, answers and declines; an UPDATE may fail | `TypeOK`, `RegistryCoherent`, `StoppedOnce`, `NoSilentDrop`, `NoTimeoutOnceClaimed`, `CallLogSettled`, `ConnectedNotRejected` | 6.2 million |
| `promise` | 2 users, 1 session, 1 invite, one dials, both decline, an INSERT may fail, fairness | `KeepsPromise`, `KeepsLifecycle` | 657 thousand |
| `notify` | 1 phone, 1 call, 2 connects | `NotifyTypeOK`, `RingReachesAll`, `EndReachesAll`, `NeverListedAgain` | 908 thousand |
| `signaling` | 2 users, one with 2 connections, 2 sessions, fairness | `SignalTypeOK`, `CurrentIsOwn`, `SoloOneCall`, `CommandReturns` | 83 thousand |
| `sessions` | 1 user, a steady and an unsteady device with a UI and a controller each, 3 tokens, 1 password change | `DevicesTypeOK`, `InStep`, `DeletedStayOut`, `RevokedForGood` | 876 thousand |
| `registrar` | `MCRegistrations`: 1 box, 2 hosts, 2 transports, 2 REGISTERs and a call at a time, fairness | `RegTypeOK`, `OnlyProven`, `RowsHaveBoxes`, `RegisteredStays`, `CleanupSparesActive`, `ExpiredGoes` | 1.2 million |
| `box_status` | 1 box, 1 client, 2 changes of each flag, fairness | `BoxStatusTypeOK`, `ShowsAnnounced`, `PollCatchesUp`, `AnnouncedIsShown` | 370 thousand |
| `permissions` | an administrator and a user, 1 box, a setting, an edit and a dial | `PermTypeOK`, `RightsAsAsked`, `NoOrphans` | 1.2 million |
| `bootstrap` | 2 names, 4 random tokens, 2 changes of accounts | `BootTypeOK`, `SignsWithStored`, `AdminAtStart` | 7 thousand |
| `pages` | page size 2, 6 rows, fairness | `NoGap`, `GetReturns` | 753 thousand |
| `busy_without_call`, `two_refreshes` | smallest that shows it | a violation each, section 6 | |

Why these bounds.

* Call manager: a race is between two attempts, or between an attempt and the
  goroutines of one invite; two sessions and one invite contain every such pair,
  and a user who does both has them meet in `callsByUser`. Invites share nothing
  but the indexes, which are keyed by Call-ID, so a second one adds only what a
  second session adds already. `promise` has two users for the invite that is
  over when all have declined; a single session is enough there because the steps
  it must not block are those of the invite's own goroutines.
* Notifications of different calls are independent, each event being sent for one
  call, and so are devices; two connects are what it takes to meet an announcement
  with a connection that replaced another. A phone does what a browser does and
  also pushes and lists. `MaxConnects` bounds `Connect`.
* `signaling`: two connections of one user meet in `callsByUser`, the user with
  one connection is the one `SoloOneCall` is about; a second session is a second
  call of any of them. Sessions and connections are used once, which bounds it.
* `sessions`: `MaxToken` bounds `Issue` and `MaxPassword` bounds `PasswordUpdate`;
  three tokens are a login and two rotations, enough for a request to find its
  token replaced twice.
* `registrar`: two REGISTERs of a box, one of which comes from `a1` and names `a2` and
  the other comes from `a2` and names no host, differ in source, contact and
  transport, so that a row that mixed two of them would be told from both; calls
  do not meet but in the rows they read, so one at a time is enough. With `MaxTime` 1 and lifetimes 0 and 1 a registration is made,
  renewed, taken back and expires, and a clean-up deletes with a clock read a tick
  before; a nonce is good for the tick it was made in (`NonceLife` 0) and expired
  in the next. `MaxChange` bounds the changes of credentials, `MaxNonces` the
  nonces there are at a time.
* `box_status`: two changes of each flag are the least with which a state comes
  back that has been announced before, and the mixed read of the two flags sees a
  state that never was. `MaxChange` bounds them.
* `permissions`: rows of different users and boxes share nothing but the cascades.
  `MaxSecret` bounds the passwords given to boxes.
* `bootstrap`: four tokens are a secret and a password drawn twice each, the first
  time in a start that was killed. `MaxToken` and `MaxChange` bound the draws and
  the changes.
* `pages`: three pages of two, so that there is a page that is neither first nor
  last. `MaxCalls` bounds `CallBegins`.

Two more configurations are run by hand. `notify_twice.cfg` (module
`IncomingNotify`) has two accepts of one call and a browser that connects twice:
98 thousand states, with the properties of `notify`. `composed.cfg` (module
`ManagerNotify`) has a user who answers once and a browser that connects once:
409 thousand states, on which `ImplementsNotify`, `NoRingLost`, `NoEndLost` and
`NoStaleList` hold. It is small because every step of the manager is there; the
theorems about `Composed` are for any number of users, sessions, calls and
devices.

The theorems of section 5 remove these bounds for the invariants and the action
properties of all runs.

Symmetry (of sessions) is used in `mixed` only, which has no liveness property.
`CHECK_DEADLOCK FALSE` is in the configurations of the modules that do stop when
their bounded supply is used up: connects, tokens, time and ids, changes, calls.
`mixed`, `promise`, `signaling` and `bootstrap` check for deadlock; `Quiescent`
and `SignalQuiet` are stutters at rest that make that possible.

## 4. Fairness

* `promise`: each goroutine that can take a step takes it: the attempts, the run of
  `close`, the timer, the watcher, the tail of `finishInbound`. The Go scheduler
  and `time.AfterFunc` justify that, and that calls out of the process return:
  `StartCall` and `AcceptIncoming` run under a context with a time limit set by
  their handlers, `close` gives the BYE four seconds. Users and remotes owe
  nothing: no fairness on dialing, accepting, declining, CANCEL or BYE. Liveness
  therefore rests on the timer: a call nobody touches ends because it fires.
* `signaling`: calls of the manager return and closes run to their end, which is
  what `KeepsLifecycle` shows of `CallManager`; a handler that can go on does.
  Clients owe nothing, and a call that is up may stay up.
* `registrar`: both tickers go on, and a DELETE that is tried again and again does
  not fail every time (`SF` on `CleanupDelete`). Nothing is assumed of boxes.
* `box_status`: the ticker goes on and the snapshot is sent; a client that is
  told again and again comes to ask (`SF` on `refreshBoxes`, which waits for the
  request before), and a request that was sent is answered.
* `pages`: a request that was sent is answered and shown. Nothing is assumed of
  the user, of calls or of removals, of which there are finitely many rows to
  remove.

## 5. Proofs

The assumptions are those the modules name: `Sessions` and `Invites` are
disjoint and the null values are no members (`NamesAreDistinct` and its like),
dialers and decliners are users, phones are devices, `Owner` is a function into
the users, ids of boxes, lifetimes and bounds are natural numbers, and the values
for "no row", "no number" and "gone" are none of those they stand in for
(`NoneIsNoRow`, `NoneIsNoValue`, `NullsAreNoPairs`). None of the sets need be
finite.

* `TypeCorrect`: `TypeOK` is not inductive, since an attempt that answers must
  know which invite it is about. `TypeInv` adds `AttemptOK`: an attempt in a
  phase of `AcceptIncoming` has an invite as target, one in a phase of
  `StartCall` its own Call-ID.
* `RegistryAlwaysCoherent` by `RegistryInv`, which adds `BoundOK`: a session that
  was given to `registerCall` has its dialog and its user set, so that
  `unregisterCall` finds the entries by the keys they were made with.
* `LogsAlwaysSettled` by `LogInv`, whichever statements fail: an attempt that has not
  begun its media has no row and an unused `closeOnce`; one that gave up without a
  session has asked to end its row and never comes to have a session to close;
  otherwise the row is as it was until the one `close` has asked, and an attempt
  that has failed has no close under way. So no row is ended twice, or given up
  before it was asked to end. That it then does end is not so where the UPDATE fails.
* `StoppedAtMostOnce` by `StopInv`: `ended` is set exactly when `finishing` has
  begun, no stop is announced before `finishing` is `told` and never two, and a
  call is off the list from `removed` on. Only the step that sets `ended` starts
  `finishing`, and `finishInbound` refuses to set it twice.
* `NeverSilentlyDropped` by `ReportedInv`, over the phases between leaving the
  list and the event.
* `ClaimStopsTimer`: a timer once stopped or fired is not armed again
  (`TimerNotRearmed`), and claiming stops it.
* `NeverRefusedOnceConnected`, an action property, from `AnsweredInv`: the phases
  before `connected` are left for good, and `rejectWithResponse` respects the flag.
* `InvitesKeepPromise`: `Safety => Promise!LifeSafety` under the mapping
  `life <- Life`, `offered <- listed`, `told <- ` the invites with a stop event.
  From `PromiseInv`, each step of the manager is one step of `InviteLifecycle` or
  a stutter.
* `ManagerImplementsNotify`: `Composed => Notify!NotifySpec`. `PromiseInv` gives the
  steps of the life cycle. `AnnounceInv` relates `events` to the goroutines that
  write them: no ringing event is there before the watcher is started, which
  `InviteAnnounced` does once, and a call an accept is about to announce as answered
  is off the list.
  `LeftInv` keeps one set of connections per event. Each step of the manager then
  emits nothing, and is a step of the life cycle or a stutter (`QuietStep`,
  `AnswersStep`), or it emits one event and is `RingsOut`, `AnswerOut` or `StopOut`
  of one call (`RingsOutStep`, `AnswerOutStep`, `StopOutStep`); each step of a
  client is the client's own.
* `NoRingEverLost`, `NoEndEverLost`, `NoListEverStale`: the three theorems of
  `IncomingNotify_proofs`, instantiated with the manager's variables, and the
  refinement. That `Phones \subseteq Devices` and `MaxConnects \in Nat`, assumed
  there of the constants, are hypotheses here.
* `NoRingMissed` by `RingInv`: a connection whose pending list was read and that
  was not sent a ringing call has it still to come, from the list or from the
  announcement. The two cases overlap because a connection is added to
  `wsClients` before the list is read, and a call is listed before it is
  announced.
* `NoEndMissed`, `ListsNeverStale` by `EndInv`: a call whose answer or end was
  announced is off the list for good, and every connection that has, or is about
  to be sent, the call is served that announcement (`OverInv`, `DownInv`,
  `HeardInv`). It does not matter which announcement was first, or how often the
  answer is announced.
* `NotifyTyped`: as it stands, with the types of sequences spelled out.
* `ManagerKeepsLifecycle`: `Safety => Lifecycle!LifecycleSafety`. From `LifeInv`:
  `UserID` is set exactly when the caller's WebRTC side exists, nobody closes a
  session before that, and a call that has failed has no close under way. Each
  step of the manager is then one of `SessionLifecycle` or a stutter.
* `SignalingTypeCorrect`, `CurrentAlwaysOwn` by `HandlerInv`: the goroutine that
  waits for a call, the call and the connection its callbacks belong to fit
  together, and what is in `callsByUser` or is current was registered for that
  user. The type invariant needs it too: `Take` uses `job`, `OnHangup` uses
  `origin`.
* `SoloAlwaysOneCall` by `SoloInv`: where a user has one connection, a call that is
  up and not yet unregistered is the one in `callsByUser`, and no other call of
  the user is on its way; so `Begin` waits for it.
* `DevicesTyped` with `CarriedOK` (a request past its start carries a token);
  `TokensRevokedForGood`: only `Issue` puts a token into a row (`OnlyIssue`), and
  its number has never been given out; `DeletedAlwaysOut`: the foreign key of
  `user_devices` is what stops a refresh that has passed its check.
* `SteadyAlwaysInStep` by `SteadyInv`: one request at a time, and a grant on its way
  is what the row holds.
* `RegistrarTyped`; `RowsAlwaysHaveBoxes` and `AlwaysProven` by `ProvenInv`: what a
  row, a REGISTER about to write and a call that has read a row say is the binding
  of one REGISTER that knew the credentials. `AlwaysProven` is about where a row's
  contact and source come from; that who is at the contact has proved anything is
  not so, since a REGISTER may name any host.
* `CleanupAlwaysSpares` by `TickInv`: the clock the loop has read is not ahead.
* `WaitingBoxStays` by `StayInv`: a box that has always waited for its answers (it is
  not `hasty`) has one REGISTER at most, and what an
  OK said, or will say, is in the row for as long as it is of any use.
* `StatusTyped`; `AnnouncedIsShownAtRest` by `BoxStatusInv`. `ShowsAnnounced` speaks
  of clients at rest only, so the invariant says what holds on the way there: to
  each orderly client that has its snapshot, a message is on its way, or a request
  is, and what that has read so far is as new as what was announced (`InTime`), or
  it shows it already. It needs that the loop never announces what is not yet so
  (`LoopInPast`), that such a client stays on the list, and that its requests do
  not overlap.
* `PermissionsTyped`; `NothingOutlives` by `OrphanInv`: ids are never given out
  twice, so that a dial under way while its user is removed still belongs to that
  person. `RightsAlwaysAsAsked` by `RightsInv`: a permission row is column by column
  what was last granted and last wished, one that is not there is as if nothing had
  been asked, and that is so of every id before it is given out.
* `PagesLeaveNoGap` by `WalkInv`: the rows up to a page are shown when the page after
  it is asked for, and an answer on its way has what is missing up to its own page.
  Rows only sink while none is removed, so that an answer that is read late has all
  the same rows, and perhaps more of those already shown.
* `BootTyped`, `AdminWhenReady` and `SecretOutlastsRestarts` by `BootInv`: from asking
  for the secret to storing it there is none on disk, afterwards `main` has the one
  on disk; the account just made is an administrator's and its password, if
  generated, a token.

The proofs of a module are laid out alike: lemmas about the records of its state,
the initial states, one lemma or one named step per action and part of the
invariant, and at the end the theorems, by PTL. The inductive invariants were
checked with TLC on the instances of section 3 before they were proved.

Only model-checked: what `KeepsPromise` and `KeepsLifecycle` say of fairness,
`CommandReturns`, `ExpiredGoes`, `PollCatchesUp`,
`AnnouncedIsShown` and `GetReturns`, since liveness under fairness is out of the
prover's reach.

## 6. Where the source disagrees with itself

Each of the following states what a text of the repository says, in the module
that models the code, and TLC refutes it with the configuration named. Two of
them, `BusyMeansActive` and `RefusedMeansEnded`, are among the runs of
`PROJECT.json`; the others are run by hand, `tlc -config two_calls.cfg
MCCallManager` and so on.

* `NoFalseRemoteCancel` (`false_cancel.cfg`, module `MCCallManager`). onInvite
  says (src/internal/sipx/service.go:346-351) that it blocks until the dialog
  ends because otherwise the dialog context is canceled, which "causes a false
  "remote canceled" event". The final response rejectWithResponse sends
  (manager.go:809) ends the dialog as well, before its caller reaches
  finishInbound: the watcher (manager.go:455-464) then sees neither ended nor
  connected and finishes the invite as "remote canceled" although it was a
  time-out, a decline or a failed accept.
* `AnsweredOnce` (`answered_twice.cfg`, module `MCCallManager`). AcceptIncoming
  refuses a second accept with "incoming call already answered"
  (src/internal/call/manager.go:292), but it tests connected, which is set only
  at line 341 after the WebRTC side is built and RespondSDP has returned. A
  second user who asks in between passes the test; where sipgo accepts the
  second 200 OK both get a session on the same dialog, and callsBySIPID keeps
  only the later one. Where it refuses, the loser's finishInbound announces the
  call as stopped and closes the winner's dialog.
* `OneCallPerUser` (`two_calls.cfg`, module `MCCallManager`). StartCall refuses
  with "user already has an active call" (src/internal/call/manager.go:165), but
  it looks at callsByUser, which is written only at line 223 after the INVITE
  was answered. Two dials of one user from two devices both pass and are both
  registered; callsByUser keeps the later one, and unregisterCall of either
  removes it.
* `BusyMeansActive` (`busy_without_call.cfg`, module `MCCallManager`). "user
  already has an active call" (src/internal/call/manager.go:165) is answered on
  the strength of callsByUser. If the peer connection fails while StartCall
  waits for the box (manager.go:603), close runs to its end first and
  registerCall then enters the closed session; closeOnce is spent, so no
  hang-up, BYE or failure ever takes it out and the user can neither dial nor
  answer until the process restarts. The INVITE is not followed by a BYE either,
  since dialogClient was not set when close ran. The window is as long as the
  box rings, bounded only by the 30 seconds the handler allows
  (src/internal/web/server.go:1101). It is open to whatever makes a peer
  connection that has its remote offer, but not yet the peer's candidates, fail
  or close; a browser that gets the answer only after StartCall has returned
  (server.go:1109-1110) seldom meets it.
* `PushSurvivesSync` (`push_wiped.cfg`, module `IncomingNotify`).
  CallController.kt:299 says "syncIncomingSnapshot in the background shouldn't
  automatically wipe local Push events" and leaves it out of handlePushPayload.
  onOpen starts it in the background all the same (line 411), and its answer
  replaces the whole list (line 362): a call that begins to ring after the
  server has read its list and that the phone learns of, by push and by message,
  before the answer arrives is wiped although it still rings, and nothing tells
  the phone of it again before the next connect.
* `CurrentIsLive` (`stale_current.cfg`, module `MCSignaling`). A dial is refused
  with "a call is already active" (src/internal/web/server.go:1084) when current
  holds a call. StartCall registers the session and returns it; a BYE or a
  failing peer connection may close it before line 1109, OnHangup then clears
  current first (server.go:1182) and setCurrent(sess) puts the closed session
  back. Nothing clears it but a hang-up by the client, and every dial is refused
  until then.
* `RecoveredIsLive` (`stale_recovered.cfg`, module `MCSignaling`). A connection
  that opens while its user has a call takes it as current and says
  "call_recovered" (src/internal/web/server.go:1073), but OnHangup goes to the
  connection that began the call (server.go:1102, 1182). When the call ends the
  recovered connection is neither told nor cleared, and refuses a dial with "a
  call is already active" (server.go:1084).
* `OriginHoldsCall` (`lost_current.cfg`, module `MCSignaling`). "dtmf" is
  refused with "no active call" (src/internal/web/server.go:1148) when current
  is nil. close takes the user's entry out of callsByUser before it calls
  OnHangup (src/internal/call/manager.go:708-713), so the next call of the same
  connection can be answered in between (incoming_accept does not look at
  current), and OnHangup of the first then clears current, whatever it holds:
  the second call is up and the connection can neither send digits nor hang it
  up.
* `RefusedMeansEnded` (`two_refreshes.cfg`, module `DeviceSessions`).
  handleRefresh answers "invalid refresh session"
  (src/internal/web/server.go:469) to a token whose hash is not the stored one.
  The comparison and the upsert that replaces the hash (server.go:479) are
  separate, and the call controller, when it reconnects, and the API client
  refresh under two different mutexes (CallController.kt:477-486,
  ApiClient.kt:219). Of two refreshes with one token, sent after one login, the
  later one is refused although the session is good, and the 401 makes the app
  clear it (ApiClient.kt:200).
* `RetryFindsToken` (`lost_reply.cfg`, module `DeviceSessions`).
  refreshWithRetry
  (src/android/app/src/main/java/li/power/app/callfxo/android/data/ApiClient.kt:219)
  tries a refresh again that failed without an answer. When the server has
  rotated the token and only the answer was lost, the second attempt brings the
  old token, gets "invalid refresh session" (src/internal/web/server.go:469) and
  the app logs out: the retry turns a lost packet into a lost session.
* `ChangeMeansRelogin` (`relogin.cfg`, module `DeviceSessions`). A password
  change is answered with "relogin": true (src/internal/web/server.go:664) after
  ClearUserDeviceAuthByUserID. A login that compared the old password, or a
  refresh that compared its token, before the change upserts its hash after it
  (server.go:414, 479): a session made with the old password goes on for the
  refresh lifetime.
* `LoggedOutStays` (`logged_out.cfg`, module `DeviceSessions`).
  ApiClient.refresh throws "not logged in"
  (src/android/app/src/main/java/li/power/app/callfxo/android/data/ApiClient.kt:185)
  without a session, but looks only before it sends. A logout that ends while
  the request is under way has cleared the session; line 206 falls back to the
  one read before, `getSession() ?: session`, and saves it again with the new
  token: the app is logged in again. Where the logout's access token had expired
  the server accepts that token as well.
* `UnregisteredIsOffline` (`unregister.cfg`, module `MCRegistrations`). REGISTER
  with Expires: 0 is answered 200 and logged as "FXO unregistered"
  (src/internal/sipx/service.go:280) even when DeleteRegistration fails (lines
  276-279); the row stays, and the box is shown online and dialled until it
  expires.
* `OfflineNotDialled` (`offline_dial.cfg`, module `MCRegistrations`). StartCall
  refuses with "fxo box is offline" (src/internal/call/manager.go:178) on the
  strength of a row it reads at line 175 and uses at line 206, after gathering
  ICE candidates: a box that unregisters or is removed in between is dialled.
* `ViewIsLive` (`live_status.cfg`, module `BoxStatus`). README.md:16 promises
  "live FXO online/offline status updates". The first poll of boxStatusLoop is
  only stored (src/internal/web/server.go:335-339): a change that falls between
  the request of a client that connected within the first two seconds and that
  poll is in nobody's delta, and the client shows the old status as long as
  nothing else changes.
* `NeverGoesBack` (`goes_back.cfg`, module `BoxStatus`). README.md:16 promises
  "live FXO online/offline status updates". Every message makes the page ask for
  the boxes (src/web/app.js:1202) without waiting for the request before; the
  answers are shown in the order they come, and an older one that comes last
  stays on the screen until the next change.
* `LogsGoWithUser` (`orphan_log.cfg`, module `Permissions`). DeleteUser removes
  the user's call logs in its transaction ("delete user call logs",
  src/internal/store/store.go:397). A dial that was allowed before, or one with
  the access token of a removed administrator, for whom UserCanDialFXO looks up
  nothing (store.go:1171), reaches CreateCallLog afterwards; call_logs.user_id
  is no foreign key, and the row stays with nobody to see or remove it.
* `EmptyKeepsPassword` (`lost_edit.cfg`, module `Permissions`). The form says
  "SIP password (leave empty to keep unchanged)" (src/web/app.js:173).
  handleUpdateFXO reads the box at line 876 and writes all its columns at line
  897: an edit that leaves the password empty puts back the one it read, undoing
  a password another administrator has set in between, and the box can no longer
  register.
* `GeneratedIsPrinted` (`not_printed.cfg`, module `Bootstrap`). README.md:96
  says "The generated bootstrap admin password is printed to the server console
  once at first initialization." CreateUser (src/main.go:215) commits the
  account before the line is logged (main.go:74). When the process is killed in
  between, the next start finds the account (main.go:180) and generates nothing:
  the password is known to nobody.
* `FirstIsGenerated` (`not_generated.cfg`, module `Bootstrap`). README.md:90-91
  says "When the database file does not exist (first run), the server
  auto-generates: bootstrap admin password". A first run that ends after
  store.Open has made the file and before CreateUser leaves a file without an
  administrator; the next start is not fresh and takes bootstrap.admin_password
  of the configuration, which config.Ensure has written as "admin123"
  (src/internal/config/config.go:123), and does not print it.

Behaviours the models have and no text of the repository contradicts: a ringing
event that follows the stop event (`manager.go:448`), a pending list sent after
the stop it does not know of (`server.go:234`), a stop push that overtakes its
ringing push, a browser dialog replaced by a second call, a BYE that arrives
between the answer and `registerCall` and finds no session (`manager.go:468`), a
logout with an expired access token that clears nothing (`server.go:499`), a store
error at a refresh that logs the app out (`server.go:463, 474`), rows of
`call_logs` without an end after a failed UPDATE or after the process was killed,
a registration whose contact is somebody else's address, and REGISTERs of one box
that overlap, of which the last to write wins (`service.go:413`; `RegisteredStays`
is for boxes that wait for their answers).

## 7. Not modelled

* SDP and RTP: parsing and writing SDP, the PCMU payload, copying packets between
  two sockets. Text and data; no order of steps depends on them that
  `OutgoingCalls` and `InboundInvites` have not.
* DTMF: a request on a dialog, which changes no state of the service.
* Push-token registration and contacts: single statements on rows of one user.
* The push service: one HTTP call per event, without state; that pushes are lost,
  late and reordered is in `IncomingNotify`.
* The client's own state of a call, on Android and in the browser: it mirrors
  WebRTC and Android's telecom service, whose rules would have to be invented.
  Their lists of incoming calls, boxes and call logs, and their refreshes, are
  modelled.
* Lost and repeated SIP messages: sipgo, the library, retransmits and matches
  them; what it may do to a dialog is left open in `CallSessions`.
* Screens, layout, notifications drawn, deployment files.

What could follow: a composition of `Signaling` with `CallManager` itself in place
of `SessionLifecycle`, as `ManagerNotify` is one for the notifications.
