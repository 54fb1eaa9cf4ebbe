--------------------------- MODULE IncomingNotify ---------------------------
(***************************************************************************)
(* How internal/web/server.go tells clients of inbound calls, and what the *)
(* Android client makes of it: the list of pending calls sent on connect,  *)
(* the announcements sent to every WebSocket, the pushes sent behind them, *)
(* and the list a phone asks for when its socket opens.                    *)
(*                                                                         *)
(* The call manager is InviteLifecycle, which it implements.  A device has *)
(* one connection at a time; a connection that breaks takes with it what   *)
(* was not received.  Every device belongs to a user every call is for:    *)
(* the others are left out by a filter on the user and see nothing.  The   *)
(* steps a user takes on a call, and the page's own listing of the pending *)
(* calls when it loads, are not here.                                      *)
(***************************************************************************)
EXTENDS InviteLifecycle, Sequences, Naturals

CONSTANTS Accepts,      \* the runs of AcceptIncoming
          Devices,
          Phones,       \* the devices that run the Android client
          MaxConnects   \* bound: connections a device makes

ASSUME PhonesAreDevices == Phones \subseteq Devices
ASSUME SomeConnects == MaxConnects \in Nat

Kinds == {"ringing", "answered", "stopped"}
Events == Kinds \X Calls

\* The first, second and further announcements of a call.
Announcements == Calls \X (Nat \ {0})

VARIABLES
    answer,     \* the answers AcceptIncoming has given, due to be announced or out
    begun,      \* per call, the kinds NotifyIncomingEvent has been called with
    left,       \* for each of these, the connections still to be served
    socket,     \* how far handleWS is with the connection of a device
    connects,   \* how many connections a device has made
    backlog,    \* what sendPendingIncoming has still to send
    stream,     \* the messages put on the present connection
    read,       \* how many of them the client has handled
    pushed,     \* the announcements notifyIncomingPush has pushed to a phone
    flying,     \* those of them that have not arrived
    sync,       \* syncIncomingSnapshot of a phone
    snapshot,   \* the list it was given
    shown       \* the calls the client shows as ringing

emitVars   == <<answer, begun, left>>
socketVars == <<socket, connects, backlog, stream, read>>
pushVars   == <<pushed, flying>>
syncVars   == <<sync, snapshot>>
notifyVars == <<lifeVars, emitVars, socketVars, pushVars, syncVars, shown>>

NotifyTypeOK ==
    /\ life \in [Calls -> {"none", "ringing", "answered", "stopped"}]
    /\ offered \subseteq Calls
    /\ told \subseteq Calls
    /\ answer \in [Accepts \X Calls -> {"none", "due", "out"}]
    /\ begun \in [Calls -> Seq(Kinds)]
    /\ left \in [Calls -> Seq(SUBSET Devices)]
    /\ \A i \in Calls : Len(left[i]) = Len(begun[i])
    /\ socket \in [Devices -> {"down", "added", "listed", "serving"}]
    /\ connects \in [Devices -> 0..MaxConnects]
    /\ backlog \in [Devices -> SUBSET Calls]
    /\ stream \in [Devices -> Seq(Events)]
    /\ read \in [Devices -> Nat]
    /\ pushed \in [Phones -> SUBSET Announcements]
    /\ flying \in [Phones -> SUBSET Announcements]
    /\ sync \in [Phones -> {"none", "asked", "replied"}]
    /\ snapshot \in [Phones -> SUBSET Calls]
    /\ shown \in [Devices -> SUBSET Calls]

EmitInit ==
    /\ answer = [a \in Accepts \X Calls |-> "none"]
    /\ begun = [i \in Calls |-> << >>]

ClientsInit ==
    /\ left = [i \in Calls |-> << >>]
    /\ socket = [d \in Devices |-> "down"]
    /\ connects = [d \in Devices |-> 0]
    /\ backlog = [d \in Devices |-> {}]
    /\ stream = [d \in Devices |-> << >>]
    /\ read = [d \in Devices |-> 0]
    /\ pushed = [d \in Phones |-> {}]
    /\ flying = [d \in Phones |-> {}]
    /\ sync = [d \in Phones |-> "none"]
    /\ snapshot = [d \in Phones |-> {}]
    /\ shown = [d \in Devices |-> {}]

NotifyInit == LifeInit /\ EmitInit /\ ClientsInit

Is(i, n, k) == n \in 1..Len(begun[i]) /\ begun[i][n] = k

Begun(k, i) == \E n \in 1..Len(begun[i]) : Is(i, n, k)

\* An announcement has been sent to every connection there was, and to each after
\* one of another kind was begun.
Delivered(k, i) == \E n \in 1..Len(begun[i]) : Is(i, n, k) /\ left[i][n] = {}

DeliveredAfter(l, k, i) ==
    \E m, n \in 1..Len(begun[i]) : m < n /\ Is(i, m, l) /\ Is(i, n, k) /\ left[i][n] = {}

Sent(d, k, i) == \E n \in 1..Len(stream[d]) : stream[d][n] = <<k, i>>

---------------------------------------------------------------------------
(* The call manager's side.                                                *)

Announce(k, i, served) ==
    /\ begun' = [begun EXCEPT ![i] = Append(@, k)]
    /\ left' = [left EXCEPT ![i] = Append(@, served)]

\* Mutant: handleWS adds a connection to wsClients after the pending list.
NotifyServedOnly(k, i) == Announce(k, i, {d \in Devices : socket[d] = "serving"})

\* NotifyIncomingEvent reads wsClients once and then sends to each of them.
NotifyIncomingEvent(k, i) == Announce(k, i, {d \in Devices : socket[d] # "down"})

\* onIncomingInvite lists the call; it announces it a moment later.
Rings(i) ==
    /\ Ring(i)
    /\ UNCHANGED <<emitVars, socketVars, pushVars, syncVars, shown>>

RingsOut(i) ==
    /\ life[i] # "none"
    /\ ~Begun("ringing", i)
    /\ NotifyIncomingEvent("ringing", i)
    /\ UNCHANGED <<lifeVars, answer, socketVars, pushVars, syncVars, shown>>

\* AcceptIncoming answers; it announces that once the call is off the list.  Two of
\* them may, and one may after finishInbound has ended the call.
Answers(a, i) ==
    /\ life[i] # "none"
    /\ answer[<<a, i>>] = "none"
    /\ answer' = [answer EXCEPT ![<<a, i>>] = "due"]
    /\ IF life[i] = "ringing" THEN Answer(i) ELSE UNCHANGED lifeVars
    /\ UNCHANGED <<begun, left, socketVars, pushVars, syncVars, shown>>

\* Mutant: AcceptIncoming announces the answer before removeInbound.
AnswerOutEarly(a, i) ==
    /\ answer[<<a, i>>] = "due"
    /\ answer' = [answer EXCEPT ![<<a, i>>] = "out"]
    /\ NotifyIncomingEvent("answered", i)
    /\ UNCHANGED <<lifeVars, socketVars, pushVars, syncVars, shown>>

AnswerOut(a, i) ==
    /\ answer[<<a, i>>] = "due"
    /\ i \notin offered
    /\ answer' = [answer EXCEPT ![<<a, i>>] = "out"]
    /\ NotifyIncomingEvent("answered", i)
    /\ UNCHANGED <<lifeVars, socketVars, pushVars, syncVars, shown>>

Stops(i) ==
    /\ Stop(i)
    /\ UNCHANGED <<emitVars, socketVars, pushVars, syncVars, shown>>

Withdraws(i) ==
    /\ Withdraw(i)
    /\ UNCHANGED <<emitVars, socketVars, pushVars, syncVars, shown>>

StopOut(i) ==
    /\ Tell(i)
    /\ NotifyIncomingEvent("stopped", i)
    /\ UNCHANGED <<answer, socketVars, pushVars, syncVars, shown>>

---------------------------------------------------------------------------
(* The server's side.                                                      *)

ListPendingIncoming == {i \in offered : life[i] # "stopped"}

SendMessage(d, k, i) == stream' = [stream EXCEPT ![d] = Append(@, <<k, i>>)]

\* One client.Send of notifyIncomingWS.
Notify(d, i, n) ==
    /\ n \in 1..Len(begun[i])
    /\ d \in left[i][n]
    /\ left' = [left EXCEPT ![i][n] = @ \ {d}]
    /\ SendMessage(d, begun[i][n], i)
    /\ UNCHANGED <<lifeVars, answer, begun, socket, connects, backlog, read, pushVars,
                   syncVars, shown>>

\* The goroutine that follows notifyIncomingWS pushes to one phone.
Push(d, i, n) ==
    /\ n \in 1..Len(begun[i])
    /\ left[i][n] = {}
    /\ <<i, n>> \notin pushed[d]
    /\ pushed' = [pushed EXCEPT ![d] = @ \cup {<<i, n>>}]
    /\ flying' = [flying EXCEPT ![d] = @ \cup {<<i, n>>}]
    /\ UNCHANGED <<lifeVars, emitVars, socketVars, syncVars, shown>>

\* handleWS: the upgrade, which opens the phone's socket, and addWSClient.
Connect(d) ==
    /\ socket[d] = "down"
    /\ connects[d] < MaxConnects
    /\ socket' = [socket EXCEPT ![d] = "added"]
    /\ connects' = [connects EXCEPT ![d] = @ + 1]
    /\ IF d \in Phones
       THEN sync[d] = "none" /\ sync' = [sync EXCEPT ![d] = "asked"]
       ELSE UNCHANGED sync
    /\ UNCHANGED <<lifeVars, emitVars, backlog, stream, read, pushVars, snapshot, shown>>

ReadPending(d) ==
    /\ socket[d] = "added"
    /\ socket' = [socket EXCEPT ![d] = "listed"]
    /\ backlog' = [backlog EXCEPT ![d] = ListPendingIncoming]
    /\ UNCHANGED <<lifeVars, emitVars, connects, stream, read, pushVars, syncVars, shown>>

SendPending(d) ==
    /\ socket[d] = "listed"
    /\ IF backlog[d] = {}
       THEN /\ socket' = [socket EXCEPT ![d] = "serving"]
            /\ UNCHANGED <<backlog, stream>>
       ELSE /\ \E i \in backlog[d] : /\ backlog' = [backlog EXCEPT ![d] = @ \ {i}]
                                     /\ SendMessage(d, "ringing", i)
            /\ UNCHANGED socket
    /\ UNCHANGED <<lifeVars, emitVars, connects, read, pushVars, syncVars, shown>>

\* The connection breaks: ReadJSON or Send fails, removeWSClient follows.
Disconnect(d) ==
    /\ socket[d] # "down"
    /\ socket' = [socket EXCEPT ![d] = "down"]
    /\ backlog' = [backlog EXCEPT ![d] = {}]
    /\ stream' = [stream EXCEPT ![d] = << >>]
    /\ read' = [read EXCEPT ![d] = 0]
    /\ left' = [i \in Calls |-> [n \in 1..Len(left[i]) |-> left[i][n] \ {d}]]
    /\ UNCHANGED <<lifeVars, answer, begun, connects, pushVars, syncVars, shown>>

---------------------------------------------------------------------------
(* The client's side: upsertIncoming and removeIncoming on a phone,        *)
(* showIncomingDialog and hideIncomingDialog, of one call, in a browser.   *)

\* Mutant: the dialog keeps the message where the call is expected.
HandledWhole(d, k, i) ==
    IF k # "ringing" THEN shown[d] \ {i} ELSE {<<k, i>>}

Handled(d, k, i) ==
    IF k # "ringing" THEN shown[d] \ {i}
    ELSE IF d \in Phones THEN shown[d] \cup {i} ELSE {i}

handleMessage(d) ==
    /\ read[d] < Len(stream[d])
    /\ read' = [read EXCEPT ![d] = @ + 1]
    /\ LET msg == stream[d][read[d] + 1]
       IN  shown' = [shown EXCEPT ![d] = Handled(d, msg[1], msg[2])]
    /\ UNCHANGED <<lifeVars, emitVars, socket, connects, backlog, stream, pushVars, syncVars>>

handlePushPayload(d, i, n) ==
    /\ <<i, n>> \in flying[d]
    /\ flying' = [flying EXCEPT ![d] = @ \ {<<i, n>>}]
    /\ shown' = [shown EXCEPT ![d] = Handled(d, begun[i][n], i)]
    /\ UNCHANGED <<lifeVars, emitVars, socketVars, pushed, syncVars>>

\* handleListIncomingCalls, asked by syncIncomingSnapshot.
ListIncomingCalls(d) ==
    /\ sync[d] = "asked"
    /\ sync' = [sync EXCEPT ![d] = "replied"]
    /\ snapshot' = [snapshot EXCEPT ![d] = ListPendingIncoming]
    /\ UNCHANGED <<lifeVars, emitVars, socketVars, pushVars, shown>>

replaceIncoming(d) ==
    /\ sync[d] = "replied"
    /\ sync' = [sync EXCEPT ![d] = "none"]
    /\ shown' = [shown EXCEPT ![d] = snapshot[d]]
    /\ UNCHANGED <<lifeVars, emitVars, socketVars, pushVars, snapshot>>

\* The manager's steps, and those of the connections, pushes and clients.
ManagerNext ==
    \E i \in Calls :
        \/ Rings(i) \/ RingsOut(i) \/ Stops(i) \/ Withdraws(i) \/ StopOut(i)
        \/ \E a \in Accepts : Answers(a, i) \/ AnswerOut(a, i)

ClientsNext ==
    \/ \E d \in Devices, i \in Calls : \E n \in 1..Len(begun[i]) : Notify(d, i, n)
    \/ \E d \in Devices : \/ Connect(d) \/ ReadPending(d) \/ SendPending(d)
                          \/ Disconnect(d) \/ handleMessage(d)
    \/ \E d \in Phones : \/ ListIncomingCalls(d) \/ replaceIncoming(d)
                         \/ \E i \in Calls : \E n \in 1..Len(begun[i]) :
                               Push(d, i, n) \/ handlePushPayload(d, i, n)

NotifyNext == ManagerNext \/ ClientsNext

NotifySpec == NotifyInit /\ [][NotifyNext]_notifyVars

---------------------------------------------------------------------------
(* Properties.                                                             *)

\* No connection misses a ringing call: once handleWS has sent the pending
\* list and the announcement is out, each has been sent the call by one of the
\* two, whichever way connecting and ringing were interleaved.
RingReachesAll ==
    \A d \in Devices, i \in Calls :
        socket[d] = "serving" /\ life[i] = "ringing" /\ Delivered("ringing", i)
        => Sent(d, "ringing", i)

\* A connection that was sent a call, by list or announcement, is also sent its
\* answer and its end, unless the call was over before it was announced.
EndReachesAll ==
    \A d \in Devices, i \in Calls, k \in {"answered", "stopped"} :
        Sent(d, "ringing", i) /\ DeliveredAfter("ringing", k, i) => Sent(d, k, i)

\* A list a client is given after the answer or the end of a call was announced
\* does not bring the call back: AcceptIncoming and finishInbound take it off
\* the list before they announce it, sendPendingIncoming and
\* handleListIncomingCalls read that list.
NeverListedAgain ==
    [][\A i \in Calls : Begun("answered", i) \/ Begun("stopped", i) =>
           /\ \A d \in Devices : i \in backlog'[d] => i \in backlog[d]
           /\ \A d \in Phones : i \in snapshot'[d] => i \in snapshot[d]]_notifyVars

\* CallController.kt, handlePushPayload: the snapshot "shouldn't automatically
\* wipe local Push events".  A phone shows a ringing call that was pushed to it
\* once it has replaced its list and handled all it was sent.
PushSurvivesSync ==
    \A d \in Phones, i \in Calls :
        /\ life[i] = "ringing" /\ sync[d] = "none"
        /\ socket[d] = "serving" /\ read[d] = Len(stream[d])
        /\ \E n \in 1..Len(begun[i]) : Is(i, n, "ringing") /\ <<i, n>> \in pushed[d] \ flying[d]
        => i \in shown[d]
=============================================================================
