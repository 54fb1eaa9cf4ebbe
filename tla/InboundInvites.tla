-------------------------- MODULE InboundInvites --------------------------
(***************************************************************************)
(* Manager.onIncomingInvite, AcceptIncoming, RejectIncoming, the 35 second *)
(* timer, the goroutine that watches the dialog, and finishInbound, which  *)
(* all of them may reach.  Every step is what happens between two points   *)
(* at which the goroutine gives up inv.mu or m.mu, waits, or calls out.    *)
(***************************************************************************)
EXTENDS CallSessions

CONSTANT Decliners   \* the users that reject calls in this instance

ASSUME DeclinersAreUsers == Decliners \subseteq Users

VARIABLES
    invUsers,      \* InboundInvite.users, empty before the invite exists
    listed,        \* Manager.incomingByID
    ended,         \* the invites whose ended flag is set
    connected,     \* the invites whose connected flag is set
    timer,         \* InboundInvite.timer
    expiring,      \* the goroutine the timer starts
    watcher,       \* the goroutine onIncomingInvite leaves behind
    rejecting,     \* RejectIncoming of a user
    finishing,     \* the run of finishInbound that set ended
    stopReason,    \* the reason that run was given
    events,        \* what emitIncomingEvent has handed to the notifier
    canceled       \* the invites the remote itself took back

flagVars   == <<listed, ended, connected>>
workerVars == <<expiring, watcher, rejecting>>
finishVars == <<finishing, stopReason>>
inviteVars == <<invUsers, flagVars, timer, workerVars, finishVars, events, canceled>>

Reasons == {"none", "timeout", "declined", "remote canceled",
            "accept failed", "sip answer failed"}

InvitesTypeOK ==
    /\ invUsers \in [Invites -> SUBSET Users]
    /\ listed \in SUBSET Invites
    /\ ended \in SUBSET Invites
    /\ connected \in SUBSET Invites
    /\ timer \in [Invites -> {"unset", "armed", "stopped", "fired"}]
    /\ expiring \in [Invites -> {"none", "fired", "rejected", "done"}]
    /\ watcher \in [Invites -> {"none", "waiting", "woken", "done"}]
    /\ rejecting \in [Users \X Invites -> {"idle", "lookedUp", "responded"}]
    /\ finishing \in [Invites -> {"none", "ended", "removed", "told", "done"}]
    /\ stopReason \in [Invites -> Reasons]
    /\ events \in [Invites -> Seq({"ringing", "answered", "stopped"})]
    /\ canceled \in SUBSET Invites

InvitesInit ==
    /\ invUsers = [i \in Invites |-> {}]
    /\ listed = {} /\ ended = {} /\ connected = {} /\ canceled = {}
    /\ timer = [i \in Invites |-> "unset"]
    /\ expiring = [i \in Invites |-> "none"]
    /\ watcher = [i \in Invites |-> "none"]
    /\ rejecting = [r \in Users \X Invites |-> "idle"]
    /\ finishing = [i \in Invites |-> "none"]
    /\ stopReason = [i \in Invites |-> "none"]
    /\ events = [i \in Invites |-> << >>]

emitIncomingEvent(i, kind) == events' = [events EXCEPT ![i] = Append(@, kind)]

\* Timer.Stop: a timer that has fired is past stopping.
Stopped(i) == IF timer[i] = "armed" THEN [timer EXCEPT ![i] = "stopped"] ELSE timer

---------------------------------------------------------------------------
(* onIncomingInvite.                                                       *)

\* No PCMU, no user to call, no device or a store error: a final response.
InviteRefused(i) ==
    /\ dialog[i] = "idle"
    /\ dialog' = [dialog EXCEPT ![i] = "ended"]
    /\ UNCHANGED <<attemptVars, fieldVars, closing, callLog, registryVars, inviteVars>>

\* 180 Ringing, the invite with its armed timer, the entry in incomingByID.
InviteArrives(i) ==
    /\ dialog[i] = "idle"
    /\ dialog' = [dialog EXCEPT ![i] = "invited"]
    /\ \E users \in (SUBSET Users) \ {{}} : invUsers' = [invUsers EXCEPT ![i] = users]
    /\ timer' = [timer EXCEPT ![i] = "armed"]
    /\ listed' = listed \cup {i}
    /\ UNCHANGED <<attemptVars, fieldVars, closing, callLog, registryVars,
                   ended, connected, workerVars, finishVars, events, canceled>>

\* The ringing event, and the goroutine that waits for the dialog's end.
InviteAnnounced(i) ==
    /\ invUsers[i] # {}
    /\ watcher[i] = "none"
    /\ emitIncomingEvent(i, "ringing")
    /\ watcher' = [watcher EXCEPT ![i] = "waiting"]
    /\ UNCHANGED <<sessionVars, invUsers, flagVars, timer, expiring, rejecting,
                   finishVars, canceled>>

\* CANCEL, or sipgo gives the INVITE transaction up.
RemoteCancels(i) ==
    /\ dialog[i] = "invited"
    /\ dialog' = [dialog EXCEPT ![i] = "ended"]
    /\ canceled' = canceled \cup {i}
    /\ UNCHANGED <<attemptVars, fieldVars, closing, callLog, registryVars,
                   invUsers, flagVars, timer, workerVars, finishVars, events>>

---------------------------------------------------------------------------
(* finishInbound.                                                          *)

\* Mutant: the invite is ended again by whoever comes second.
finishInboundAgain(i, reason) ==
    /\ ended' = ended \cup {i}
    /\ finishing' = [finishing EXCEPT ![i] = "ended"]
    /\ stopReason' = [stopReason EXCEPT ![i] = reason]
    /\ timer' = Stopped(i)

\* Nothing but ended is looked at: an invite that is connected is ended too.
finishInbound(i, reason) ==
    IF i \in ended
    THEN UNCHANGED <<ended, finishVars, timer>>
    ELSE /\ ended' = ended \cup {i}
         /\ finishing' = [finishing EXCEPT ![i] = "ended"]
         /\ stopReason' = [stopReason EXCEPT ![i] = reason]
         /\ timer' = Stopped(i)

FinishRemove(i) ==
    /\ finishing[i] = "ended"
    /\ finishing' = [finishing EXCEPT ![i] = "removed"]
    /\ listed' = listed \ {i}
    /\ UNCHANGED <<sessionVars, invUsers, ended, connected, timer, workerVars,
                   stopReason, events, canceled>>

\* Mutant: the event is given up.
FinishSilently(i) ==
    /\ finishing[i] = "removed"
    /\ finishing' = [finishing EXCEPT ![i] = "told"]
    /\ UNCHANGED <<sessionVars, invUsers, flagVars, timer, workerVars, stopReason, events, canceled>>

FinishTell(i) ==
    /\ finishing[i] = "removed"
    /\ finishing' = [finishing EXCEPT ![i] = "told"]
    /\ emitIncomingEvent(i, "stopped")
    /\ UNCHANGED <<sessionVars, invUsers, flagVars, timer, workerVars, stopReason, canceled>>

FinishClose(i) ==
    /\ finishing[i] = "told"
    /\ finishing' = [finishing EXCEPT ![i] = "done"]
    /\ CloseDialog(i, FALSE)
    /\ UNCHANGED <<attemptVars, fieldVars, closing, callLog, registryVars,
                   invUsers, flagVars, timer, workerVars, stopReason, events, canceled>>

---------------------------------------------------------------------------
(* rejectWithResponse, and the three that call it.                         *)

\* sipgo's Respond with a final error returns nil (ok) or not, and leaves the
\* dialog in state after.  A transport error takes the transaction down.
RespondFinal(state, ok, after) ==
    \/ ok /\ state # "ended" /\ after = "ended"
    \/ ~ok /\ after = IF state = "invited" THEN "ended" ELSE state

\* Mutant: the connected flag is not consulted.
rejectEvenConnected(i, ok) ==
    IF i \in ended
    THEN /\ ok = TRUE
         /\ UNCHANGED <<timer, dialog>>
    ELSE /\ timer' = Stopped(i)
         /\ \E after \in DialogStates :
               /\ RespondFinal(dialog[i], ok, after)
               /\ dialog' = [dialog EXCEPT ![i] = after]

rejectWithResponse(i, ok) ==
    IF i \in ended \cup connected
    THEN /\ ok = TRUE
         /\ UNCHANGED <<timer, dialog>>
    ELSE /\ timer' = Stopped(i)
         /\ \E after \in DialogStates :
               /\ RespondFinal(dialog[i], ok, after)
               /\ dialog' = [dialog EXCEPT ![i] = after]

TimerFires(i) ==
    /\ timer[i] = "armed"
    /\ timer' = [timer EXCEPT ![i] = "fired"]
    /\ expiring' = [expiring EXCEPT ![i] = "fired"]
    /\ UNCHANGED <<sessionVars, invUsers, flagVars, watcher, rejecting,
                   finishVars, events, canceled>>

\* 480 No answer.
TimerRejects(i) ==
    /\ expiring[i] = "fired"
    /\ expiring' = [expiring EXCEPT ![i] = "rejected"]
    /\ \E ok \in BOOLEAN : rejectWithResponse(i, ok)
    /\ UNCHANGED <<attemptVars, fieldVars, closing, callLog, registryVars, invUsers,
                   flagVars, watcher, rejecting, finishVars, events, canceled>>

TimerFinishes(i) ==
    /\ expiring[i] = "rejected"
    /\ expiring' = [expiring EXCEPT ![i] = "done"]
    /\ finishInbound(i, "timeout")
    /\ UNCHANGED <<sessionVars, invUsers, listed, connected, watcher, rejecting,
                   events, canceled>>

RejectLookup(u, i) ==
    /\ i \in listed
    /\ u \in invUsers[i]
    /\ rejecting[<<u, i>>] = "idle"
    /\ rejecting' = [rejecting EXCEPT ![<<u, i>>] = "lookedUp"]
    /\ UNCHANGED <<sessionVars, invUsers, flagVars, timer, expiring, watcher,
                   finishVars, events, canceled>>

\* 486; if Respond fails RejectIncoming returns its error and ends nothing.
RejectRespond(u, i) ==
    /\ rejecting[<<u, i>>] = "lookedUp"
    /\ \E ok \in BOOLEAN :
          /\ rejectWithResponse(i, ok)
          /\ rejecting' = [rejecting EXCEPT ![<<u, i>>] =
                              IF ok THEN "responded" ELSE "idle"]
    /\ UNCHANGED <<attemptVars, fieldVars, closing, callLog, registryVars, invUsers,
                   flagVars, expiring, watcher, finishVars, events, canceled>>

RejectFinish(u, i) ==
    /\ rejecting[<<u, i>>] = "responded"
    /\ rejecting' = [rejecting EXCEPT ![<<u, i>>] = "idle"]
    /\ finishInbound(i, "declined")
    /\ UNCHANGED <<sessionVars, invUsers, listed, connected, expiring, watcher,
                   events, canceled>>

---------------------------------------------------------------------------
(* The goroutine that waits for dlg.Context().Done().                      *)

WatchWakes(i) ==
    /\ watcher[i] = "waiting"
    /\ dialog[i] = "ended"
    /\ watcher' = [watcher EXCEPT ![i] =
                      IF i \in ended \cup connected THEN "done" ELSE "woken"]
    /\ UNCHANGED <<sessionVars, invUsers, flagVars, timer, expiring, rejecting,
                   finishVars, events, canceled>>

WatchFinishes(i) ==
    /\ watcher[i] = "woken"
    /\ watcher' = [watcher EXCEPT ![i] = "done"]
    /\ finishInbound(i, "remote canceled")
    /\ UNCHANGED <<sessionVars, invUsers, listed, connected, expiring, rejecting,
                   events, canceled>>

---------------------------------------------------------------------------
(* AcceptIncoming.                                                         *)

\* The invite is listed, the user is among those called and has no call.
AcceptLookup(u, i, s) ==
    /\ phase[s] = "none"
    /\ i \in listed
    /\ u \in invUsers[i]
    /\ ~HasCall(u)
    /\ phase' = [phase EXCEPT ![s] = "lookedUp"]
    /\ caller' = [caller EXCEPT ![s] = u]
    /\ target' = [target EXCEPT ![s] = i]
    /\ UNCHANGED <<fieldVars, closing, callLog, registryVars, dialog, inviteVars>>

\* "already ended" or "already answered".
AcceptTooLate(s) ==
    /\ phase[s] = "lookedUp"
    /\ target[s] \in ended \cup connected
    /\ phase' = [phase EXCEPT ![s] = "failed"]
    /\ UNCHANGED <<caller, target, fieldVars, closing, callLog, registryVars,
                   dialog, inviteVars>>

\* Mutant: the timer is left running while the call is being answered.
AcceptClaimKeepsTimer(s) ==
    /\ phase[s] = "lookedUp"
    /\ target[s] \notin ended \cup connected
    /\ phase' = [phase EXCEPT ![s] = "accepting"]
    /\ CreateCallLog(s)
    /\ UNCHANGED <<caller, target, fieldVars, closing, registryVars, dialog, inviteVars>>

\* State "connecting" does not keep a second user out; then CreateCallLog.
AcceptClaim(s) ==
    /\ phase[s] = "lookedUp"
    /\ target[s] \notin ended \cup connected
    /\ phase' = [phase EXCEPT ![s] = "accepting"]
    /\ timer' = Stopped(target[s])
    /\ CreateCallLog(s)
    /\ UNCHANGED <<caller, target, fieldVars, closing, registryVars, dialog,
                   invUsers, flagVars, workerVars, finishVars, events, canceled>>

\* createWebRTCSide fails before there is a session, and ends the row itself.
AcceptNoMedia(s) ==
    /\ phase[s] = "accepting"
    /\ phase' = [phase EXCEPT ![s] = "mediaFailed"]
    /\ EndCallLog(s)
    /\ UNCHANGED <<caller, target, fieldVars, closing, registryVars, dialog, inviteVars>>

\* The offer is refused, or no public address is configured.
AcceptMediaFails(s) ==
    /\ phase[s] = "accepting"
    /\ phase' = [phase EXCEPT ![s] = "mediaFailed"]
    /\ close(s, FALSE)
    /\ UNCHANGED <<caller, target, fieldVars, callLog, registryVars, inviteVars>>

\* 500 Accept failed; whether Respond succeeds makes no difference.
AcceptRejects(s) ==
    /\ phase[s] = "mediaFailed"
    /\ NotClosing(s)
    /\ phase' = [phase EXCEPT ![s] = "stopping"]
    /\ \E ok \in BOOLEAN : rejectWithResponse(target[s], ok)
    /\ UNCHANGED <<caller, target, fieldVars, closing, callLog, registryVars,
                   invUsers, flagVars, workerVars, finishVars, events, canceled>>

AcceptStops(s) ==
    /\ phase[s] = "stopping"
    /\ phase' = [phase EXCEPT ![s] = "failed"]
    /\ finishInbound(target[s], "accept failed")
    /\ UNCHANGED <<caller, target, fieldVars, closing, callLog, registryVars, dialog,
                   invUsers, listed, connected, workerVars, events, canceled>>

\* createWebRTCSide succeeds; the session gets its user and its dialog.
AcceptMedia(s) ==
    /\ phase[s] = "accepting"
    /\ phase' = [phase EXCEPT ![s] = "negotiated"]
    /\ userID' = [userID EXCEPT ![s] = caller[s]]
    /\ bound' = [bound EXCEPT ![s] = TRUE]
    /\ UNCHANGED <<caller, target, closing, callLog, registryVars, dialog, inviteVars>>

\* RespondSDP returns nil: 200 OK, or a second 200 OK on the same dialog.
AcceptAnswers(s) ==
    /\ phase[s] = "negotiated"
    /\ dialog[target[s]] # "ended"
    /\ phase' = [phase EXCEPT ![s] = "responded"]
    /\ dialog' = [dialog EXCEPT ![target[s]] = IF @ = "invited" THEN "established" ELSE @]
    /\ UNCHANGED <<caller, target, fieldVars, closing, callLog, registryVars, inviteVars>>

\* RespondSDP fails: the transaction is gone, fails now, or was answered before.
AcceptAnswerFails(s) ==
    /\ phase[s] = "negotiated"
    /\ phase' = [phase EXCEPT ![s] = "answerFailed"]
    /\ close(s, FALSE)
    /\ UNCHANGED <<caller, target, fieldVars, callLog, registryVars, inviteVars>>

AcceptAnswerStops(s) ==
    /\ phase[s] = "answerFailed"
    /\ NotClosing(s)
    /\ phase' = [phase EXCEPT ![s] = "failed"]
    /\ finishInbound(target[s], "sip answer failed")
    /\ UNCHANGED <<caller, target, fieldVars, closing, callLog, registryVars, dialog,
                   invUsers, listed, connected, workerVars, events, canceled>>

AcceptConnects(s) ==
    /\ phase[s] = "responded"
    /\ phase' = [phase EXCEPT ![s] = "connected"]
    /\ connected' = connected \cup {target[s]}
    /\ UNCHANGED <<caller, target, fieldVars, closing, callLog, registryVars, dialog,
                   invUsers, listed, ended, timer, workerVars, finishVars, events, canceled>>

AcceptRegister(s) ==
    /\ phase[s] = "connected"
    /\ phase' = [phase EXCEPT ![s] = "registered"]
    /\ registerCall(s)
    /\ UNCHANGED <<caller, target, fieldVars, closing, callLog, dialog, inviteVars>>

\* Mutant: removeInbound is forgotten.
AcceptLeavesListed(s) ==
    /\ phase[s] = "registered"
    /\ phase' = [phase EXCEPT ![s] = "unlisted"]
    /\ UNCHANGED <<caller, target, fieldVars, closing, callLog, registryVars, dialog, inviteVars>>

AcceptUnlists(s) ==
    /\ phase[s] = "registered"
    /\ phase' = [phase EXCEPT ![s] = "unlisted"]
    /\ listed' = listed \ {target[s]}
    /\ UNCHANGED <<caller, target, fieldVars, closing, callLog, registryVars, dialog,
                   invUsers, ended, connected, timer, workerVars, finishVars, events, canceled>>

AcceptReturns(s) ==
    /\ phase[s] = "unlisted"
    /\ phase' = [phase EXCEPT ![s] = "returned"]
    /\ emitIncomingEvent(target[s], "answered")
    /\ UNCHANGED <<caller, target, fieldVars, closing, callLog, registryVars, dialog,
                   invUsers, flagVars, timer, workerVars, finishVars, canceled>>

AcceptStep(s) ==
    \/ AcceptTooLate(s) \/ AcceptClaim(s) \/ AcceptNoMedia(s) \/ AcceptMediaFails(s)
    \/ AcceptRejects(s) \/ AcceptStops(s) \/ AcceptMedia(s) \/ AcceptAnswers(s) \/ AcceptAnswerFails(s)
    \/ AcceptAnswerStops(s) \/ AcceptConnects(s) \/ AcceptRegister(s)
    \/ AcceptUnlists(s) \/ AcceptReturns(s)

FinishStep(i) == FinishRemove(i) \/ FinishTell(i) \/ FinishClose(i)

TimerStep(i) == TimerRejects(i) \/ TimerFinishes(i)

WatchStep(i) == WatchWakes(i) \/ WatchFinishes(i)

RejectStep(u, i) == RejectRespond(u, i) \/ RejectFinish(u, i)
===========================================================================
