---------------------------- MODULE CallManager ----------------------------
(***************************************************************************)
(* The call manager as a whole: any number of StartCall, AcceptIncoming,   *)
(* RejectIncoming and Hangup of several users at once, inbound INVITEs,    *)
(* their timers and watchers, BYE and CANCEL of the remote, and peer       *)
(* connections that fail, all on the same indexes and dialogs.             *)
(***************************************************************************)
EXTENDS OutgoingCalls, InboundInvites

vars == <<sessionVars, inviteVars>>

Init == SessionsInit /\ InvitesInit

Dial(s) == StartCallStep(s) /\ UNCHANGED inviteVars

CloseStep(s) == (CloseUnregister(s) \/ CloseFinish(s)) /\ UNCHANGED inviteVars

SessionStep(s) ==
    \/ \E u \in Dialers : DialCheck(u, s) /\ UNCHANGED inviteVars
    \/ Dial(s)
    \/ \E u \in Users, i \in Invites : AcceptLookup(u, i, s)
    \/ AcceptStep(s)
    \/ PeerConnectionFails(s) /\ UNCHANGED inviteVars
    \/ Hangup(s) /\ UNCHANGED inviteVars
    \/ CloseStep(s)

InviteStep(i) ==
    \/ InviteRefused(i) /\ UNCHANGED inviteVars
    \/ InviteArrives(i) \/ InviteAnnounced(i) \/ RemoteCancels(i)
    \/ TimerFires(i) \/ TimerStep(i) \/ WatchStep(i) \/ FinishStep(i)
    \/ \E u \in Decliners : RejectLookup(u, i) \/ RejectStep(u, i)

RemoteBye(d) == onRemoteBye(d) /\ UNCHANGED inviteVars

\* Nothing is under way: what is left is for users and remotes to begin.
Quiescent ==
    /\ \A s \in Sessions : /\ phase[s] \in {"none", "returned", "failed"}
                           /\ closing[s] \in {"open", "closed"}
    /\ \A i \in Invites : /\ timer[i] # "armed"
                          /\ expiring[i] \in {"none", "done"}
                          /\ watcher[i] # "woken"
                          /\ finishing[i] \in {"none", "done"}
    /\ \A r \in Users \X Invites : rejecting[r] = "idle"
    /\ UNCHANGED vars

Next ==
    \/ \E s \in Sessions : SessionStep(s)
    \/ \E i \in Invites : InviteStep(i)
    \/ \E d \in SipIds : RemoteBye(d)
    \/ Quiescent

\* Every goroutine that can go on does, timers fire, and the calls out of the
\* process (SIP, SQLite, WebRTC) return.  Users and remotes owe nothing.
Fairness ==
    /\ \A s \in Sessions : /\ WF_vars(Dial(s))
                           /\ WF_vars(AcceptStep(s))
                           /\ WF_vars(CloseStep(s))
    /\ \A i \in Invites : /\ WF_vars(InviteAnnounced(i))
                          /\ WF_vars(TimerFires(i))
                          /\ WF_vars(TimerStep(i))
                          /\ WF_vars(WatchStep(i))
                          /\ WF_vars(FinishStep(i))
                          /\ \A u \in Decliners : WF_vars(RejectStep(u, i))

Safety == Init /\ [][Next]_vars

Spec == Safety /\ Fairness

---------------------------------------------------------------------------
(* Safety.                                                                 *)

TypeOK == SessionsTypeOK /\ InvitesTypeOK

InPhases(s, set) == phase[s] \in set

\* The sessions that have been given to registerCall.
Registered(s) == InPhases(s, {"registered", "unlisted", "returned"})

\* The three indexes agree: a session found by Call-ID or by user is also in
\* callsByID, belongs to that user and sits on that dialog, whatever order
\* registerCall and unregisterCall of different calls ran in.
RegistryCoherent ==
    /\ \A d \in SipIds : callsBySIPID[d] # NoSession =>
          /\ callsBySIPID[d] \in callsByID
          /\ target[callsBySIPID[d]] = d
    /\ \A u \in Users : callsByUser[u] # NoSession =>
          /\ callsByUser[u] \in callsByID
          /\ userID[callsByUser[u]] = u
    /\ \A s \in callsByID : bound[s] /\ Registered(s)

Times(kind, i) == {n \in 1..Len(events[i]) : events[i][n] = kind}

\* However the timer, users that decline, failed accepts and the watcher race,
\* clients are told at most once that a call has stopped.
StoppedOnce ==
    \A i \in Invites : \A m, n \in Times("stopped", i) : m = n

\* An invite that has left incomingByID has been reported to its users, as
\* answered or as stopped, or the goroutine that took it out is about to.
NoSilentDrop ==
    \A i \in Invites : invUsers[i] # {} /\ i \notin listed =>
        \/ Times("answered", i) # {}
        \/ Times("stopped", i) # {}
        \/ finishing[i] = "removed"
        \/ \E s \in Sessions : target[s] = i /\ phase[s] = "unlisted"

\* A call that was refused, broke off or was hung up, in whatever step, has had
\* its row of call_logs handed to EndCallLog, once: a second statement would
\* overwrite the status and the reason.  A call that is up has not.  The row
\* itself stays open where the statement failed; nobody looks at its error.
CallLogSettled ==
    \A s \in Sessions :
        /\ callLog[s] # "overwritten"
        /\ phase[s] = "failed" \/ closing[s] = "closed" => callLog[s] # "open"
        /\ Registered(s) /\ closing[s] # "closed" => callLog[s] \in {"none", "open"}

\* Once an accept has passed the check of ended and connected the 35 second
\* timer cannot start any more, on any of the ways the accept can go.
NoTimeoutOnceClaimed ==
    \A s \in Sessions :
        phase[s] \in AcceptPhases \ {"lookedUp"} => timer[target[s]] # "armed"

\* A connected inbound call is ended at the SIP level only by the remote's BYE
\* or by closing one of its sessions: no late decline, timer or failed accept
\* sends a final error on its dialog.
ConnectedNotRejected ==
    [][\A i \in connected :
          dialog[i] # "ended" /\ dialog'[i] = "ended" =>
             \/ onRemoteBye(i)
             \/ \E s \in Sessions : /\ target[s] = i
                                    /\ closing[s] = "open"
                                    /\ closing'[s] = "claimed"]_vars

---------------------------------------------------------------------------
(* The promise of InviteLifecycle, kept by the flags, the list and events. *)

Life(i) == IF invUsers[i] = {} THEN "none"
           ELSE IF i \in ended THEN "stopped"
           ELSE IF i \in connected THEN "answered"
           ELSE "ringing"

Promise == INSTANCE InviteLifecycle
             WITH Calls <- Invites,
                  life <- [i \in Invites |-> Life(i)],
                  offered <- listed,
                  told <- {i \in Invites : Times("stopped", i) # {}}

\* The invites implement the life cycle, with its fairness.
KeepsPromise == Promise!LifeSpec

---------------------------------------------------------------------------
(* The session as its users see it, in SessionLifecycle.                   *)

Stage(s) == IF InPhases(s, {"none", "failed"}) THEN phase[s]
            ELSE IF Registered(s) THEN "registered"
            ELSE IF userID[s] = NoUser THEN "trying"
            ELSE "offered"

Lifecycle == INSTANCE SessionLifecycle
               WITH stage <- [s \in Sessions |-> Stage(s)],
                    fall <- closing,
                    owner <- caller,
                    byUser <- callsByUser

\* What the WebSocket handlers rely on: every call of the manager begins only
\* for a user who is free, fails only without a session or after its close has
\* run, and returns.
KeepsLifecycle == Lifecycle!LifecycleSpec

---------------------------------------------------------------------------
(* What the source says of itself and the interleavings do not bear out.   *)

\* service.go, onInvite: blocking until the dialog ends is there to avoid "a
\* false remote canceled event".
NoFalseRemoteCancel ==
    \A i \in Invites : stopReason[i] = "remote canceled" => i \in canceled

\* manager.go, AcceptIncoming: a second user gets "incoming call already
\* answered".
AnsweredOnce ==
    \A s, t \in Sessions :
        /\ target[s] = target[t]
        /\ target[s] \in Invites
        /\ InPhases(s, {"registered", "unlisted", "returned"})
        /\ InPhases(t, {"registered", "unlisted", "returned"})
        => s = t

\* manager.go, StartCall and AcceptIncoming: "user already has an active call".
OneCallPerUser ==
    \A s, t \in callsByID : userID[s] = userID[t] => s = t

\* The same refusal is for users that do have an active call.
BusyMeansActive ==
    \A u \in Users : HasCall(u) => closing[callsByUser[u]] # "closed"
============================================================================
