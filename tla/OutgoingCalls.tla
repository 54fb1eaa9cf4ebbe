--------------------------- MODULE OutgoingCalls ---------------------------
(***************************************************************************)
(* Manager.StartCall, one action per step at which it gives up the lock or *)
(* waits: the check that the user is free, the box and its registration,   *)
(* the WebRTC side, the SIP INVITE, the registration of the call.          *)
(***************************************************************************)
EXTENDS CallSessions

CONSTANT Dialers   \* the users that dial in this instance

ASSUME DialersAreUsers == Dialers \subseteq Users

\* number is not blank and GetUserCall finds nothing.
DialCheck(u, s) ==
    /\ phase[s] = "none"
    /\ ~HasCall(u)
    /\ phase' = [phase EXCEPT ![s] = "dialing"]
    /\ caller' = [caller EXCEPT ![s] = u]
    /\ target' = [target EXCEPT ![s] = s]
    /\ UNCHANGED <<fieldVars, closing, callLog, registryVars, dialog>>

\* The box does not exist or is offline.
DialRefused(s) ==
    /\ phase[s] = "dialing"
    /\ phase' = [phase EXCEPT ![s] = "failed"]
    /\ UNCHANGED <<caller, target, fieldVars, closing, callLog, registryVars, dialog>>

\* CreateCallLog, then createWebRTCSide finds no RTP port or gets no peer
\* connection: it ends the row itself, there is no session to close.
DialNoMedia(s) ==
    /\ phase[s] = "dialing"
    /\ phase' = [phase EXCEPT ![s] = "failed"]
    /\ \E created \in Created : \E row \in Ended(created) :
          callLog' = [callLog EXCEPT ![s] = row]
    /\ UNCHANGED <<caller, target, fieldVars, closing, registryVars, dialog>>

\* CreateCallLog, then the offer is refused, while the session has no UserID yet,
\* or no public address is configured, and then no user ever has an entry that
\* close could take out: the session is closed.
DialMediaFails(s) ==
    /\ phase[s] = "dialing"
    /\ phase' = [phase EXCEPT ![s] = "aborting"]
    /\ CreateCallLog(s)
    /\ close(s, FALSE)
    /\ UNCHANGED <<caller, target, fieldVars, registryVars>>

\* CreateCallLog, createWebRTCSide and the fields of the session; Invite starts.
DialInvite(s) ==
    /\ phase[s] = "dialing"
    /\ phase' = [phase EXCEPT ![s] = "inviting"]
    /\ CreateCallLog(s)
    /\ userID' = [userID EXCEPT ![s] = caller[s]]
    /\ UNCHANGED <<caller, target, bound, closing, registryVars, dialog>>

\* The box answered 2xx and the ACK went out: dialogClient is set.
DialAnswered(s) ==
    /\ phase[s] = "inviting"
    /\ phase' = [phase EXCEPT ![s] = "answered"]
    /\ dialog' = [dialog EXCEPT ![s] = "established"]
    /\ bound' = [bound EXCEPT ![s] = TRUE]
    /\ UNCHANGED <<caller, target, userID, closing, callLog, registryVars>>

\* Mutant: the error path forgets to close the session and just returns.
DialInviteFailsUnclosed(s) ==
    /\ phase[s] = "inviting"
    /\ phase' = [phase EXCEPT ![s] = "aborting"]
    /\ UNCHANGED <<caller, target, fieldVars, closing, callLog, registryVars, dialog>>

\* Invite returns an error: no route, a refusal, a time-out or a lost ACK.
DialInviteFails(s) ==
    /\ phase[s] = "inviting"
    /\ phase' = [phase EXCEPT ![s] = "aborting"]
    /\ close(s, FALSE)
    /\ UNCHANGED <<caller, target, fieldVars, callLog, registryVars>>

\* parseSIPAudioTarget rejects the answer.
DialBadSDP(s) ==
    /\ phase[s] = "answered"
    /\ phase' = [phase EXCEPT ![s] = "aborting"]
    /\ close(s, TRUE)
    /\ UNCHANGED <<caller, target, fieldVars, callLog, registryVars>>

DialRegister(s) ==
    /\ phase[s] = "answered"
    /\ phase' = [phase EXCEPT ![s] = "returned"]
    /\ registerCall(s)
    /\ UNCHANGED <<caller, target, fieldVars, closing, callLog, dialog>>

\* Mutant: the error is returned while close still runs in another goroutine.
AbortWithoutWaiting(s) ==
    /\ phase[s] = "aborting"
    /\ phase' = [phase EXCEPT ![s] = "failed"]
    /\ UNCHANGED <<caller, target, fieldVars, closing, callLog, registryVars, dialog>>

\* close has returned; a second caller waits in closeOnce for the first.
DialAbort(s) ==
    /\ phase[s] = "aborting"
    /\ NotClosing(s)
    /\ phase' = [phase EXCEPT ![s] = "failed"]
    /\ UNCHANGED <<caller, target, fieldVars, closing, callLog, registryVars, dialog>>

StartCallStep(s) ==
    \/ DialRefused(s) \/ DialNoMedia(s) \/ DialMediaFails(s) \/ DialInvite(s)
    \/ DialAnswered(s) \/ DialInviteFails(s)
    \/ DialBadSDP(s) \/ DialRegister(s) \/ DialAbort(s)
============================================================================
