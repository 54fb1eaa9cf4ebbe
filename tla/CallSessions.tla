--------------------------- MODULE CallSessions ---------------------------
(***************************************************************************)
(* The state every call of internal/call/manager.go shares: the call       *)
(* sessions, the three indexes the Manager keeps of them under m.mu, the   *)
(* SIP dialogs they sit on, and CallSession.close.                         *)
(*                                                                         *)
(* A member of Sessions stands for one call of StartCall or of             *)
(* AcceptIncoming and for the CallSession it creates.  A member of Invites *)
(* stands for one inbound INVITE.  A SIP Call-ID is named by the session   *)
(* that sent the INVITE or by the invite that brought it.                  *)
(***************************************************************************)
EXTENDS Naturals, Sequences

CONSTANTS Users,      \* account identifiers
          Sessions,   \* calls of StartCall or AcceptIncoming
          Invites,    \* inbound INVITEs
          Failing,    \* the statements on call_logs that may fail
          NoUser, NoSession, NoDialog

SipIds == Sessions \cup Invites

ASSUME NamesAreDistinct ==
    /\ Sessions \cap Invites = {}
    /\ NoUser \notin Users
    /\ NoSession \notin Sessions
    /\ NoDialog \notin SipIds

ASSUME FailingAreStatements == Failing \subseteq {"INSERT", "UPDATE"}

VARIABLES
    phase,         \* where the goroutine of StartCall or AcceptIncoming is
    caller,        \* the userID argument of that call
    target,        \* the Call-ID the call is about
    userID,        \* CallSession.UserID, NoUser while it is zero
    bound,         \* CallSession.dialogClient or dialogServer is set
    closing,       \* progress of the one execution closeOnce allows
    callLog,       \* the row of call_logs of this call
    callsByID,     \* Manager.callsByID
    callsBySIPID,  \* Manager.callsBySIPID
    callsByUser,   \* Manager.callsByUser
    dialog         \* the SIP dialog of each Call-ID, as sipgo keeps it

attemptVars  == <<phase, caller, target>>
fieldVars    == <<userID, bound>>
registryVars == <<callsByID, callsBySIPID, callsByUser>>
sessionVars  == <<attemptVars, fieldVars, closing, callLog, registryVars, dialog>>

DialPhases == {"dialing", "inviting", "answered", "aborting"}
AcceptPhases == {"lookedUp", "accepting", "mediaFailed", "negotiated",
                 "answerFailed", "stopping", "responded", "connected",
                 "registered", "unlisted"}
Phases == {"none", "returned", "failed"} \cup DialPhases \cup AcceptPhases

\* "established" is a dialog a BYE of the remote can find; "dropped" one that
\* Close has taken out of sipgo's table although the remote has not hung up;
\* "ended" one whose Context is done.
DialogStates == {"idle", "invited", "established", "dropped", "ended"}

\* "none" while there is no row, "open" as long as nobody has asked to end it,
\* "unended" when the statement that was to end it failed, and "overwritten"
\* when a second one has run.
LogStates == {"none", "open", "ended", "unended", "overwritten"}

SessionsTypeOK ==
    /\ phase \in [Sessions -> Phases]
    /\ caller \in [Sessions -> Users \cup {NoUser}]
    /\ target \in [Sessions -> SipIds \cup {NoDialog}]
    /\ userID \in [Sessions -> Users \cup {NoUser}]
    /\ bound \in [Sessions -> BOOLEAN]
    /\ closing \in [Sessions -> {"open", "claimed", "unregistered", "closed"}]
    /\ callLog \in [Sessions -> LogStates]
    /\ callsByID \in SUBSET Sessions
    /\ callsBySIPID \in [SipIds -> Sessions \cup {NoSession}]
    /\ callsByUser \in [Users -> Sessions \cup {NoSession}]
    /\ dialog \in [SipIds -> DialogStates]

SessionsInit ==
    /\ phase = [s \in Sessions |-> "none"]
    /\ caller = [s \in Sessions |-> NoUser]
    /\ target = [s \in Sessions |-> NoDialog]
    /\ userID = [s \in Sessions |-> NoUser]
    /\ bound = [s \in Sessions |-> FALSE]
    /\ closing = [s \in Sessions |-> "open"]
    /\ callLog = [s \in Sessions |-> "none"]
    /\ callsByID = {}
    /\ callsBySIPID = [d \in SipIds |-> NoSession]
    /\ callsByUser = [u \in Users |-> NoSession]
    /\ dialog = [d \in SipIds |-> "idle"]

---------------------------------------------------------------------------
(* The indexes.                                                            *)

HasCall(u) == callsByUser[u] # NoSession

registerCall(s) ==
    /\ callsByID' = callsByID \cup {s}
    /\ callsBySIPID' = [callsBySIPID EXCEPT ![target[s]] = s]
    /\ callsByUser' = [callsByUser EXCEPT ![userID[s]] = s]

\* Mutant: the loop over callsBySIPID is forgotten.
unregisterKeepsSIPID(s) ==
    /\ callsByID' = callsByID \ {s}
    /\ callsByUser' = [u \in Users |->
                          IF u = userID[s] THEN NoSession ELSE callsByUser[u]]
    /\ UNCHANGED callsBySIPID

\* Mutant: the user's entry is cleared to the wrong zero value.
unregisterWrongZero(s) ==
    /\ callsByID' = callsByID \ {s}
    /\ callsByUser' = [u \in Users |->
                          IF u = userID[s] THEN NoUser ELSE callsByUser[u]]
    /\ callsBySIPID' = [d \in SipIds |->
                          IF callsBySIPID[d] = s THEN NoSession ELSE callsBySIPID[d]]

\* callsByUser loses the entry of the user whatever session it holds.
unregisterCall(s) ==
    /\ callsByID' = callsByID \ {s}
    /\ callsByUser' = [u \in Users |->
                          IF u = userID[s] THEN NoSession ELSE callsByUser[u]]
    /\ callsBySIPID' = [d \in SipIds |->
                          IF callsBySIPID[d] = s THEN NoSession ELSE callsBySIPID[d]]

---------------------------------------------------------------------------
(* The call log.  The errors of both statements are thrown away: a call    *)
(* whose row was not inserted goes on without one, and a row that was not  *)
(* ended stays as it is.                                                   *)

Created == IF "INSERT" \in Failing THEN {"none", "open"} ELSE {"open"}

CreateCallLog(s) ==
    \E row \in Created : callLog' = [callLog EXCEPT ![s] = row]

\* What one more EndCallLog can make of a row.
Ended(row) ==
    IF row = "none" THEN {"none"}
    ELSE IF row # "open" THEN {"overwritten"}
    ELSE IF "UPDATE" \in Failing THEN {"ended", "unended"}
    ELSE {"ended"}

EndCallLog(s) ==
    \E row \in Ended(callLog[s]) : callLog' = [callLog EXCEPT ![s] = row]

---------------------------------------------------------------------------
(* CallSession.close: closeOnce lets one caller in, the others wait for    *)
(* it.  BYE and the two Close calls on the dialog come first (BYE may take *)
(* four seconds), then the peer connection, the indexes, the call log and  *)
(* OnHangup.  Which goroutine runs it is not kept: pion reports the closed *)
(* peer connection on a goroutine of its own, so none waits for itself.    *)

\* What a dialog may be after sipgo's Close, preceded by Bye if bye.  Close of
\* an unanswered dialog only takes it out of the table or ends it as well.
AfterClose(state, bye) ==
    {after \in DialogStates :
        \/ state = "invited" /\ after \in {"dropped", "ended"}
        \/ state = "established" /\ after = IF bye THEN "ended" ELSE "dropped"
        \/ state \notin {"invited", "established"} /\ after = state}

CloseDialog(d, bye) ==
    \E after \in AfterClose(dialog[d], bye) :
        dialog' = [dialog EXCEPT ![d] = after]

close(s, sendBye) ==
    IF closing[s] = "open"
    THEN /\ closing' = [closing EXCEPT ![s] = "claimed"]
         /\ IF bound[s] THEN CloseDialog(target[s], sendBye) ELSE UNCHANGED dialog
    ELSE UNCHANGED <<closing, dialog>>

CloseUnregister(s) ==
    /\ closing[s] = "claimed"
    /\ closing' = [closing EXCEPT ![s] = "unregistered"]
    /\ unregisterCall(s)
    /\ UNCHANGED <<attemptVars, fieldVars, callLog, dialog>>

CloseFinish(s) ==
    /\ closing[s] = "unregistered"
    /\ closing' = [closing EXCEPT ![s] = "closed"]
    /\ EndCallLog(s)
    /\ UNCHANGED <<attemptVars, fieldVars, registryVars, dialog>>

\* No close of this session is under way: what a caller of close waits for.
NotClosing(s) == closing[s] \in {"open", "closed"}

---------------------------------------------------------------------------
(* What starts a close from outside the call that created the session.     *)

\* The peer connection fails, is closed, or brings a codec that is not PCMU.
\* It exists from the moment UserID is set.
PeerConnectionFails(s) ==
    /\ userID[s] # NoUser
    /\ closing[s] = "open"
    /\ close(s, TRUE)
    /\ UNCHANGED <<attemptVars, fieldVars, callLog, registryVars>>

\* CallSession.Hangup, called by the owner of a session it was given.
Hangup(s) ==
    /\ phase[s] = "returned"
    /\ closing[s] = "open"
    /\ close(s, TRUE)
    /\ UNCHANGED <<attemptVars, fieldVars, callLog, registryVars>>

\* The remote hangs up: sipgo ends the dialog, then onRemoteBye closes the
\* session callsBySIPID holds for it, if there is one.
onRemoteBye(d) ==
    LET s == callsBySIPID[d] IN
    /\ dialog[d] = "established"
    /\ dialog' = [dialog EXCEPT ![d] = "ended"]
    /\ closing' = IF s # NoSession /\ closing[s] = "open"
                  THEN [closing EXCEPT ![s] = "claimed"]
                  ELSE closing
    /\ UNCHANGED <<attemptVars, fieldVars, callLog, registryVars>>
===========================================================================
