------------------------- MODULE CallManager_proofs -------------------------
(***************************************************************************)
(* Proofs about CallManager for every set of users, sessions and invites,  *)
(* in five parts: the types, indexes and call logs; the end of an inbound  *)
(* call; CallManager implements InviteLifecycle; CallManager implements    *)
(* SessionLifecycle; with its notifications it implements IncomingNotify.  *)
(***************************************************************************)
EXTENDS ManagerNotify, TLAPS

USE DEF attemptVars, fieldVars, registryVars, sessionVars, flagVars,
        workerVars, finishVars, inviteVars

\* A call under way has a caller and is about its own Call-ID or an invite.
AttemptOK ==
    \A s \in Sessions :
        /\ phase[s] \in DialPhases => caller[s] \in Users /\ target[s] = s
        /\ phase[s] \in AcceptPhases => caller[s] \in Users /\ target[s] \in Invites

TypeInv == TypeOK /\ AttemptOK

---------------------------------------------------------------------------
(* Types: the helpers first, then one lemma per group of actions.          *)

LEMMA CloseType ==
    ASSUME SessionsTypeOK, NEW s \in Sessions, NEW b \in BOOLEAN, close(s, b)
    PROVE  /\ closing' \in [Sessions -> {"open", "claimed", "unregistered", "closed"}]
           /\ dialog' \in [SipIds -> DialogStates]
BY DEF close, CloseDialog, AfterClose, SessionsTypeOK

LEMMA RegisterType ==
    ASSUME SessionsTypeOK, NEW s \in Sessions, registerCall(s)
    PROVE  /\ callsByID' \in SUBSET Sessions
           /\ callsBySIPID' \in [SipIds -> Sessions \cup {NoSession}]
           /\ callsByUser' \in [Users -> Sessions \cup {NoSession}]
BY DEF SessionsTypeOK, registerCall

LEMMA UnregisterType ==
    ASSUME SessionsTypeOK, NEW s \in Sessions, unregisterCall(s)
    PROVE  /\ callsByID' \in SUBSET Sessions
           /\ callsBySIPID' \in [SipIds -> Sessions \cup {NoSession}]
           /\ callsByUser' \in [Users -> Sessions \cup {NoSession}]
BY DEF SessionsTypeOK, unregisterCall

\* A row that is made or ended is one of the states a row may have.
LEMMA CreatesRow ==
    ASSUME SessionsTypeOK, NEW s \in Sessions, CreateCallLog(s)
    PROVE  /\ callLog' \in [Sessions -> LogStates]
           /\ callLog'[s] \in {"none", "open"}
           /\ \A t \in Sessions : t # s => callLog'[t] = callLog[t]
BY DEF CreateCallLog, Created, SessionsTypeOK, LogStates

LEMMA EndsRow ==
    ASSUME SessionsTypeOK, NEW s \in Sessions, EndCallLog(s)
    PROVE  /\ callLog' \in [Sessions -> LogStates]
           /\ callLog[s] = "none" => callLog'[s] = "none"
           /\ callLog[s] = "open" => callLog'[s] \in {"ended", "unended"}
           /\ \A t \in Sessions : t # s => callLog'[t] = callLog[t]
BY DEF EndCallLog, Ended, SessionsTypeOK, LogStates

LEMMA NoMediaRow ==
    ASSUME SessionsTypeOK, NEW s \in Sessions, DialNoMedia(s)
    PROVE  /\ callLog' \in [Sessions -> LogStates]
           /\ callLog'[s] \in {"none", "ended", "unended"}
           /\ \A t \in Sessions : t # s => callLog'[t] = callLog[t]
BY DEF DialNoMedia, Created, Ended, SessionsTypeOK, LogStates

LEMMA DialType ==
    ASSUME TypeInv, NEW s \in Sessions, StartCallStep(s)
    PROVE  SessionsTypeOK' /\ AttemptOK'
<1> USE DEF TypeInv, TypeOK, AttemptOK, Phases, DialPhases, AcceptPhases
<1>1. CASE DialRefused(s)
  BY <1>1 DEF DialRefused, SessionsTypeOK
<1>2. CASE DialMediaFails(s)
  <2>1. SessionsTypeOK'
    BY <1>2, CloseType, CreatesRow DEF DialMediaFails, SessionsTypeOK
  <2>2. AttemptOK'
    BY <1>2 DEF DialMediaFails, SessionsTypeOK
  <2> QED BY <2>1, <2>2
<1>3. CASE DialInvite(s)
  BY <1>3, CreatesRow DEF DialInvite, SessionsTypeOK
<1>4. CASE DialAnswered(s)
  <2>1. SessionsTypeOK'
    <3>1. dialog' \in [SipIds -> DialogStates]
      BY <1>4 DEF DialAnswered, SessionsTypeOK, DialogStates
    <3>2. phase' \in [Sessions -> Phases] /\ bound' \in [Sessions -> BOOLEAN]
      BY <1>4 DEF DialAnswered, SessionsTypeOK
    <3> QED BY <1>4, <3>1, <3>2 DEF DialAnswered, SessionsTypeOK
  <2>2. AttemptOK'
    BY <1>4 DEF DialAnswered, SessionsTypeOK
  <2> QED BY <2>1, <2>2
<1>5. CASE DialInviteFails(s)
  <2>1. SessionsTypeOK'
    BY <1>5, CloseType DEF DialInviteFails, SessionsTypeOK
  <2>2. AttemptOK'
    BY <1>5 DEF DialInviteFails, SessionsTypeOK
  <2> QED BY <2>1, <2>2
<1>6. CASE DialBadSDP(s)
  <2>1. SessionsTypeOK'
    BY <1>6, CloseType DEF DialBadSDP, SessionsTypeOK
  <2>2. AttemptOK'
    BY <1>6 DEF DialBadSDP, SessionsTypeOK
  <2> QED BY <2>1, <2>2
<1>7. CASE DialRegister(s)
  BY <1>7, RegisterType DEF DialRegister, SessionsTypeOK
<1>8. CASE DialAbort(s)
  BY <1>8 DEF DialAbort, SessionsTypeOK
<1>9. CASE DialNoMedia(s)
  BY <1>9, NoMediaRow DEF DialNoMedia, SessionsTypeOK
<1> QED
  BY <1>1, <1>2, <1>3, <1>4, <1>5, <1>6, <1>7, <1>8, <1>9 DEF StartCallStep

LEMMA CloseStepType ==
    ASSUME TypeInv, NEW s \in Sessions,
           \/ CloseUnregister(s) \/ CloseFinish(s)
           \/ PeerConnectionFails(s) \/ Hangup(s)
    PROVE  SessionsTypeOK' /\ AttemptOK'
<1> USE DEF TypeInv, TypeOK, AttemptOK
<1>1. CASE CloseUnregister(s)
  BY <1>1, UnregisterType DEF CloseUnregister, SessionsTypeOK
<1>2. CASE CloseFinish(s)
  BY <1>2, EndsRow DEF CloseFinish, SessionsTypeOK
<1>3. CASE PeerConnectionFails(s)
  BY <1>3, CloseType DEF PeerConnectionFails, SessionsTypeOK
<1>4. CASE Hangup(s)
  BY <1>4, CloseType DEF Hangup, SessionsTypeOK
<1> QED BY <1>1, <1>2, <1>3, <1>4

LEMMA ByeType ==
    ASSUME TypeInv, NEW d \in SipIds, onRemoteBye(d)
    PROVE  SessionsTypeOK' /\ AttemptOK'
BY DEF TypeInv, TypeOK, AttemptOK, onRemoteBye, SessionsTypeOK, DialogStates

LEMMA RejectType ==
    ASSUME SessionsTypeOK, InvitesTypeOK, NEW i \in Invites, NEW ok \in BOOLEAN,
           rejectWithResponse(i, ok)
    PROVE  /\ timer' \in [Invites -> {"unset", "armed", "stopped", "fired"}]
           /\ dialog' \in [SipIds -> DialogStates]
<1>1. Stopped(i) \in [Invites -> {"unset", "armed", "stopped", "fired"}]
  BY DEF InvitesTypeOK, Stopped
<1>2. timer' \in [Invites -> {"unset", "armed", "stopped", "fired"}]
  BY <1>1 DEF InvitesTypeOK, rejectWithResponse
<1>3. dialog' \in [SipIds -> DialogStates]
  BY DEF SessionsTypeOK, rejectWithResponse
<1> QED BY <1>2, <1>3

LEMMA FinishType ==
    ASSUME InvitesTypeOK, NEW i \in Invites, NEW reason \in Reasons,
           finishInbound(i, reason)
    PROVE  /\ timer' \in [Invites -> {"unset", "armed", "stopped", "fired"}]
           /\ ended' \in SUBSET Invites
           /\ finishing' \in [Invites -> {"none", "ended", "removed", "told", "done"}]
           /\ stopReason' \in [Invites -> Reasons]
<1>1. CASE i \in ended
  BY <1>1 DEF InvitesTypeOK, finishInbound
<1>2. CASE i \notin ended
  <2>1. timer' \in [Invites -> {"unset", "armed", "stopped", "fired"}]
    <3>1. timer' = Stopped(i)
      BY <1>2 DEF finishInbound
    <3> QED BY <3>1 DEF InvitesTypeOK, Stopped
  <2>2. ended' \in SUBSET Invites
    BY <1>2 DEF InvitesTypeOK, finishInbound
  <2>3. finishing' \in [Invites -> {"none", "ended", "removed", "told", "done"}]
    BY <1>2 DEF InvitesTypeOK, finishInbound
  <2>4. stopReason' \in [Invites -> Reasons]
    BY <1>2 DEF InvitesTypeOK, finishInbound
  <2> QED BY <2>1, <2>2, <2>3, <2>4
<1> QED BY <1>1, <1>2

LEMMA EmitType ==
    ASSUME InvitesTypeOK, NEW i \in Invites,
           NEW kind \in {"ringing", "answered", "stopped"}, emitIncomingEvent(i, kind)
    PROVE  events' \in [Invites -> Seq({"ringing", "answered", "stopped"})]
BY DEF InvitesTypeOK, emitIncomingEvent

LEMMA InvitesUntouched ==
    InvitesTypeOK /\ UNCHANGED inviteVars => InvitesTypeOK'
BY DEF InvitesTypeOK

LEMMA AcceptLookupType ==
    ASSUME TypeInv, NEW u \in Users, NEW i \in Invites, NEW s \in Sessions,
           AcceptLookup(u, i, s)
    PROVE  TypeInv'
BY DEF TypeInv, TypeOK, AttemptOK, Phases, DialPhases, AcceptPhases, SipIds,
       SessionsTypeOK, InvitesTypeOK, AcceptLookup

LEMMA AcceptType ==
    ASSUME TypeInv, NEW s \in Sessions, AcceptStep(s)
    PROVE  TypeInv'
<1> USE DEF TypeInv, TypeOK, AttemptOK, Phases, DialPhases, AcceptPhases
<1>0. phase[s] \in AcceptPhases /\ target[s] \in Invites /\ caller[s] \in Users
  BY DEF AcceptStep, AcceptTooLate, AcceptClaim, AcceptNoMedia, AcceptMediaFails, AcceptRejects,
         AcceptStops, AcceptMedia, AcceptAnswers, AcceptAnswerFails,
         AcceptAnswerStops, AcceptConnects, AcceptRegister, AcceptUnlists,
         AcceptReturns
<1>1. CASE AcceptTooLate(s)
  BY <1>1 DEF AcceptTooLate, SessionsTypeOK, InvitesTypeOK
<1>2. CASE AcceptClaim(s)
  BY <1>0, <1>2, CreatesRow DEF AcceptClaim, Stopped, SessionsTypeOK, InvitesTypeOK
<1>3. CASE AcceptMediaFails(s)
  <2>1. SessionsTypeOK'
    BY <1>3, CloseType DEF AcceptMediaFails, SessionsTypeOK
  <2>2. InvitesTypeOK'
    BY <1>3, InvitesUntouched DEF AcceptMediaFails
  <2>3. AttemptOK'
    BY <1>3 DEF AcceptMediaFails, SessionsTypeOK
  <2> QED BY <2>1, <2>2, <2>3
<1>4. CASE AcceptRejects(s)
  BY <1>0, <1>4, RejectType DEF AcceptRejects, SessionsTypeOK, InvitesTypeOK
<1>5. CASE AcceptStops(s)
  <2>1. SessionsTypeOK'
    <3>1. phase' = [phase EXCEPT ![s] = "failed"] /\ "failed" \in Phases
      BY <1>5 DEF AcceptStops
    <3>2. phase' \in [Sessions -> Phases]
      BY <3>1 DEF SessionsTypeOK
    <3>3. UNCHANGED <<caller, target, fieldVars, closing, callLog, registryVars, dialog>>
      BY <1>5 DEF AcceptStops
    <3> QED BY <3>2, <3>3 DEF SessionsTypeOK
  <2>2. InvitesTypeOK'
    BY <1>0, <1>5, FinishType DEF AcceptStops, Reasons, InvitesTypeOK
  <2>3. AttemptOK'
    <3>1. phase' = [phase EXCEPT ![s] = "failed"] /\ UNCHANGED <<caller, target>>
      BY <1>5 DEF AcceptStops
    <3> QED BY <3>1 DEF SessionsTypeOK
  <2> QED BY <2>1, <2>2, <2>3
<1>6. CASE AcceptMedia(s)
  BY <1>0, <1>6 DEF AcceptMedia, SessionsTypeOK, InvitesTypeOK
<1>7. CASE AcceptAnswers(s)
  <2>1. SessionsTypeOK'
    BY <1>0, <1>7 DEF AcceptAnswers, DialogStates, SessionsTypeOK
  <2>2. InvitesTypeOK'
    BY <1>0, <1>7, InvitesUntouched DEF AcceptAnswers
  <2>3. AttemptOK'
    BY <1>0, <1>7 DEF AcceptAnswers, SessionsTypeOK
  <2> QED BY <2>1, <2>2, <2>3
<1>8. CASE AcceptAnswerFails(s)
  <2>1. SessionsTypeOK'
    BY <1>8, CloseType DEF AcceptAnswerFails, SessionsTypeOK
  <2>2. InvitesTypeOK'
    BY <1>8, InvitesUntouched DEF AcceptAnswerFails
  <2>3. AttemptOK'
    BY <1>8 DEF AcceptAnswerFails, SessionsTypeOK
  <2> QED BY <2>1, <2>2, <2>3
<1>9. CASE AcceptAnswerStops(s)
  <2>1. SessionsTypeOK'
    BY <1>0, <1>9 DEF AcceptAnswerStops, SessionsTypeOK
  <2>2. InvitesTypeOK'
    BY <1>0, <1>9, FinishType DEF AcceptAnswerStops, Reasons, InvitesTypeOK
  <2>3. AttemptOK'
    BY <1>0, <1>9 DEF AcceptAnswerStops, SessionsTypeOK
  <2> QED BY <2>1, <2>2, <2>3
<1>10. CASE AcceptConnects(s)
  BY <1>0, <1>10 DEF AcceptConnects, SessionsTypeOK, InvitesTypeOK
<1>11. CASE AcceptRegister(s)
  BY <1>11, RegisterType DEF AcceptRegister, SessionsTypeOK, InvitesTypeOK
<1>12. CASE AcceptUnlists(s)
  BY <1>12 DEF AcceptUnlists, SessionsTypeOK, InvitesTypeOK
<1>13. CASE AcceptReturns(s)
  BY <1>0, <1>13, EmitType DEF AcceptReturns, SessionsTypeOK, InvitesTypeOK
<1>14. CASE AcceptNoMedia(s)
  <2>1. SessionsTypeOK'
    BY <1>14, EndsRow DEF AcceptNoMedia, SessionsTypeOK
  <2>2. InvitesTypeOK'
    BY <1>14, InvitesUntouched DEF AcceptNoMedia
  <2>3. AttemptOK'
    BY <1>0, <1>14 DEF AcceptNoMedia, SessionsTypeOK
  <2> QED BY <2>1, <2>2, <2>3
<1> QED
  BY <1>1, <1>2, <1>3, <1>4, <1>5, <1>6, <1>7, <1>8, <1>9, <1>10, <1>11, <1>12, <1>13, <1>14
  DEF AcceptStep

LEMMA InviteStepType ==
    ASSUME TypeInv, NEW i \in Invites, InviteStep(i)
    PROVE  TypeInv'
<1> USE DEF TypeInv, TypeOK, AttemptOK
<1>1. CASE InviteRefused(i) /\ UNCHANGED inviteVars
  BY <1>1, InvitesUntouched DEF InviteRefused, DialogStates, SessionsTypeOK
<1>2. CASE InviteArrives(i)
  <2>1. SessionsTypeOK'
    BY <1>2 DEF InviteArrives, DialogStates, SessionsTypeOK
  <2>2. InvitesTypeOK'
    BY <1>2 DEF InviteArrives, InvitesTypeOK
  <2>3. AttemptOK'
    BY <1>2 DEF InviteArrives, SessionsTypeOK
  <2> QED BY <2>1, <2>2, <2>3
<1>3. CASE InviteAnnounced(i)
  BY <1>3, EmitType DEF InviteAnnounced, SessionsTypeOK, InvitesTypeOK
<1>4. CASE RemoteCancels(i)
  <2>1. SessionsTypeOK'
    <3>1. dialog' \in [SipIds -> DialogStates]
      BY <1>4 DEF RemoteCancels, DialogStates, SessionsTypeOK
    <3> QED BY <1>4, <3>1 DEF RemoteCancels, SessionsTypeOK
  <2>2. InvitesTypeOK'
    BY <1>4 DEF RemoteCancels, InvitesTypeOK
  <2>3. AttemptOK'
    BY <1>4 DEF RemoteCancels
  <2> QED BY <2>1, <2>2, <2>3
<1>5. CASE TimerFires(i)
  BY <1>5 DEF TimerFires, SessionsTypeOK, InvitesTypeOK
<1>6. CASE TimerRejects(i)
  BY <1>6, RejectType DEF TimerRejects, SessionsTypeOK, InvitesTypeOK
<1>7. CASE TimerFinishes(i)
  BY <1>7, FinishType DEF TimerFinishes, Reasons, SessionsTypeOK, InvitesTypeOK
<1>8. CASE WatchWakes(i)
  BY <1>8 DEF WatchWakes, SessionsTypeOK, InvitesTypeOK
<1>9. CASE WatchFinishes(i)
  BY <1>9, FinishType DEF WatchFinishes, Reasons, SessionsTypeOK, InvitesTypeOK
<1>10. CASE FinishRemove(i)
  BY <1>10 DEF FinishRemove, SessionsTypeOK, InvitesTypeOK
<1>11. CASE FinishTell(i)
  BY <1>11, EmitType DEF FinishTell, SessionsTypeOK, InvitesTypeOK
<1>12. CASE FinishClose(i)
  <2>1. SessionsTypeOK'
    <3>1. dialog' \in [SipIds -> DialogStates]
      BY <1>12 DEF FinishClose, CloseDialog, AfterClose, SessionsTypeOK
    <3> QED BY <1>12, <3>1 DEF FinishClose, SessionsTypeOK
  <2>2. InvitesTypeOK'
    BY <1>12 DEF FinishClose, InvitesTypeOK
  <2>3. AttemptOK'
    BY <1>12 DEF FinishClose
  <2> QED BY <2>1, <2>2, <2>3
<1>13. ASSUME NEW u \in Decliners, RejectLookup(u, i)
       PROVE  TypeInv'
  BY <1>13 DEF RejectLookup, SessionsTypeOK, InvitesTypeOK
<1>14. ASSUME NEW u \in Decliners, RejectStep(u, i)
       PROVE  TypeInv'
  <2>1. CASE RejectRespond(u, i)
    <3>1. SessionsTypeOK'
      BY <2>1, RejectType DEF RejectRespond, SessionsTypeOK
    <3>2. InvitesTypeOK'
      <4>1. PICK ok \in BOOLEAN :
               /\ rejectWithResponse(i, ok)
               /\ rejecting' = [rejecting EXCEPT ![<<u, i>>] =
                                   IF ok THEN "responded" ELSE "idle"]
        BY <2>1 DEF RejectRespond
      <4>2. timer' \in [Invites -> {"unset", "armed", "stopped", "fired"}]
        BY <4>1, RejectType
      <4>3. rejecting' \in [Users \X Invites -> {"idle", "lookedUp", "responded"}]
        BY <4>1 DEF InvitesTypeOK
      <4> QED BY <2>1, <4>2, <4>3 DEF RejectRespond, InvitesTypeOK
    <3>3. AttemptOK'
      BY <2>1 DEF RejectRespond, SessionsTypeOK
    <3> QED BY <3>1, <3>2, <3>3
  <2>2. CASE RejectFinish(u, i)
    BY <2>2, FinishType DEF RejectFinish, Reasons, SessionsTypeOK, InvitesTypeOK
  <2> QED BY <1>14, <2>1, <2>2 DEF RejectStep
<1> QED
  BY <1>1, <1>2, <1>3, <1>4, <1>5, <1>6, <1>7, <1>8, <1>9, <1>10, <1>11, <1>12,
     <1>13, <1>14 DEF InviteStep, TimerStep, WatchStep, FinishStep

\* TypeInv is inductive, and it is what every later proof starts from.
LEMMA TypeStep == TypeInv /\ [Next]_vars => TypeInv'
<1> SUFFICES ASSUME TypeInv, [Next]_vars PROVE TypeInv'
  OBVIOUS
<1>1. ASSUME UNCHANGED inviteVars, SessionsTypeOK', AttemptOK' PROVE TypeInv'
  BY <1>1 DEF TypeInv, TypeOK, InvitesTypeOK
<1>2. ASSUME NEW s \in Sessions, SessionStep(s) PROVE TypeInv'
  <2>1. ASSUME NEW u \in Dialers, DialCheck(u, s), UNCHANGED inviteVars PROVE TypeInv'
    BY <1>1, <2>1, DialersAreUsers
    DEF DialCheck, TypeInv, TypeOK, AttemptOK, SessionsTypeOK, Phases, DialPhases,
        AcceptPhases, SipIds
  <2> QED
    BY <1>1, <1>2, <2>1, DialType, CloseStepType, AcceptLookupType, AcceptType
    DEF SessionStep, Dial, CloseStep
<1>3. ASSUME NEW d \in SipIds, RemoteBye(d) PROVE TypeInv'
  BY <1>1, <1>3, ByeType DEF RemoteBye
<1>4. CASE UNCHANGED vars
  BY <1>4 DEF vars, TypeInv, TypeOK, AttemptOK, SessionsTypeOK, InvitesTypeOK
<1> QED BY <1>2, <1>3, <1>4, InviteStepType DEF Next, Quiescent

LEMMA TypeInit == Init => TypeInv
BY DEF Init, SessionsInit, InvitesInit, TypeInv, TypeOK, AttemptOK, SessionsTypeOK, LogStates,
       InvitesTypeOK, Phases, DialPhases, AcceptPhases, DialogStates, Reasons

THEOREM AttemptsTyped == Safety => []TypeInv
BY TypeInit, TypeStep, PTL DEF Safety

\* Every variable keeps its type.
THEOREM TypeCorrect == Safety => []TypeOK
BY AttemptsTyped, PTL DEF TypeInv

---------------------------------------------------------------------------
(* The indexes agree.                                                      *)

\* From these phases on the session has its dialog.
BoundOK ==
    \A s \in Sessions :
        phase[s] \in {"answered", "negotiated", "responded", "connected",
                     "registered", "unlisted", "returned"} => bound[s]

RegistryInv == RegistryCoherent /\ BoundOK

\* Whatever leaves the indexes and the registered sessions alone is harmless.
LEMMA RegistryFrame ==
    ASSUME TypeInv, RegistryInv, BoundOK', UNCHANGED registryVars,
           \A s \in Sessions : Registered(s) =>
               Registered(s)' /\ bound'[s] /\ UNCHANGED <<target[s], userID[s]>>
    PROVE  RegistryInv'
<1>1. \A s \in callsByID : s \in Sessions /\ Registered(s)
  BY DEF TypeInv, TypeOK, SessionsTypeOK, RegistryInv, RegistryCoherent
<1>2. \A d \in SipIds : callsBySIPID'[d] # NoSession =>
          callsBySIPID'[d] \in callsByID' /\ target'[callsBySIPID'[d]] = d
  BY <1>1 DEF RegistryInv, RegistryCoherent
<1>3. \A u \in Users : callsByUser'[u] # NoSession =>
          callsByUser'[u] \in callsByID' /\ userID'[callsByUser'[u]] = u
  BY <1>1 DEF RegistryInv, RegistryCoherent
<1>4. \A s \in callsByID' : bound'[s] /\ Registered(s)'
  BY <1>1
<1> QED BY <1>2, <1>3, <1>4 DEF RegistryInv, RegistryCoherent

LEMMA RegistryRegister ==
    ASSUME TypeInv, RegistryInv, BoundOK', NEW s \in Sessions, registerCall(s),
           UNCHANGED <<target, userID, bound>>, Registered(s)',
           \A t \in Sessions : Registered(t) => Registered(t)'
    PROVE  RegistryInv'
<1> USE DEF RegistryInv, RegistryCoherent, registerCall, TypeInv, TypeOK, SessionsTypeOK
<1>1. \A d \in SipIds : callsBySIPID'[d] # NoSession =>
          callsBySIPID'[d] \in callsByID' /\ target'[callsBySIPID'[d]] = d
  OBVIOUS
<1>2. \A u \in Users : callsByUser'[u] # NoSession =>
          callsByUser'[u] \in callsByID' /\ userID'[callsByUser'[u]] = u
  OBVIOUS
<1>3. \A t \in callsByID' : bound'[t] /\ Registered(t)'
  BY DEF BoundOK, Registered, InPhases
<1> QED BY <1>1, <1>2, <1>3

LEMMA RegistryUnregister ==
    ASSUME TypeInv, RegistryInv, NEW s \in Sessions, CloseUnregister(s)
    PROVE  RegistryInv'
<1> USE DEF RegistryInv, RegistryCoherent, CloseUnregister, unregisterCall, TypeInv,
            TypeOK, SessionsTypeOK
<1>1. \A d \in SipIds : callsBySIPID'[d] # NoSession =>
          callsBySIPID'[d] \in callsByID' /\ target'[callsBySIPID'[d]] = d
  OBVIOUS
<1>2. \A u \in Users : callsByUser'[u] # NoSession =>
          callsByUser'[u] \in callsByID' /\ userID'[callsByUser'[u]] = u
  OBVIOUS
<1>3. \A t \in callsByID' : bound'[t] /\ Registered(t)'
  BY DEF Registered, InPhases
<1> QED BY <1>1, <1>2, <1>3 DEF BoundOK

LEMMA RegistryDial ==
    ASSUME TypeInv, RegistryInv, NEW s \in Sessions, StartCallStep(s)
    PROVE  RegistryInv'
<1> USE DEF TypeInv, TypeOK, SessionsTypeOK, Registered, InPhases, BoundOK, RegistryInv
<1>1. CASE DialRefused(s)
  BY <1>1, RegistryFrame DEF DialRefused
<1>2. CASE DialMediaFails(s)
  BY <1>2, RegistryFrame DEF DialMediaFails
<1>3. CASE DialInvite(s)
  BY <1>3, RegistryFrame DEF DialInvite
<1>4. CASE DialAnswered(s)
  BY <1>4, RegistryFrame DEF DialAnswered
<1>5. CASE DialInviteFails(s)
  BY <1>5, RegistryFrame DEF DialInviteFails
<1>6. CASE DialBadSDP(s)
  BY <1>6, RegistryFrame DEF DialBadSDP
<1>7. CASE DialRegister(s)
  BY <1>7, RegistryRegister DEF DialRegister
<1>8. CASE DialAbort(s)
  BY <1>8, RegistryFrame DEF DialAbort
<1>9. CASE DialNoMedia(s)
  BY <1>9, RegistryFrame DEF DialNoMedia
<1> QED
  BY <1>1, <1>2, <1>3, <1>4, <1>5, <1>6, <1>7, <1>8, <1>9 DEF StartCallStep

LEMMA RegistryAccept ==
    ASSUME TypeInv, RegistryInv, NEW s \in Sessions, AcceptStep(s)
    PROVE  RegistryInv'
<1> USE DEF TypeInv, TypeOK, SessionsTypeOK, Registered, InPhases, BoundOK, RegistryInv
<1>1. CASE AcceptTooLate(s)
  BY <1>1, RegistryFrame DEF AcceptTooLate
<1>2. CASE AcceptClaim(s)
  BY <1>2, RegistryFrame DEF AcceptClaim
<1>3. CASE AcceptMediaFails(s)
  BY <1>3, RegistryFrame DEF AcceptMediaFails
<1>4. CASE AcceptRejects(s)
  BY <1>4, RegistryFrame DEF AcceptRejects
<1>5. CASE AcceptStops(s)
  BY <1>5, RegistryFrame DEF AcceptStops
<1>6. CASE AcceptMedia(s)
  BY <1>6, RegistryFrame DEF AcceptMedia
<1>7. CASE AcceptAnswers(s)
  BY <1>7, RegistryFrame DEF AcceptAnswers
<1>8. CASE AcceptAnswerFails(s)
  BY <1>8, RegistryFrame DEF AcceptAnswerFails
<1>9. CASE AcceptAnswerStops(s)
  BY <1>9, RegistryFrame DEF AcceptAnswerStops
<1>10. CASE AcceptConnects(s)
  BY <1>10, RegistryFrame DEF AcceptConnects
<1>11. CASE AcceptRegister(s)
  BY <1>11, RegistryRegister DEF AcceptRegister
<1>12. CASE AcceptUnlists(s)
  BY <1>12, RegistryFrame DEF AcceptUnlists
<1>13. CASE AcceptReturns(s)
  BY <1>13, RegistryFrame DEF AcceptReturns
<1>14. CASE AcceptNoMedia(s)
  BY <1>14, RegistryFrame DEF AcceptNoMedia
<1> QED
  BY <1>1, <1>2, <1>3, <1>4, <1>5, <1>6, <1>7, <1>8, <1>9, <1>10, <1>11, <1>12, <1>13, <1>14
  DEF AcceptStep

\* Steps that move no session on and set no field of one.
LEMMA RegistryStill ==
    ASSUME TypeInv, RegistryInv, UNCHANGED <<attemptVars, fieldVars, registryVars>>
    PROVE  RegistryInv'
BY RegistryFrame
DEF RegistryInv, RegistryCoherent, TypeInv, TypeOK, SessionsTypeOK, BoundOK, Registered, InPhases

LEMMA InviteStepStill ==
    ASSUME NEW i \in Invites, InviteStep(i)
    PROVE  UNCHANGED <<attemptVars, fieldVars, registryVars>>
<1>1. ASSUME NEW u \in Decliners, RejectLookup(u, i) \/ RejectStep(u, i)
      PROVE  UNCHANGED <<attemptVars, fieldVars, registryVars>>
  BY <1>1 DEF RejectLookup, RejectStep, RejectRespond, RejectFinish
<1> QED
  BY <1>1 DEF InviteStep, InviteRefused, InviteArrives, InviteAnnounced, RemoteCancels,
     TimerFires, TimerStep, TimerRejects, TimerFinishes, WatchStep, WatchWakes,
     WatchFinishes, FinishStep, FinishRemove, FinishTell, FinishClose

LEMMA RegistryStep == TypeInv /\ RegistryInv /\ [Next]_vars => RegistryInv'
<1> SUFFICES ASSUME TypeInv, RegistryInv, [Next]_vars PROVE RegistryInv'
  OBVIOUS
<1>1. ASSUME NEW s \in Sessions, SessionStep(s) PROVE RegistryInv'
  <2>1. ASSUME NEW u \in Dialers, DialCheck(u, s) PROVE RegistryInv'
    BY <2>1, RegistryFrame
    DEF DialCheck, TypeInv, TypeOK, SessionsTypeOK, Registered, InPhases, BoundOK, RegistryInv
  <2>2. ASSUME NEW u \in Users, NEW i \in Invites, AcceptLookup(u, i, s)
        PROVE  RegistryInv'
    BY <2>2, RegistryFrame
    DEF AcceptLookup, TypeInv, TypeOK, SessionsTypeOK, Registered, InPhases, BoundOK, RegistryInv
  <2>3. CASE PeerConnectionFails(s) \/ Hangup(s) \/ CloseFinish(s)
    BY <2>3, RegistryStill DEF PeerConnectionFails, Hangup, CloseFinish
  <2> QED
    BY <1>1, <2>1, <2>2, <2>3, RegistryDial, RegistryAccept, RegistryUnregister
    DEF SessionStep, Dial, CloseStep
<1>2. ASSUME NEW i \in Invites, InviteStep(i) PROVE RegistryInv'
  BY <1>2, InviteStepStill, RegistryStill
<1>3. ASSUME NEW d \in SipIds, RemoteBye(d) PROVE RegistryInv'
  BY <1>3, RegistryStill DEF RemoteBye, onRemoteBye
<1>4. CASE UNCHANGED vars
  BY <1>4, RegistryStill DEF vars
<1> QED BY <1>1, <1>2, <1>3, <1>4 DEF Next, Quiescent

LEMMA RegistryInit == Init => RegistryInv
BY DEF Init, SessionsInit, RegistryInv, RegistryCoherent, BoundOK

\* callsByID, callsBySIPID and callsByUser agree with each other and with the
\* sessions they hold, in every interleaving of calls being set up and closed.
THEOREM RegistryAlwaysCoherent == Safety => []RegistryCoherent
<1>1. Safety => []RegistryInv
  BY TypeInit, TypeStep, RegistryInit, RegistryStep, PTL DEF Safety
<1> QED BY <1>1, PTL DEF RegistryInv

---------------------------------------------------------------------------
(* Every row of call_logs is handed to EndCallLog once, when its call is    *)
(* over.                                                                   *)

Rowless == {"none", "dialing", "lookedUp"}
Broken == {"mediaFailed", "stopping", "failed"}

\* There is no row before the call has begun, and no close before there is a
\* session; whoever comes to the end of a call has run close, or has ended the
\* row of a session that never was; nobody else ends it.
LogOK(s) ==
    /\ phase[s] \in Rowless => callLog[s] = "none"
    /\ phase[s] \in Rowless \cup {"accepting"} =>
          userID[s] = NoUser /\ closing[s] = "open"
    /\ phase[s] \in {"aborting", "answerFailed"} => closing[s] # "open"
    /\ phase[s] \in {"stopping", "failed"} => NotClosing(s)
    /\ phase[s] \in Broken /\ closing[s] = "open" =>
          userID[s] = NoUser /\ callLog[s] # "open"
    /\ closing[s] = "closed" => callLog[s] # "open"
    /\ callLog[s] \in {"ended", "unended"} =>
          closing[s] = "closed" \/ (closing[s] = "open" /\ phase[s] \in Broken)
    /\ callLog[s] # "overwritten"

LogInv == \A s \in Sessions : LogOK(s)

\* Neither begun nor finished: the row is as it was.
LEMMA LogFrame ==
    ASSUME LogInv, UNCHANGED <<phase, userID, closing, callLog>> PROVE LogInv'
BY DEF LogInv, LogOK, NotClosing

\* A step of one session needs to be looked at for that session only.
LEMMA LogOne ==
    ASSUME LogInv, NEW s \in Sessions, LogOK(s)',
           \A t \in Sessions : t # s =>
               UNCHANGED <<phase[t], userID[t], closing[t], callLog[t]>>
    PROVE  LogInv'
BY DEF LogInv, LogOK, NotClosing

LEMMA CloseClaims ==
    ASSUME SessionsTypeOK, NEW s \in Sessions, NEW b \in BOOLEAN, close(s, b)
    PROVE  \A t \in Sessions :
              closing'[t] = IF t = s /\ closing[s] = "open" THEN "claimed" ELSE closing[t]
BY DEF close, SessionsTypeOK

\* A session that is not on its way out comes to its end through close.
LEMMA LogClose ==
    ASSUME TypeInv, LogInv, NEW s \in Sessions, NEW b \in BOOLEAN, close(s, b),
           UNCHANGED <<userID, callLog>>,
           phase[s] \notin Rowless \cup Broken,
           phase'[s] \notin Rowless \cup {"accepting", "stopping", "failed"},
           \A t \in Sessions : t # s => phase'[t] = phase[t]
    PROVE  LogInv'
<1>1. \A t \in Sessions :
          closing'[t] = IF t = s /\ closing[s] = "open" THEN "claimed" ELSE closing[t]
  BY CloseClaims DEF TypeInv, TypeOK
<1>2. LogOK(s)'
  BY <1>1 DEF LogInv, LogOK, Rowless, Broken, NotClosing
<1> QED BY <1>1, <1>2, LogOne

LEMMA LogDial ==
    ASSUME TypeInv, LogInv, NEW s \in Sessions, StartCallStep(s)
    PROVE  LogInv'
<1> USE DEF TypeInv, TypeOK, SessionsTypeOK
<1> LogOK(s)
  BY DEF LogInv
<1>1. CASE DialRefused(s) \/ DialAbort(s)
  <2>1. LogOK(s)'
    BY <1>1 DEF DialRefused, DialAbort, LogOK, NotClosing, Rowless, Broken
  <2> QED BY <1>1, <2>1, LogOne DEF DialRefused, DialAbort
<1>2. CASE DialMediaFails(s)
  <2>1. /\ \A t \in Sessions : t # s => UNCHANGED <<closing[t], callLog[t]>>
        /\ closing'[s] = "claimed" /\ callLog'[s] \in {"none", "open"}
    BY <1>2, CloseClaims, CreatesRow DEF DialMediaFails, LogOK, Rowless
  <2>2. LogOK(s)'
    BY <1>2, <2>1 DEF DialMediaFails, LogOK, NotClosing, Rowless, Broken
  <2> QED BY <1>2, <2>1, <2>2, LogOne DEF DialMediaFails
<1>3. CASE DialInvite(s)
  <2>1. /\ \A t \in Sessions : t # s => callLog'[t] = callLog[t]
        /\ callLog'[s] \in {"none", "open"}
    BY <1>3, CreatesRow DEF DialInvite
  <2>2. LogOK(s)'
    BY <1>3, <2>1 DEF DialInvite, LogOK, NotClosing, Rowless, Broken
  <2> QED BY <1>3, <2>1, <2>2, LogOne DEF DialInvite
<1>4. CASE DialAnswered(s) \/ DialRegister(s)
  <2>1. LogOK(s)'
    BY <1>4 DEF DialAnswered, DialRegister, LogOK, NotClosing, Rowless, Broken
  <2> QED BY <1>4, <2>1, LogOne DEF DialAnswered, DialRegister
<1>5. CASE DialInviteFails(s)
  BY <1>5, LogClose DEF DialInviteFails, Rowless, Broken
<1>6. CASE DialBadSDP(s)
  BY <1>6, LogClose DEF DialBadSDP, Rowless, Broken
<1>7. CASE DialNoMedia(s)
  <2>1. LogOK(s)'
    BY <1>7, NoMediaRow DEF DialNoMedia, LogOK, NotClosing, Rowless, Broken
  <2> QED BY <1>7, <2>1, NoMediaRow, LogOne DEF DialNoMedia
<1> QED BY <1>1, <1>2, <1>3, <1>4, <1>5, <1>6, <1>7 DEF StartCallStep

LEMMA LogAccept ==
    ASSUME TypeInv, LogInv, NEW s \in Sessions, AcceptStep(s)
    PROVE  LogInv'
<1> USE DEF TypeInv, TypeOK, SessionsTypeOK
<1> LogOK(s)
  BY DEF LogInv
<1>1. CASE AcceptTooLate(s) \/ AcceptStops(s) \/ AcceptAnswerStops(s)
  <2>1. LogOK(s)'
    BY <1>1 DEF AcceptTooLate, AcceptStops, AcceptAnswerStops,
                LogOK, NotClosing, Rowless, Broken
  <2> QED BY <1>1, <2>1, LogOne DEF AcceptTooLate, AcceptStops, AcceptAnswerStops
<1>2. CASE AcceptClaim(s)
  <2>1. /\ \A t \in Sessions : t # s => callLog'[t] = callLog[t]
        /\ callLog'[s] \in {"none", "open"}
    BY <1>2, CreatesRow DEF AcceptClaim
  <2>2. LogOK(s)'
    BY <1>2, <2>1 DEF AcceptClaim, LogOK, NotClosing, Rowless, Broken
  <2> QED BY <1>2, <2>1, <2>2, LogOne DEF AcceptClaim
<1>3. CASE AcceptMediaFails(s)
  BY <1>3, LogClose DEF AcceptMediaFails, Rowless, Broken
<1>4. CASE AcceptAnswerFails(s)
  BY <1>4, LogClose DEF AcceptAnswerFails, Rowless, Broken
<1>5. CASE AcceptRejects(s)
  <2>1. LogOK(s)'
    BY <1>5 DEF AcceptRejects, LogOK, NotClosing, Rowless, Broken
  <2> QED BY <1>5, <2>1, LogOne DEF AcceptRejects
<1>6. CASE AcceptMedia(s)
  <2>1. LogOK(s)'
    BY <1>6 DEF AcceptMedia, LogOK, NotClosing, Rowless, Broken
  <2> QED BY <1>6, <2>1, LogOne DEF AcceptMedia
<1>7. CASE AcceptAnswers(s) \/ AcceptConnects(s) \/ AcceptRegister(s)
           \/ AcceptUnlists(s) \/ AcceptReturns(s)
  <2>1. LogOK(s)'
    BY <1>7 DEF AcceptAnswers, AcceptConnects, AcceptRegister, AcceptUnlists,
                AcceptReturns, LogOK, NotClosing, Rowless, Broken
  <2> QED
    BY <1>7, <2>1, LogOne
    DEF AcceptAnswers, AcceptConnects, AcceptRegister, AcceptUnlists, AcceptReturns
<1>8. CASE AcceptNoMedia(s)
  <2>1. LogOK(s)'
    BY <1>8, EndsRow DEF AcceptNoMedia, LogOK, NotClosing, Rowless, Broken, LogStates
  <2> QED BY <1>8, <2>1, EndsRow, LogOne DEF AcceptNoMedia
<1> QED BY <1>1, <1>2, <1>3, <1>4, <1>5, <1>6, <1>7, <1>8 DEF AcceptStep

LEMMA LogStep == TypeInv /\ RegistryInv /\ LogInv /\ [Next]_vars => LogInv'
<1> SUFFICES ASSUME TypeInv, RegistryInv, LogInv, [Next]_vars PROVE LogInv'
  OBVIOUS
<1> USE DEF TypeInv, TypeOK
<1>1. ASSUME NEW s \in Sessions, SessionStep(s) PROVE LogInv'
  <2> LogOK(s)
    BY DEF LogInv
  <2> USE DEF SessionsTypeOK
  <2>1. ASSUME NEW u \in Dialers, DialCheck(u, s) PROVE LogInv'
    <3>1. LogOK(s)'
      BY <2>1 DEF DialCheck, LogOK, NotClosing, Rowless, Broken
    <3> QED BY <2>1, <3>1, LogOne DEF DialCheck
  <2>2. ASSUME NEW u \in Users, NEW i \in Invites, AcceptLookup(u, i, s) PROVE LogInv'
    <3>1. LogOK(s)'
      BY <2>2 DEF AcceptLookup, LogOK, NotClosing, Rowless, Broken
    <3> QED BY <2>2, <3>1, LogOne DEF AcceptLookup
  <2>3. CASE PeerConnectionFails(s)
    BY <2>3, LogClose DEF PeerConnectionFails, LogOK, Rowless, Broken
  <2>4. CASE Hangup(s)
    BY <2>4, LogClose DEF Hangup, Rowless, Broken
  <2>5. CASE CloseUnregister(s)
    <3>1. LogOK(s)'
      BY <2>5 DEF CloseUnregister, LogOK, NotClosing, Rowless, Broken
    <3> QED BY <2>5, <3>1, LogOne DEF CloseUnregister
  <2>6. CASE CloseFinish(s)
    <3>1. LogOK(s)'
      BY <2>6, EndsRow DEF CloseFinish, LogOK, NotClosing, Rowless, Broken, LogStates
    <3> QED BY <2>6, <3>1, EndsRow, LogOne DEF CloseFinish
  <2> QED
    BY <1>1, <2>1, <2>2, <2>3, <2>4, <2>5, <2>6, LogDial, LogAccept
    DEF SessionStep, Dial, CloseStep
<1>2. ASSUME NEW i \in Invites, InviteStep(i) PROVE LogInv'
  <2>1. UNCHANGED <<closing, callLog>>
    <3>1. ASSUME NEW u \in Decliners, RejectLookup(u, i) \/ RejectStep(u, i)
          PROVE  UNCHANGED <<closing, callLog>>
      BY <3>1 DEF RejectLookup, RejectStep, RejectRespond, RejectFinish
    <3> QED
      BY <1>2, <3>1 DEF InviteStep, InviteRefused, InviteArrives, InviteAnnounced,
         RemoteCancels, TimerFires, TimerStep, TimerRejects, TimerFinishes, WatchStep,
         WatchWakes, WatchFinishes, FinishStep, FinishRemove, FinishTell, FinishClose
  <2> QED BY <1>2, <2>1, InviteStepStill, LogFrame
<1>3. ASSUME NEW d \in SipIds, RemoteBye(d) PROVE LogInv'
  <2>1. \A s \in Sessions : closing'[s] # closing[s] =>
            /\ closing[s] = "open" /\ closing'[s] = "claimed"
            /\ Registered(s)
    BY <1>3 DEF RemoteBye, onRemoteBye, SessionsTypeOK, RegistryInv, RegistryCoherent
  <2>2. UNCHANGED <<phase, userID, callLog>>
    BY <1>3 DEF RemoteBye, onRemoteBye
  <2> QED
    BY <2>1, <2>2 DEF LogInv, LogOK, NotClosing, Rowless, Broken, Registered, InPhases
<1>4. CASE UNCHANGED vars
  BY <1>4, LogFrame DEF vars
<1> QED BY <1>1, <1>2, <1>3, <1>4 DEF Next, Quiescent

LEMMA LogInit == Init => LogInv
BY DEF Init, SessionsInit, LogInv, LogOK, NotClosing, Rowless, Broken

\* Whatever breaks off a call, and whichever statement fails, the row of the call
\* is handed to EndCallLog, exactly once, and not while the call is up.
THEOREM LogsAlwaysSettled == Safety => []CallLogSettled
<1>1. TypeInv /\ LogInv => CallLogSettled
  BY DEF TypeInv, TypeOK, SessionsTypeOK, LogStates, LogInv, LogOK, NotClosing, Broken,
         CallLogSettled, Registered, InPhases
<1>2. Safety => [](TypeInv /\ LogInv)
  BY TypeInit, TypeStep, RegistryInit, RegistryStep, LogInit, LogStep, PTL DEF Safety
<1> QED BY <1>1, <1>2, PTL

---------------------------------------------------------------------------
(***************************************************************************)
(* The end of inbound calls: it is announced at most once, none disappears *)
(* without an announcement, the timer is off once a call is being          *)
(* answered, and a connected call is not refused by a goroutine that comes *)
(* late.                                                                   *)
(***************************************************************************)

---------------------------------------------------------------------------
(* Steps that do not concern the invites.                                  *)

\* The invites, and the accepts of them, stay where they are.
Aside ==
    /\ UNCHANGED inviteVars
    /\ \A s \in Sessions : phase'[s] \in AcceptPhases =>
          phase'[s] = phase[s] /\ target'[s] = target[s]
    /\ \A s \in Sessions : phase[s] \in AcceptPhases => phase'[s] = phase[s]
    /\ \A i \in Invites : dialog[i] # dialog'[i] =>
          dialog[i] \in {"invited", "established"} /\ dialog'[i] \in {"dropped", "ended"}

LEMMA CloseMovesDialog ==
    ASSUME SessionsTypeOK, NEW s \in Sessions, NEW b \in BOOLEAN, close(s, b)
    PROVE  \A d \in SipIds : dialog[d] # dialog'[d] =>
             /\ dialog[d] \in {"invited", "established"}
             /\ dialog'[d] \in {"dropped", "ended"}
             /\ target[s] = d /\ closing[s] = "open" /\ closing'[s] = "claimed"
BY DEF SessionsTypeOK, close, CloseDialog, AfterClose, DialogStates

LEMMA InvitesAreNotSessions == \A i \in Invites : i \in SipIds /\ i \notin Sessions
BY NamesAreDistinct DEF SipIds

LEMMA DialAside ==
    ASSUME TypeInv, NEW s \in Sessions, StartCallStep(s), UNCHANGED inviteVars
    PROVE  Aside
<1> USE InvitesAreNotSessions DEF TypeInv, TypeOK, Aside, AcceptPhases
<1>1. CASE DialRefused(s)
  BY <1>1 DEF DialRefused, SessionsTypeOK
<1>2. CASE DialMediaFails(s)
  <2>1. close(s, FALSE)
    BY <1>2 DEF DialMediaFails
  <2>2. \A t \in Sessions : phase[t] \in AcceptPhases \/ phase'[t] \in AcceptPhases =>
            phase'[t] = phase[t] /\ target'[t] = target[t]
    BY <1>2 DEF DialMediaFails, SessionsTypeOK
  <2> QED BY <2>1, <2>2, CloseMovesDialog
<1>3. CASE DialInvite(s)
  BY <1>3 DEF DialInvite, SessionsTypeOK
<1>4. CASE DialAnswered(s)
  BY <1>4 DEF DialAnswered, SessionsTypeOK
<1>5. CASE DialInviteFails(s)
  <2>1. close(s, FALSE)
    BY <1>5 DEF DialInviteFails
  <2>2. \A t \in Sessions : phase[t] \in AcceptPhases \/ phase'[t] \in AcceptPhases =>
            phase'[t] = phase[t] /\ target'[t] = target[t]
    BY <1>5 DEF DialInviteFails, SessionsTypeOK
  <2> QED BY <2>1, <2>2, CloseMovesDialog
<1>6. CASE DialBadSDP(s)
  <2>1. close(s, TRUE)
    BY <1>6 DEF DialBadSDP
  <2>2. \A t \in Sessions : phase[t] \in AcceptPhases \/ phase'[t] \in AcceptPhases =>
            phase'[t] = phase[t] /\ target'[t] = target[t]
    BY <1>6 DEF DialBadSDP, SessionsTypeOK
  <2> QED BY <2>1, <2>2, CloseMovesDialog
<1>7. CASE DialRegister(s)
  BY <1>7 DEF DialRegister, SessionsTypeOK
<1>8. CASE DialAbort(s)
  BY <1>8 DEF DialAbort, SessionsTypeOK
<1>9. CASE DialNoMedia(s)
  BY <1>9 DEF DialNoMedia, SessionsTypeOK
<1> QED
  BY <1>1, <1>2, <1>3, <1>4, <1>5, <1>6, <1>7, <1>8, <1>9 DEF StartCallStep

LEMMA CloseAside ==
    ASSUME TypeInv, NEW s \in Sessions, UNCHANGED inviteVars,
           \/ PeerConnectionFails(s) \/ Hangup(s)
           \/ CloseUnregister(s) \/ CloseFinish(s)
    PROVE  Aside
<1> USE InvitesAreNotSessions DEF TypeInv, TypeOK, Aside
<1>1. CASE PeerConnectionFails(s)
  BY <1>1, CloseMovesDialog DEF PeerConnectionFails
<1>2. CASE Hangup(s)
  BY <1>2, CloseMovesDialog DEF Hangup
<1>3. CASE CloseUnregister(s) \/ CloseFinish(s)
  BY <1>3 DEF CloseUnregister, CloseFinish
<1> QED BY <1>1, <1>2, <1>3

LEMMA AsideSteps ==
    ASSUME TypeInv, [Next]_vars,
           ~ \E s \in Sessions : AcceptStep(s),
           ~ \E u \in Users, i \in Invites, s \in Sessions : AcceptLookup(u, i, s),
           ~ \E i \in Invites : InviteStep(i)
    PROVE  Aside
<1>1. ASSUME NEW s \in Sessions, SessionStep(s) PROVE Aside
  <2>1. ASSUME NEW u \in Dialers, DialCheck(u, s), UNCHANGED inviteVars PROVE Aside
    BY <2>1 DEF DialCheck, Aside, AcceptPhases, TypeInv, TypeOK, SessionsTypeOK
  <2> QED BY <1>1, <2>1, DialAside, CloseAside DEF SessionStep, Dial, CloseStep
<1>2. ASSUME NEW d \in SipIds, RemoteBye(d) PROVE Aside
  BY <1>2, InvitesAreNotSessions
  DEF RemoteBye, onRemoteBye, Aside, TypeInv, TypeOK, SessionsTypeOK
<1>3. CASE UNCHANGED vars
  BY <1>3 DEF vars, Aside
<1> QED BY <1>1, <1>2, <1>3 DEF Next, Quiescent

---------------------------------------------------------------------------
(* What has been emitted.                                                  *)

LEMMA EmitTimes ==
    ASSUME InvitesTypeOK, NEW i \in Invites, NEW kind, emitIncomingEvent(i, kind),
           NEW j \in Invites, NEW k
    PROVE  Times(k, j)' = IF j = i /\ k = kind
                          THEN Times(k, j) \cup {Len(events[j]) + 1}
                          ELSE Times(k, j)
<1>1. events[i] \in Seq({"ringing", "answered", "stopped"})
  BY DEF InvitesTypeOK
<1>2. CASE j = i
  <2>1. events'[j] = Append(events[j], kind)
    BY <1>2 DEF emitIncomingEvent, InvitesTypeOK
  <2>2. /\ Len(events'[j]) = Len(events[j]) + 1
        /\ events'[j][Len(events[j]) + 1] = kind
        /\ \A n \in 1..Len(events[j]) : events'[j][n] = events[j][n]
    BY <1>1, <1>2, <2>1
  <2>3. Len(events[j]) \in Nat
    BY <1>1, <1>2
  <2> QED BY <1>2, <2>2, <2>3 DEF Times
<1>3. CASE j # i
  BY <1>3 DEF emitIncomingEvent, InvitesTypeOK, Times
<1> QED BY <1>2, <1>3

LEMMA SilentTimes ==
    ASSUME UNCHANGED events PROVE \A j, k : Times(k, j)' = Times(k, j)
BY DEF Times

---------------------------------------------------------------------------
(* Every other step is about one invite and leaves the others alone.       *)

Elsewhere(i) ==
    \A j \in Invites : j # i =>
        /\ UNCHANGED <<invUsers[j], timer[j], finishing[j], expiring[j], watcher[j], dialog[j]>>
        /\ j \in listed' <=> j \in listed
        /\ j \in ended' <=> j \in ended
        /\ j \in connected' <=> j \in connected
        /\ \A u \in Users : rejecting'[<<u, j>>] = rejecting[<<u, j>>]
        /\ Times("stopped", j)' = Times("stopped", j)
        /\ Times("answered", j)' = Times("answered", j)

LEMMA StillElsewhere ==
    ASSUME UNCHANGED inviteVars, NEW i \in Invites,
           \A j \in Invites : j # i => dialog'[j] = dialog[j]
    PROVE  Elsewhere(i)
<1>1. /\ UNCHANGED <<invUsers, timer, finishing, expiring, watcher, rejecting>>
      /\ UNCHANGED <<listed, ended, connected, events>>
  OBVIOUS
<1> QED BY <1>1, SilentTimes DEF Elsewhere

LEMMA StoppedElsewhere ==
    ASSUME InvitesTypeOK, NEW i \in Invites, timer' = Stopped(i)
    PROVE  \A j \in Invites : j # i => timer'[j] = timer[j]
BY DEF InvitesTypeOK, Stopped

LEMMA FinishElsewhere ==
    ASSUME InvitesTypeOK, NEW i \in Invites, NEW reason, finishInbound(i, reason)
    PROVE  \A j \in Invites : j # i =>
              /\ timer'[j] = timer[j] /\ finishing'[j] = finishing[j]
              /\ j \in ended' <=> j \in ended
<1>1. CASE i \in ended
  BY <1>1 DEF finishInbound
<1>2. CASE i \notin ended
  BY <1>2, StoppedElsewhere DEF finishInbound, InvitesTypeOK
<1> QED BY <1>1, <1>2

LEMMA RejectElsewhere ==
    ASSUME SessionsTypeOK, InvitesTypeOK, NEW i \in Invites, NEW ok \in BOOLEAN,
           rejectWithResponse(i, ok)
    PROVE  \A j \in Invites : j # i => timer'[j] = timer[j] /\ dialog'[j] = dialog[j]
<1>1. CASE i \in ended \cup connected
  BY <1>1 DEF rejectWithResponse
<1>2. CASE i \notin ended \cup connected
  BY <1>2, StoppedElsewhere, InvitesAreNotSessions DEF rejectWithResponse, SessionsTypeOK
<1> QED BY <1>1, <1>2

LEMMA AcceptElsewhere ==
    ASSUME TypeInv, NEW s \in Sessions, AcceptStep(s)
    PROVE  /\ phase[s] \in AcceptPhases /\ target[s] \in Invites
           /\ Elsewhere(target[s])
           /\ UNCHANGED <<target, invUsers>>
           /\ \A t \in Sessions : t # s => phase'[t] = phase[t]
<1> USE InvitesAreNotSessions DEF TypeInv, TypeOK
<1>0. phase[s] \in AcceptPhases /\ target[s] \in Invites
  BY DEF AcceptStep, AcceptTooLate, AcceptClaim, AcceptNoMedia, AcceptMediaFails, AcceptRejects,
         AcceptStops, AcceptMedia, AcceptAnswers, AcceptAnswerFails,
         AcceptAnswerStops, AcceptConnects, AcceptRegister, AcceptUnlists,
         AcceptReturns, AttemptOK, AcceptPhases
<1>a. /\ UNCHANGED <<target, invUsers>>
      /\ \A t \in Sessions : t # s => phase'[t] = phase[t]
  BY DEF AcceptStep, AcceptTooLate, AcceptClaim, AcceptNoMedia, AcceptMediaFails, AcceptRejects,
         AcceptStops, AcceptMedia, AcceptAnswers, AcceptAnswerFails,
         AcceptAnswerStops, AcceptConnects, AcceptRegister, AcceptUnlists,
         AcceptReturns, SessionsTypeOK
<1>1. CASE AcceptTooLate(s) \/ AcceptNoMedia(s) \/ AcceptMedia(s) \/ AcceptRegister(s)
  <2>1. UNCHANGED <<inviteVars, dialog>>
    BY <1>1 DEF AcceptTooLate, AcceptNoMedia, AcceptMedia, AcceptRegister
  <2> QED BY <1>0, <1>a, <2>1, StillElsewhere
<1>2. CASE AcceptClaim(s)
  BY <1>0, <1>2, StoppedElsewhere, SilentTimes DEF AcceptClaim, Elsewhere
<1>3. CASE AcceptMediaFails(s) \/ AcceptAnswerFails(s)
  <2>1. close(s, FALSE) /\ UNCHANGED inviteVars
    BY <1>3 DEF AcceptMediaFails, AcceptAnswerFails
  <2>2. \A j \in Invites : j # target[s] => dialog'[j] = dialog[j]
    BY <2>1, CloseMovesDialog
  <2> QED BY <1>0, <1>a, <2>1, <2>2, StillElsewhere
<1>4. CASE AcceptRejects(s)
  <2>1. PICK ok \in BOOLEAN : rejectWithResponse(target[s], ok)
    BY <1>4 DEF AcceptRejects
  <2> QED BY <1>0, <1>4, <2>1, RejectElsewhere, SilentTimes DEF AcceptRejects, Elsewhere
<1>5. CASE AcceptStops(s)
  <2>1. PICK reason : finishInbound(target[s], reason)
    BY <1>5 DEF AcceptStops
  <2>2. UNCHANGED <<invUsers, listed, connected, workerVars, events, dialog>>
    BY <1>5 DEF AcceptStops
  <2> QED BY <1>0, <1>a, <2>1, <2>2, FinishElsewhere, SilentTimes DEF Elsewhere
<1>6. CASE AcceptAnswerStops(s)
  <2>1. PICK reason : finishInbound(target[s], reason)
    BY <1>6 DEF AcceptAnswerStops
  <2>2. UNCHANGED <<invUsers, listed, connected, workerVars, events, dialog>>
    BY <1>6 DEF AcceptAnswerStops
  <2> QED BY <1>0, <1>a, <2>1, <2>2, FinishElsewhere, SilentTimes DEF Elsewhere
<1>7. CASE AcceptAnswers(s)
  BY <1>0, <1>7, SilentTimes DEF AcceptAnswers, Elsewhere, SessionsTypeOK
<1>8. CASE AcceptConnects(s) \/ AcceptUnlists(s)
  <2>1. /\ UNCHANGED <<invUsers, ended, timer, workerVars, finishVars, events, dialog>>
        /\ \/ connected' = connected \cup {target[s]} /\ UNCHANGED listed
           \/ listed' = listed \ {target[s]} /\ UNCHANGED connected
    BY <1>8 DEF AcceptConnects, AcceptUnlists
  <2> QED BY <1>0, <1>a, <2>1, SilentTimes DEF Elsewhere
<1>9. CASE AcceptReturns(s)
  BY <1>0, <1>9, EmitTimes DEF AcceptReturns, Elsewhere
<1> QED
  BY <1>0, <1>a, <1>1, <1>2, <1>3, <1>4, <1>5, <1>6, <1>7, <1>8, <1>9 DEF AcceptStep

LEMMA InviteElsewhere ==
    ASSUME TypeInv, NEW i \in Invites, InviteStep(i)
    PROVE  Elsewhere(i) /\ UNCHANGED <<phase, target>>
<1> USE InvitesAreNotSessions DEF TypeInv, TypeOK
<1>0. UNCHANGED <<phase, target>>
  BY InviteStepStill
<1>1. CASE InviteRefused(i) /\ UNCHANGED inviteVars
  BY <1>1, SilentTimes DEF InviteRefused, SessionsTypeOK, Elsewhere
<1>2. CASE InviteArrives(i)
  BY <1>2, SilentTimes DEF InviteArrives, SessionsTypeOK, InvitesTypeOK, Elsewhere
<1>3. CASE InviteAnnounced(i)
  BY <1>3, EmitTimes DEF InviteAnnounced, InvitesTypeOK, Elsewhere
<1>4. CASE RemoteCancels(i)
  BY <1>4, SilentTimes DEF RemoteCancels, SessionsTypeOK, Elsewhere
<1>5. CASE TimerFires(i)
  BY <1>5, SilentTimes DEF TimerFires, InvitesTypeOK, Elsewhere
<1>6. CASE TimerRejects(i)
  <2>1. PICK ok \in BOOLEAN : rejectWithResponse(i, ok)
    BY <1>6 DEF TimerRejects
  <2> QED BY <1>6, <2>1, RejectElsewhere, SilentTimes DEF TimerRejects, InvitesTypeOK, Elsewhere
<1>7. CASE TimerFinishes(i)
  BY <1>7, FinishElsewhere, SilentTimes DEF TimerFinishes, InvitesTypeOK, Elsewhere
<1>8. CASE WatchWakes(i)
  BY <1>8, SilentTimes DEF WatchWakes, InvitesTypeOK, Elsewhere
<1>9. CASE WatchFinishes(i)
  BY <1>9, FinishElsewhere, SilentTimes DEF WatchFinishes, InvitesTypeOK, Elsewhere
<1>10. CASE FinishRemove(i)
  BY <1>10, SilentTimes DEF FinishRemove, InvitesTypeOK, Elsewhere
<1>11. CASE FinishTell(i)
  BY <1>11, EmitTimes DEF FinishTell, InvitesTypeOK, Elsewhere
<1>12. CASE FinishClose(i)
  BY <1>12, SilentTimes DEF FinishClose, CloseDialog, SessionsTypeOK, InvitesTypeOK, Elsewhere
<1>13. ASSUME NEW u \in Decliners, RejectLookup(u, i) PROVE Elsewhere(i)
  BY <1>13, SilentTimes DEF RejectLookup, InvitesTypeOK, Elsewhere
<1>14. ASSUME NEW u \in Decliners, RejectRespond(u, i) PROVE Elsewhere(i)
  <2>1. PICK ok \in BOOLEAN :
           /\ rejectWithResponse(i, ok)
           /\ rejecting' = [rejecting EXCEPT ![<<u, i>>] =
                               IF ok THEN "responded" ELSE "idle"]
    BY <1>14 DEF RejectRespond
  <2>2. \A j \in Invites, v \in Users : j # i => rejecting'[<<v, j>>] = rejecting[<<v, j>>]
    BY <2>1 DEF InvitesTypeOK
  <2> QED BY <1>14, <2>1, <2>2, RejectElsewhere, SilentTimes DEF RejectRespond, Elsewhere
<1>15. ASSUME NEW u \in Decliners, RejectFinish(u, i) PROVE Elsewhere(i)
  BY <1>15, FinishElsewhere, SilentTimes DEF RejectFinish, InvitesTypeOK, Elsewhere
<1> QED
  BY <1>0, <1>1, <1>2, <1>3, <1>4, <1>5, <1>6, <1>7, <1>8, <1>9, <1>10, <1>11, <1>12,
     <1>13, <1>14, <1>15 DEF InviteStep, TimerStep, WatchStep, FinishStep, RejectStep

---------------------------------------------------------------------------
(* Nothing happens to an invite before it has arrived.                     *)

Untouched(i) ==
    /\ i \notin listed /\ i \notin ended /\ i \notin connected
    /\ timer[i] = "unset" /\ finishing[i] = "none"
    /\ expiring[i] = "none" /\ watcher[i] = "none"
    /\ \A u \in Users : rejecting[<<u, i>>] = "idle"
    /\ \A s \in Sessions : phase[s] \in AcceptPhases => target[s] # i
    /\ Times("stopped", i) = {} /\ Times("answered", i) = {}

ArrivedInv ==
    \A i \in Invites :
        /\ dialog[i] = "idle" => invUsers[i] = {}
        /\ dialog[i] = "invited" => invUsers[i] # {}
        /\ invUsers[i] = {} => Untouched(i)

\* A dialog never goes back.
Forward(d) ==
    /\ dialog[d] # "idle" => dialog'[d] # "idle"
    /\ dialog[d] \notin {"idle", "invited"} => dialog'[d] \notin {"idle", "invited"}

LEMMA AsideForward ==
    ASSUME Aside, NEW i \in Invites PROVE Forward(i)
BY DEF Aside, Forward

LEMMA RejectForward ==
    ASSUME SessionsTypeOK, NEW i \in Invites, NEW ok \in BOOLEAN, rejectWithResponse(i, ok)
    PROVE  Forward(i)
BY InvitesAreNotSessions DEF rejectWithResponse, RespondFinal, SessionsTypeOK, Forward

LEMMA AcceptForward ==
    ASSUME TypeInv, NEW s \in Sessions, AcceptStep(s)
    PROVE  Forward(target[s])
<1> USE AcceptElsewhere, InvitesAreNotSessions DEF TypeInv, TypeOK
<1>1. CASE AcceptMediaFails(s) \/ AcceptAnswerFails(s)
  BY <1>1, CloseMovesDialog DEF AcceptMediaFails, AcceptAnswerFails, Forward
<1>2. CASE AcceptRejects(s)
  BY <1>2, RejectForward DEF AcceptRejects
<1>3. CASE AcceptAnswers(s)
  BY <1>3 DEF AcceptAnswers, SessionsTypeOK, Forward
<1>4. CASE UNCHANGED dialog
  BY <1>4 DEF Forward
<1> QED
  BY <1>1, <1>2, <1>3, <1>4
  DEF AcceptStep, AcceptTooLate, AcceptClaim, AcceptNoMedia, AcceptStops, AcceptMedia,
      AcceptAnswerStops, AcceptConnects, AcceptRegister, AcceptUnlists, AcceptReturns

LEMMA InviteForward ==
    ASSUME TypeInv, NEW i \in Invites, InviteStep(i)
    PROVE  Forward(i)
<1> USE InvitesAreNotSessions DEF TypeInv, TypeOK
<1>1. CASE InviteRefused(i) \/ InviteArrives(i) \/ RemoteCancels(i)
  BY <1>1 DEF InviteRefused, InviteArrives, RemoteCancels, SessionsTypeOK, Forward
<1>2. CASE TimerRejects(i)
  BY <1>2, RejectForward DEF TimerRejects
<1>3. CASE \E u \in Decliners : RejectRespond(u, i)
  BY <1>3, RejectForward DEF RejectRespond
<1>4. CASE FinishClose(i)
  BY <1>4 DEF FinishClose, CloseDialog, AfterClose, SessionsTypeOK, Forward
<1>5. CASE UNCHANGED dialog
  BY <1>5 DEF Forward
<1> QED
  BY <1>1, <1>2, <1>3, <1>4, <1>5
  DEF InviteStep, InviteAnnounced, TimerFires, TimerStep, TimerFinishes, WatchStep,
      WatchWakes, WatchFinishes, FinishStep, FinishRemove, FinishTell, RejectLookup,
      RejectStep, RejectFinish

LEMMA ArrivedAccept ==
    ASSUME TypeInv, ArrivedInv, NEW s \in Sessions, AcceptStep(s)
    PROVE  ArrivedInv'
<1> SUFFICES ASSUME NEW j \in Invites
             PROVE  /\ dialog'[j] = "idle" => invUsers'[j] = {}
                    /\ dialog'[j] = "invited" => invUsers'[j] # {}
                    /\ invUsers'[j] = {} => Untouched(j)'
  BY DEF ArrivedInv
<1>1. invUsers[target[s]] # {} /\ dialog[target[s]] # "idle"
  BY AcceptElsewhere DEF ArrivedInv, Untouched
<1>2. CASE j = target[s]
  BY <1>1, <1>2, AcceptElsewhere, AcceptForward DEF Forward
<1>3. CASE j # target[s]
  BY <1>3, AcceptElsewhere DEF ArrivedInv, Elsewhere, Untouched
<1> QED BY <1>2, <1>3

LEMMA ArrivedInvite ==
    ASSUME TypeInv, ArrivedInv, NEW i \in Invites, InviteStep(i)
    PROVE  ArrivedInv'
<1> SUFFICES ASSUME NEW j \in Invites
             PROVE  /\ dialog'[j] = "idle" => invUsers'[j] = {}
                    /\ dialog'[j] = "invited" => invUsers'[j] # {}
                    /\ invUsers'[j] = {} => Untouched(j)'
  BY DEF ArrivedInv
<1>1. CASE j # i
  BY <1>1, InviteElsewhere DEF ArrivedInv, Elsewhere, Untouched
<1>2. CASE j = i /\ InviteRefused(i) /\ UNCHANGED inviteVars
  BY <1>2, SilentTimes DEF InviteRefused, ArrivedInv, Untouched, TypeInv, TypeOK, SessionsTypeOK, SipIds
<1>3. CASE j = i /\ InviteArrives(i)
  <2>1. PICK users \in (SUBSET Users) \ {{}} : invUsers' = [invUsers EXCEPT ![i] = users]
    BY <1>3 DEF InviteArrives
  <2>2. invUsers'[i] # {}
    <3>1. users # {}
      BY <2>1
    <3>2. invUsers'[i] = users
      BY <2>1 DEF TypeInv, TypeOK, InvitesTypeOK
    <3> QED BY <3>1, <3>2
  <2>3. dialog'[i] = "invited"
    BY <1>3 DEF InviteArrives, TypeInv, TypeOK, SessionsTypeOK, SipIds
  <2> QED BY <1>3, <2>2, <2>3
<1>4. CASE j = i /\ ~InviteArrives(i) /\ ~(InviteRefused(i) /\ UNCHANGED inviteVars)
  <2>1. invUsers[i] # {} /\ UNCHANGED invUsers
    <3>1. ASSUME NEW u \in Decliners, RejectLookup(u, i) \/ RejectStep(u, i)
          PROVE  invUsers[i] # {} /\ UNCHANGED invUsers
      BY <3>1, DeclinersAreUsers
      DEF RejectLookup, RejectStep, RejectRespond, RejectFinish, ArrivedInv, Untouched
    <3>2. CASE RemoteCancels(i)
      BY <3>2 DEF RemoteCancels, ArrivedInv
    <3> QED
      BY <1>4, <3>1, <3>2
      DEF InviteStep, InviteAnnounced, TimerFires, TimerStep, TimerRejects,
          TimerFinishes, WatchStep, WatchWakes, WatchFinishes, FinishStep, FinishRemove,
          FinishTell, FinishClose, ArrivedInv, Untouched
  <2>2. dialog'[i] # "idle"
    BY <2>1, InviteForward DEF ArrivedInv, Forward
  <2> QED BY <1>4, <2>1, <2>2
<1> QED BY <1>1, <1>2, <1>3, <1>4 DEF InviteStep

LEMMA ArrivedStep == TypeInv /\ ArrivedInv /\ [Next]_vars => ArrivedInv'
<1> SUFFICES ASSUME TypeInv, ArrivedInv, [Next]_vars PROVE ArrivedInv'
  OBVIOUS
<1>1. ASSUME NEW u \in Users, NEW i \in Invites, NEW s \in Sessions, AcceptLookup(u, i, s)
      PROVE  ArrivedInv'
  <2>1. /\ UNCHANGED <<inviteVars, dialog>> /\ invUsers[i] # {}
        /\ \A t \in Sessions : t # s => phase'[t] = phase[t] /\ target'[t] = target[t]
        /\ target'[s] = i
    BY <1>1 DEF AcceptLookup, TypeInv, TypeOK, SessionsTypeOK
  <2> QED BY <2>1, SilentTimes DEF ArrivedInv, Untouched
<1>2. CASE Aside
  BY <1>2, SilentTimes DEF Aside, ArrivedInv, Untouched
<1> QED BY <1>1, <1>2, ArrivedAccept, ArrivedInvite, AsideSteps

LEMMA ArrivedInit == Init => ArrivedInv
BY DEF Init, SessionsInit, InvitesInit, ArrivedInv, Untouched, Times, AcceptPhases, SipIds

---------------------------------------------------------------------------
(* The end of a call is announced once, and after it has left the list.    *)

\* Only the run of finishInbound that set ended takes the call out and tells.
StopInv ==
    \A i \in Invites :
        /\ finishing[i] = "none" <=> i \notin ended
        /\ finishing[i] \in {"none", "ended", "removed"} => Times("stopped", i) = {}
        /\ \A m, n \in Times("stopped", i) : m = n
        /\ finishing[i] \in {"removed", "told", "done"} => i \notin listed

\* A step that finishes nothing, tells nothing and lists nothing that arrived.
NoStop(i) ==
    /\ finishing'[i] = finishing[i]
    /\ i \in ended' <=> i \in ended
    /\ Times("stopped", i)' = Times("stopped", i)
    /\ i \in listed' => i \in listed \/ finishing[i] = "none"

\* A run of finishInbound: the first ends the invite, later ones do nothing.
LEMMA FinishOnce ==
    ASSUME InvitesTypeOK, StopInv, NEW i \in Invites, NEW reason, finishInbound(i, reason),
           UNCHANGED <<listed, events>>
    PROVE  \/ NoStop(i)
           \/ /\ finishing[i] = "none" /\ finishing'[i] = "ended" /\ i \in ended'
              /\ Times("stopped", i)' = Times("stopped", i)
<1>1. Times("stopped", i)' = Times("stopped", i)
  BY SilentTimes
<1>2. CASE i \in ended
  BY <1>1, <1>2 DEF finishInbound, NoStop
<1>3. CASE i \notin ended
  BY <1>1, <1>3 DEF finishInbound, InvitesTypeOK, StopInv
<1> QED BY <1>2, <1>3

LEMMA StopAccept ==
    ASSUME TypeInv, StopInv, NEW s \in Sessions, AcceptStep(s)
    PROVE  StopInv'
<1> DEFINE i == target[s]
<1> USE AcceptElsewhere DEF TypeInv, TypeOK
<1>1. ASSUME NoStop(i) PROVE StopInv'
  BY <1>1 DEF Elsewhere, StopInv, NoStop
<1>2. CASE AcceptStops(s) \/ AcceptAnswerStops(s)
  <2>1. PICK reason : finishInbound(i, reason)
    BY <1>2 DEF AcceptStops, AcceptAnswerStops
  <2>2. UNCHANGED <<listed, events>>
    BY <1>2 DEF AcceptStops, AcceptAnswerStops
  <2>3. CASE /\ finishing[i] = "none" /\ finishing'[i] = "ended" /\ i \in ended'
             /\ Times("stopped", i)' = Times("stopped", i)
    BY <2>2, <2>3 DEF Elsewhere, StopInv
  <2> QED BY <1>1, <2>1, <2>2, <2>3, FinishOnce
<1>3. CASE AcceptReturns(s)
  <2>1. Times("stopped", i)' = Times("stopped", i)
    BY <1>3, EmitTimes DEF AcceptReturns
  <2> QED BY <1>1, <1>3, <2>1 DEF AcceptReturns, NoStop
<1>4. CASE /\ UNCHANGED <<finishing, ended, events>>
           /\ listed' \subseteq listed
  BY <1>1, <1>4, SilentTimes DEF NoStop
<1> QED
  BY <1>2, <1>3, <1>4
  DEF AcceptStep, AcceptTooLate, AcceptClaim, AcceptNoMedia, AcceptMediaFails, AcceptRejects,
      AcceptMedia, AcceptAnswers, AcceptAnswerFails, AcceptConnects, AcceptRegister,
      AcceptUnlists

LEMMA StopInvite ==
    ASSUME TypeInv, ArrivedInv, StopInv, NEW i \in Invites, InviteStep(i)
    PROVE  StopInv'
<1> USE InviteElsewhere DEF TypeInv, TypeOK
<1>1. ASSUME NoStop(i) PROVE StopInv'
  BY <1>1 DEF Elsewhere, StopInv, NoStop
<1>2. ASSUME NEW reason, finishInbound(i, reason), UNCHANGED <<listed, events>>
      PROVE  StopInv'
  <2>1. CASE /\ finishing[i] = "none" /\ finishing'[i] = "ended" /\ i \in ended'
             /\ Times("stopped", i)' = Times("stopped", i)
    BY <1>2, <2>1 DEF Elsewhere, StopInv
  <2> QED BY <1>1, <1>2, <2>1, FinishOnce
<1>3. CASE TimerFinishes(i) \/ WatchFinishes(i) \/ \E u \in Decliners : RejectFinish(u, i)
  BY <1>2, <1>3 DEF TimerFinishes, WatchFinishes, RejectFinish
<1>4. CASE InviteArrives(i)
  <2>1. finishing[i] = "none"
    BY <1>4 DEF InviteArrives, ArrivedInv, Untouched
  <2> QED BY <1>1, <1>4, <2>1, SilentTimes DEF InviteArrives, NoStop
<1>5. CASE InviteAnnounced(i)
  <2>1. Times("stopped", i)' = Times("stopped", i)
    BY <1>5, EmitTimes DEF InviteAnnounced
  <2> QED BY <1>1, <1>5, <2>1 DEF InviteAnnounced, NoStop
<1>6. CASE FinishRemove(i)
  <2>1. Times("stopped", i)' = Times("stopped", i)
    BY <1>6, SilentTimes DEF FinishRemove
  <2>2. finishing'[i] = "removed" /\ finishing[i] = "ended" /\ i \notin listed' /\ ended' = ended
    BY <1>6 DEF FinishRemove, InvitesTypeOK
  <2> QED BY <2>1, <2>2 DEF Elsewhere, StopInv
<1>7. CASE FinishTell(i)
  <2>1. Times("stopped", i)' = Times("stopped", i) \cup {Len(events[i]) + 1}
    BY <1>7, EmitTimes DEF FinishTell
  <2>2. /\ finishing'[i] = "told" /\ finishing[i] = "removed"
        /\ listed' = listed /\ ended' = ended
    BY <1>7 DEF FinishTell, InvitesTypeOK
  <2>3. Times("stopped", i)' = {Len(events[i]) + 1}
    BY <2>1, <2>2 DEF StopInv
  <2> QED BY <2>2, <2>3 DEF Elsewhere, StopInv
<1>8. CASE FinishClose(i)
  <2>1. Times("stopped", i)' = Times("stopped", i)
    BY <1>8, SilentTimes DEF FinishClose
  <2>2. /\ finishing'[i] = "done" /\ finishing[i] = "told"
        /\ listed' = listed /\ ended' = ended
    BY <1>8 DEF FinishClose, InvitesTypeOK
  <2> QED BY <2>1, <2>2 DEF Elsewhere, StopInv
<1>9. CASE UNCHANGED <<listed, ended, finishing, events>>
  BY <1>1, <1>9, SilentTimes DEF NoStop
<1> QED
  BY <1>3, <1>4, <1>5, <1>6, <1>7, <1>8, <1>9
  DEF InviteStep, InviteRefused, RemoteCancels, TimerFires, TimerStep, TimerRejects,
      WatchStep, WatchWakes, FinishStep, RejectLookup, RejectStep, RejectRespond

LEMMA StopStep == TypeInv /\ ArrivedInv /\ StopInv /\ [Next]_vars => StopInv'
<1> SUFFICES ASSUME TypeInv, ArrivedInv, StopInv, [Next]_vars PROVE StopInv'
  OBVIOUS
<1>1. ASSUME UNCHANGED inviteVars PROVE StopInv'
  BY <1>1, SilentTimes DEF StopInv
<1>2. CASE \E u \in Users, i \in Invites, s \in Sessions : AcceptLookup(u, i, s)
  BY <1>1, <1>2 DEF AcceptLookup
<1> QED BY <1>1, <1>2, StopAccept, StopInvite, AsideSteps DEF Aside

LEMMA StopInit == Init => StopInv
BY DEF Init, InvitesInit, StopInv, Times

LEMMA InvitesSound == Safety => [](TypeInv /\ ArrivedInv /\ StopInv)
BY TypeInit, TypeStep, ArrivedInit, ArrivedStep, StopInit, StopStep, PTL DEF Safety

\* However many goroutines race to end a call, its users are told once.
THEOREM StoppedAtMostOnce == Safety => []StoppedOnce
<1>1. StopInv => StoppedOnce
  BY DEF StopInv, StoppedOnce
<1> QED BY <1>1, InvitesSound, PTL

---------------------------------------------------------------------------
(* No call disappears without its users being told.                        *)

\* NoSilentDrop, for one invite.
Reported(i) ==
    invUsers[i] # {} /\ i \notin listed =>
        \/ Times("answered", i) # {}
        \/ Times("stopped", i) # {}
        \/ finishing[i] = "removed"
        \/ \E s \in Sessions : target[s] = i /\ phase[s] = "unlisted"

ReportedInv == \A i \in Invites : Reported(i)

LEMMA ReportedAccept ==
    ASSUME TypeInv, StopInv, ReportedInv, NEW s \in Sessions, AcceptStep(s),
           NEW j \in Invites
    PROVE  Reported(j)'
<1> USE AcceptElsewhere DEF TypeInv, TypeOK, ReportedInv
<1>1. CASE j # target[s]
  BY <1>1 DEF Elsewhere, Reported
<1>2. CASE j = target[s] /\ AcceptUnlists(s)
  BY <1>2 DEF AcceptUnlists, SessionsTypeOK, Reported
<1>3. CASE j = target[s] /\ AcceptReturns(s)
  <2>1. Times("answered", j)' = Times("answered", j) \cup {Len(events[j]) + 1}
    BY <1>3, EmitTimes DEF AcceptReturns
  <2> QED BY <2>1 DEF Reported
<1>4. CASE j = target[s] /\ phase[s] # "unlisted" /\ UNCHANGED <<listed, events>>
           /\ (finishing[j] = "removed" => finishing'[j] = "removed")
  BY <1>4, SilentTimes DEF Reported
<1>5. CASE j = target[s] /\ (AcceptStops(s) \/ AcceptAnswerStops(s))
  <2>1. PICK reason : finishInbound(j, reason)
    BY <1>5 DEF AcceptStops, AcceptAnswerStops
  <2>2. UNCHANGED <<listed, events>> /\ phase[s] # "unlisted"
    BY <1>5 DEF AcceptStops, AcceptAnswerStops
  <2>3. finishing[j] = "removed" => finishing'[j] = "removed"
    BY <2>1 DEF finishInbound, StopInv
  <2> QED BY <1>4, <1>5, <2>2, <2>3
<1> QED
  BY <1>1, <1>2, <1>3, <1>4, <1>5
  DEF AcceptStep, AcceptTooLate, AcceptClaim, AcceptNoMedia, AcceptMediaFails, AcceptRejects,
      AcceptMedia, AcceptAnswers, AcceptAnswerFails, AcceptConnects, AcceptRegister

LEMMA ReportedInvite ==
    ASSUME TypeInv, StopInv, ReportedInv, NEW i \in Invites, InviteStep(i),
           NEW j \in Invites
    PROVE  Reported(j)'
<1> USE InviteElsewhere DEF TypeInv, TypeOK, ReportedInv
<1>1. CASE j # i
  BY <1>1 DEF Elsewhere, Reported
<1>2. CASE j = i /\ UNCHANGED <<invUsers, listed, events>>
           /\ (finishing[i] = "removed" => finishing'[i] = "removed")
  BY <1>2, SilentTimes DEF Reported
<1>3. ASSUME j = i, NEW reason, finishInbound(i, reason), UNCHANGED <<invUsers, listed, events>>
      PROVE  Reported(j)'
  BY <1>2, <1>3 DEF finishInbound, StopInv
<1>4. CASE j = i /\ (\/ TimerFinishes(i) \/ WatchFinishes(i)
                     \/ \E u \in Decliners : RejectFinish(u, i))
  BY <1>3, <1>4 DEF TimerFinishes, WatchFinishes, RejectFinish
<1>5. CASE j = i /\ InviteArrives(i)
  BY <1>5 DEF InviteArrives, Reported
<1>6. CASE j = i /\ InviteAnnounced(i)
  <2>1. /\ Times("stopped", i)' = Times("stopped", i)
        /\ Times("answered", i)' = Times("answered", i)
    BY <1>6, EmitTimes DEF InviteAnnounced
  <2> QED BY <1>6, <2>1 DEF InviteAnnounced, Reported
<1>7. CASE j = i /\ FinishRemove(i)
  BY <1>7 DEF FinishRemove, InvitesTypeOK, Reported
<1>8. CASE j = i /\ FinishTell(i)
  <2>1. Times("stopped", i)' = Times("stopped", i) \cup {Len(events[i]) + 1}
    BY <1>8, EmitTimes DEF FinishTell
  <2> QED BY <1>8, <2>1 DEF Reported
<1>9. CASE j = i /\ FinishClose(i)
  BY <1>2, <1>9 DEF FinishClose
<1> QED
  BY <1>1, <1>2, <1>4, <1>5, <1>6, <1>7, <1>8, <1>9
  DEF InviteStep, InviteRefused, RemoteCancels, TimerFires, TimerStep, TimerRejects,
      WatchStep, WatchWakes, FinishStep, RejectLookup, RejectStep, RejectRespond

LEMMA ReportedStep == TypeInv /\ StopInv /\ ReportedInv /\ [Next]_vars => ReportedInv'
<1> SUFFICES ASSUME TypeInv, StopInv, ReportedInv, [Next]_vars PROVE ReportedInv'
  OBVIOUS
<1>1. CASE Aside
  <2>1. \A s \in Sessions : phase[s] = "unlisted" =>
            phase'[s] = "unlisted" /\ target'[s] = target[s]
    BY <1>1 DEF Aside, AcceptPhases
  <2> QED BY <1>1, <2>1, SilentTimes DEF Aside, ReportedInv, Reported
<1>2. ASSUME NEW u \in Users, NEW i \in Invites, NEW s \in Sessions, AcceptLookup(u, i, s)
      PROVE  ReportedInv'
  <2>1. \A t \in Sessions : phase[t] = "unlisted" =>
            phase'[t] = "unlisted" /\ target'[t] = target[t]
    BY <1>2 DEF AcceptLookup, TypeInv, TypeOK, SessionsTypeOK
  <2>2. UNCHANGED inviteVars
    BY <1>2 DEF AcceptLookup
  <2> QED BY <2>1, <2>2, SilentTimes DEF ReportedInv, Reported
<1>3. ASSUME NEW s \in Sessions, AcceptStep(s) PROVE ReportedInv'
  BY <1>3, ReportedAccept DEF ReportedInv
<1>4. ASSUME NEW i \in Invites, InviteStep(i) PROVE ReportedInv'
  BY <1>4, ReportedInvite DEF ReportedInv
<1> QED BY <1>1, <1>2, <1>3, <1>4, AsideSteps

LEMMA ReportedInit == Init => ReportedInv
BY DEF Init, InvitesInit, ReportedInv, Reported

\* A call that is not offered any more has been announced as answered or as
\* stopped, or the goroutine that withdrew it has the announcement to make.
THEOREM NeverSilentlyDropped == Safety => []NoSilentDrop
<1>1. ReportedInv => NoSilentDrop
  BY DEF ReportedInv, Reported, NoSilentDrop
<1>2. Safety => []ReportedInv
  BY InvitesSound, ReportedInit, ReportedStep, PTL DEF Safety
<1> QED BY <1>1, <1>2, PTL

---------------------------------------------------------------------------
(* The timer and an accept.                                                *)

LEMMA TimerNotRearmed ==
    ASSUME TypeInv, [Next]_vars, NEW i \in Invites, timer'[i] = "armed", timer[i] # "armed"
    PROVE  InviteArrives(i)
<1> USE DEF TypeInv, TypeOK, InvitesTypeOK
<1>1. ASSUME NEW j \in Invites, timer' = Stopped(j) PROVE FALSE
  BY <1>1 DEF Stopped
<1>2. ASSUME NEW j \in Invites, NEW reason, finishInbound(j, reason) PROVE FALSE
  BY <1>1, <1>2 DEF finishInbound
<1>3. ASSUME NEW j \in Invites, NEW ok, rejectWithResponse(j, ok) PROVE FALSE
  BY <1>1, <1>3 DEF rejectWithResponse
<1>4. ~Aside
  BY DEF Aside
<1>5. ASSUME NEW u \in Users, NEW j \in Invites, NEW s \in Sessions, AcceptLookup(u, j, s)
      PROVE  FALSE
  BY <1>5 DEF AcceptLookup
<1>6. ASSUME NEW s \in Sessions, AcceptStep(s) PROVE FALSE
  BY <1>1, <1>2, <1>3, <1>6, AcceptElsewhere
  DEF AcceptStep, AcceptTooLate, AcceptClaim, AcceptNoMedia, AcceptMediaFails, AcceptRejects,
      AcceptStops, AcceptMedia, AcceptAnswers, AcceptAnswerFails, AcceptAnswerStops,
      AcceptConnects, AcceptRegister, AcceptUnlists, AcceptReturns
<1>7. ASSUME NEW j \in Invites, InviteStep(j) PROVE InviteArrives(i)
  <2>1. ASSUME NEW u \in Decliners, RejectLookup(u, j) \/ RejectStep(u, j) PROVE FALSE
    BY <1>2, <1>3, <2>1 DEF RejectLookup, RejectStep, RejectRespond, RejectFinish
  <2>2. j = i
    BY <1>7, InviteElsewhere DEF Elsewhere
  <2> QED
    BY <1>2, <1>3, <1>7, <2>1, <2>2
    DEF InviteStep, InviteRefused, InviteAnnounced, RemoteCancels, TimerFires,
        TimerStep, TimerRejects, TimerFinishes, WatchStep, WatchWakes, WatchFinishes,
        FinishStep, FinishRemove, FinishTell, FinishClose
<1> QED BY <1>4, <1>5, <1>6, <1>7, AsideSteps

LEMMA ClaimedTimerStep ==
    TypeInv /\ ArrivedInv /\ NoTimeoutOnceClaimed /\ [Next]_vars => NoTimeoutOnceClaimed'
<1> SUFFICES ASSUME TypeInv, ArrivedInv, NoTimeoutOnceClaimed, [Next]_vars,
                    NEW s \in Sessions, phase'[s] \in AcceptPhases \ {"lookedUp"}
             PROVE  timer'[target'[s]] # "armed"
  BY DEF NoTimeoutOnceClaimed
<1> USE DEF TypeInv, TypeOK
<1>1. CASE phase[s] \in AcceptPhases \ {"lookedUp"} /\ target'[s] = target[s]
  <2>1. target[s] \in Invites /\ timer[target[s]] # "armed"
    BY <1>1 DEF AttemptOK, NoTimeoutOnceClaimed
  <2>2. ~InviteArrives(target[s])
    BY <1>1, <2>1 DEF InviteArrives, ArrivedInv, Untouched
  <2> QED BY <1>1, <2>1, <2>2, TimerNotRearmed
<1>2. CASE Aside
  BY <1>1, <1>2 DEF Aside
<1>3. ASSUME NEW u \in Users, NEW i \in Invites, NEW t \in Sessions, AcceptLookup(u, i, t)
      PROVE  timer'[target'[s]] # "armed"
  <2>1. t # s
    BY <1>3 DEF AcceptLookup, SessionsTypeOK
  <2> QED BY <1>1, <1>3, <2>1 DEF AcceptLookup, SessionsTypeOK
<1>4. ASSUME NEW i \in Invites, InviteStep(i) PROVE timer'[target'[s]] # "armed"
  BY <1>1, <1>4, InviteElsewhere
<1>5. ASSUME NEW t \in Sessions, AcceptStep(t) PROVE timer'[target'[s]] # "armed"
  <2>1. CASE t # s \/ ~AcceptClaim(s)
    <3>1. CASE t # s
      BY <1>1, <1>5, <3>1, AcceptElsewhere
    <3>2. CASE t = s /\ ~AcceptClaim(s)
      <4>1. phase[s] \in AcceptPhases \ {"lookedUp"}
        BY <1>5, <3>2
        DEF AcceptStep, AcceptTooLate, AcceptNoMedia, AcceptMediaFails, AcceptRejects, AcceptStops,
            AcceptMedia, AcceptAnswers, AcceptAnswerFails, AcceptAnswerStops,
            AcceptConnects, AcceptRegister, AcceptUnlists, AcceptReturns,
            AcceptPhases, SessionsTypeOK
      <4> QED BY <1>1, <1>5, <4>1, AcceptElsewhere
    <3> QED BY <2>1, <3>1, <3>2
  <2>2. CASE t = s /\ AcceptClaim(s)
    BY <1>5, <2>2, AcceptElsewhere DEF AcceptClaim, Stopped, InvitesTypeOK
  <2> QED BY <2>1, <2>2
<1> QED BY <1>2, <1>3, <1>4, <1>5, AsideSteps

\* From the moment an accept has passed its test the 35 second timer is off.
THEOREM ClaimStopsTimer == Safety => []NoTimeoutOnceClaimed
<1>1. Init => NoTimeoutOnceClaimed
  BY DEF Init, SessionsInit, NoTimeoutOnceClaimed, AcceptPhases
<1> QED BY <1>1, InvitesSound, ClaimedTimerStep, PTL DEF Safety

---------------------------------------------------------------------------
(* An answered dialog.                                                     *)

Answered(i) == dialog[i] \notin {"idle", "invited"}

\* A 200 OK comes before connected, and connected before the rest.
AnsweredInv ==
    /\ \A s \in Sessions :
          /\ phase[s] \in {"responded", "connected", "registered", "unlisted"} =>
                Answered(target[s])
          /\ phase[s] \in {"connected", "registered", "unlisted"} => target[s] \in connected
    /\ \A i \in connected : Answered(i)

LEMMA AllForward ==
    ASSUME TypeInv, [Next]_vars, NEW i \in Invites
    PROVE  Forward(i)
<1>1. ASSUME NEW u \in Users, NEW j \in Invites, NEW s \in Sessions, AcceptLookup(u, j, s)
      PROVE  Forward(i)
  BY <1>1 DEF AcceptLookup, Forward
<1>2. ASSUME NEW s \in Sessions, AcceptStep(s) PROVE Forward(i)
  BY <1>2, AcceptElsewhere, AcceptForward DEF Elsewhere, Forward
<1>3. ASSUME NEW j \in Invites, InviteStep(j) PROVE Forward(i)
  BY <1>3, InviteElsewhere, InviteForward DEF Elsewhere, Forward
<1> QED BY <1>1, <1>2, <1>3, AsideSteps, AsideForward

\* What moves an accept to, and along, the phases AnsweredInv is about.
LEMMA AcceptAdvances ==
    ASSUME TypeInv, ArrivedInv, AnsweredInv, NEW s \in Sessions, AcceptStep(s)
    PROVE  /\ phase'[s] \in {"responded", "connected", "registered", "unlisted"} =>
                 Answered(target[s])'
           /\ phase'[s] \in {"connected", "registered", "unlisted"} => target[s] \in connected'
           /\ connected' # connected =>
                 connected' = connected \cup {target[s]} /\ phase[s] = "responded"
<1> DEFINE Late == {"responded", "connected", "registered", "unlisted"}
<1> USE AcceptElsewhere, AcceptForward, InvitesAreNotSessions
    DEF TypeInv, TypeOK, SessionsTypeOK, AnsweredInv, Answered, Forward
<1>1. CASE AcceptAnswers(s)
  <2>1. dialog[target[s]] # "idle"
    BY DEF ArrivedInv, Untouched
  <2>2. dialog'[target[s]] \notin {"idle", "invited"}
    BY <1>1, <2>1 DEF AcceptAnswers, DialogStates
  <2>3. phase'[s] = "responded" /\ UNCHANGED <<target, connected>>
    BY <1>1 DEF AcceptAnswers
  <2> QED BY <2>2, <2>3
<1>2. CASE AcceptConnects(s)
  BY <1>2 DEF AcceptConnects
<1>3. CASE AcceptRegister(s) \/ AcceptUnlists(s)
  BY <1>3 DEF AcceptRegister, AcceptUnlists
<1>4. ASSUME UNCHANGED connected, phase'[s] \notin Late
      PROVE  /\ phase'[s] \in Late => Answered(target[s])'
             /\ phase'[s] \in {"connected", "registered", "unlisted"} => target[s] \in connected'
             /\ connected' # connected =>
                   connected' = connected \cup {target[s]} /\ phase[s] = "responded"
  BY <1>4
<1>5. CASE ~AcceptAnswers(s) /\ ~AcceptConnects(s) /\ ~AcceptRegister(s) /\ ~AcceptUnlists(s)
  <2>1. UNCHANGED connected
    BY <1>5
    DEF AcceptStep, AcceptTooLate, AcceptClaim, AcceptNoMedia, AcceptMediaFails, AcceptRejects, AcceptStops,
        AcceptMedia, AcceptAnswerFails, AcceptAnswerStops, AcceptReturns
  <2>2. phase'[s] \notin Late
    <3>1. phase'[s] \in {"failed", "accepting", "mediaFailed", "stopping", "negotiated",
                         "answerFailed", "returned"}
      <4>1. phase \in [Sessions -> Phases]
        BY DEF TypeInv, TypeOK, SessionsTypeOK
      <4> QED
        <5>1. CASE AcceptTooLate(s) \/ AcceptClaim(s) \/ AcceptNoMedia(s) \/ AcceptMediaFails(s)
          BY <4>1, <5>1 DEF AcceptTooLate, AcceptClaim, AcceptNoMedia, AcceptMediaFails
        <5>2. CASE AcceptRejects(s) \/ AcceptStops(s) \/ AcceptMedia(s)
          <6>1. \/ phase' = [phase EXCEPT ![s] = "stopping"]
                \/ phase' = [phase EXCEPT ![s] = "failed"]
                \/ phase' = [phase EXCEPT ![s] = "negotiated"]
            BY <5>2 DEF AcceptRejects, AcceptStops, AcceptMedia
          <6> QED BY <4>1, <6>1
        <5>3. CASE AcceptAnswerFails(s) \/ AcceptAnswerStops(s) \/ AcceptReturns(s)
          BY <4>1, <5>3 DEF AcceptAnswerFails, AcceptAnswerStops, AcceptReturns
        <5> QED BY <1>5, <5>1, <5>2, <5>3 DEF AcceptStep
    <3> QED BY <3>1
  <2> QED BY <1>4, <2>1, <2>2
<1> QED BY <1>1, <1>2, <1>3, <1>5

LEMMA ConnectedOnlyByAccept ==
    ASSUME TypeInv, [Next]_vars, ~ \E s \in Sessions : AcceptStep(s)
    PROVE  UNCHANGED connected
<1>1. ASSUME NEW u \in Users, NEW j \in Invites, NEW s \in Sessions, AcceptLookup(u, j, s)
      PROVE  UNCHANGED connected
  BY <1>1 DEF AcceptLookup
<1>2. ASSUME NEW i \in Invites, InviteStep(i) PROVE UNCHANGED connected
  <2>1. ASSUME NEW u \in Decliners, RejectLookup(u, i) \/ RejectStep(u, i)
        PROVE  UNCHANGED connected
    BY <2>1 DEF RejectLookup, RejectStep, RejectRespond, RejectFinish
  <2> QED
    BY <1>2, <2>1
    DEF InviteStep, InviteRefused, InviteArrives, InviteAnnounced, RemoteCancels,
        TimerFires, TimerStep, TimerRejects, TimerFinishes, WatchStep, WatchWakes,
        WatchFinishes, FinishStep, FinishRemove, FinishTell, FinishClose
<1> QED BY <1>1, <1>2, AsideSteps DEF Aside

LEMMA AnsweredStep == TypeInv /\ ArrivedInv /\ AnsweredInv /\ [Next]_vars => AnsweredInv'
<1> SUFFICES ASSUME TypeInv, ArrivedInv, AnsweredInv, [Next]_vars PROVE AnsweredInv'
  OBVIOUS
<1> USE AllForward DEF TypeInv, TypeOK
<1> DEFINE Late == {"responded", "connected", "registered", "unlisted"}
<1>0. \A s \in Sessions : phase[s] \in Late => target[s] \in Invites
  BY DEF AttemptOK, AcceptPhases
<1>1. ASSUME UNCHANGED connected,
             \A s \in Sessions : phase'[s] \in Late => phase'[s] = phase[s] /\ target'[s] = target[s]
      PROVE  AnsweredInv'
  BY <1>0, <1>1 DEF AnsweredInv, Answered, Forward, InvitesTypeOK
<1>2. ASSUME NEW s \in Sessions, AcceptStep(s) PROVE AnsweredInv'
  <2>1. target[s] \in Invites /\ connected \subseteq Invites
    BY <1>2, AcceptElsewhere DEF InvitesTypeOK
  <2>2. \A i \in connected' : Answered(i)'
    BY <1>2, <2>1, AcceptAdvances DEF AnsweredInv, Answered, Forward
  <2>3. \A t \in Sessions : t # s => phase'[t] = phase[t] /\ target'[t] = target[t]
    BY <1>2, AcceptElsewhere
  <2>4. connected \subseteq connected'
    BY <1>2, AcceptAdvances
  <2>5. ASSUME NEW t \in Sessions
        PROVE  /\ phase'[t] \in Late => Answered(target[t])'
               /\ phase'[t] \in {"connected", "registered", "unlisted"} => target[t] \in connected'
    BY <1>0, <1>2, <2>3, <2>4, AcceptAdvances DEF AnsweredInv, Answered, Forward
  <2> QED BY <1>2, <2>2, <2>5, AcceptElsewhere DEF AnsweredInv, Answered
<1>3. CASE Aside
  BY <1>1, <1>3 DEF Aside, AcceptPhases
<1>4. ASSUME NEW u \in Users, NEW i \in Invites, NEW s \in Sessions, AcceptLookup(u, i, s)
      PROVE  AnsweredInv'
  BY <1>1, <1>4 DEF AcceptLookup, SessionsTypeOK
<1>5. ASSUME NEW i \in Invites, InviteStep(i), ~ \E s \in Sessions : AcceptStep(s)
      PROVE  AnsweredInv'
  BY <1>1, <1>5, InviteElsewhere, ConnectedOnlyByAccept
<1> QED BY <1>2, <1>3, <1>4, <1>5, AsideSteps

LEMMA AnsweredInit == Init => AnsweredInv
BY DEF Init, SessionsInit, InvitesInit, AnsweredInv

LEMMA AnswersSound == Safety => [](TypeInv /\ ArrivedInv /\ StopInv /\ AnsweredInv)
BY InvitesSound, AnsweredInit, AnsweredStep, PTL DEF Safety

---------------------------------------------------------------------------
(* A connected call is not refused.                                        *)

\* The two ways the dialog of a connected call may come to its end.
HungUp(i) ==
    \/ onRemoteBye(i)
    \/ \E s \in Sessions : /\ target[s] = i
                           /\ closing[s] = "open"
                           /\ closing'[s] = "claimed"

Ends(i) == i \in connected /\ dialog[i] # "ended" /\ dialog'[i] = "ended"

LEMMA CloseEnds ==
    ASSUME SessionsTypeOK, NEW s \in Sessions, NEW b \in BOOLEAN, close(s, b),
           NEW i \in Invites, Ends(i)
    PROVE  HungUp(i)
BY CloseMovesDialog, InvitesAreNotSessions DEF Ends, HungUp

LEMMA DialEnds ==
    ASSUME TypeInv, NEW s \in Sessions, StartCallStep(s), NEW i \in Invites, Ends(i)
    PROVE  HungUp(i)
<1> USE DEF TypeInv, TypeOK
<1>1. CASE DialMediaFails(s) \/ DialInviteFails(s) \/ DialBadSDP(s)
  BY <1>1, CloseEnds DEF DialMediaFails, DialInviteFails, DialBadSDP
<1>2. CASE UNCHANGED dialog
  BY <1>2 DEF Ends
<1>3. CASE DialAnswered(s)
  BY <1>3, InvitesAreNotSessions DEF DialAnswered, Ends, SessionsTypeOK
<1> QED
  BY <1>1, <1>2, <1>3 DEF StartCallStep, DialRefused, DialNoMedia, DialInvite, DialRegister, DialAbort

LEMMA RejectNotConnected ==
    ASSUME SessionsTypeOK, NEW j \in Invites, NEW ok \in BOOLEAN, rejectWithResponse(j, ok),
           NEW i \in Invites, Ends(i)
    PROVE  FALSE
BY InvitesAreNotSessions DEF rejectWithResponse, Ends, SessionsTypeOK

LEMMA AcceptEnds ==
    ASSUME TypeInv, NEW s \in Sessions, AcceptStep(s), NEW i \in Invites, Ends(i)
    PROVE  HungUp(i)
<1> USE DEF TypeInv, TypeOK
<1>1. CASE AcceptMediaFails(s) \/ AcceptAnswerFails(s)
  BY <1>1, CloseEnds DEF AcceptMediaFails, AcceptAnswerFails
<1>2. CASE AcceptRejects(s)
  BY <1>2, AcceptElsewhere, RejectNotConnected DEF AcceptRejects
<1>3. CASE AcceptAnswers(s)
  BY <1>3, AcceptElsewhere, InvitesAreNotSessions DEF AcceptAnswers, Ends, SessionsTypeOK
<1>4. CASE UNCHANGED dialog
  BY <1>4 DEF Ends
<1> QED
  BY <1>1, <1>2, <1>3, <1>4
  DEF AcceptStep, AcceptTooLate, AcceptClaim, AcceptNoMedia, AcceptStops, AcceptMedia,
      AcceptAnswerStops, AcceptConnects, AcceptRegister, AcceptUnlists, AcceptReturns

\* FinishClose comes after BYE, CANCEL or a final response, or drops the dialog
\* of an answered call without ending it.
LEMMA InviteEnds ==
    ASSUME TypeInv, AnsweredInv, NEW j \in Invites, InviteStep(j), NEW i \in Invites, Ends(i)
    PROVE  FALSE
<1> USE InvitesAreNotSessions DEF TypeInv, TypeOK
<1>1. dialog[i] \notin {"idle", "invited"}
  BY DEF Ends, AnsweredInv, Answered
<1>2. CASE InviteRefused(j) \/ InviteArrives(j) \/ RemoteCancels(j)
  BY <1>1, <1>2 DEF InviteRefused, InviteArrives, RemoteCancels, Ends, SessionsTypeOK
<1>3. CASE TimerRejects(j)
  BY <1>3, RejectNotConnected DEF TimerRejects
<1>4. CASE \E u \in Decliners : RejectRespond(u, j)
  BY <1>4, RejectNotConnected DEF RejectRespond
<1>5. CASE FinishClose(j)
  BY <1>1, <1>5 DEF FinishClose, CloseDialog, AfterClose, Ends, SessionsTypeOK
<1>6. CASE UNCHANGED dialog
  BY <1>6 DEF Ends
<1> QED
  BY <1>2, <1>3, <1>4, <1>5, <1>6
  DEF InviteStep, InviteAnnounced, TimerFires, TimerStep, TimerFinishes, WatchStep,
      WatchWakes, WatchFinishes, FinishStep, FinishRemove, FinishTell, RejectLookup,
      RejectStep, RejectFinish

LEMMA EndsStep ==
    ASSUME TypeInv, AnsweredInv, [Next]_vars, NEW i \in Invites, Ends(i)
    PROVE  HungUp(i)
<1> USE DEF TypeInv, TypeOK
<1>1. ASSUME NEW s \in Sessions, SessionStep(s) PROVE HungUp(i)
  <2>1. CASE PeerConnectionFails(s) \/ Hangup(s)
    BY <2>1, CloseEnds DEF PeerConnectionFails, Hangup
  <2>2. CASE CloseStep(s)
    BY <2>2 DEF CloseStep, CloseUnregister, CloseFinish, Ends
  <2>3. CASE \E u \in Dialers : DialCheck(u, s)
    BY <2>3 DEF DialCheck, Ends
  <2>4. CASE \E u \in Users, j \in Invites : AcceptLookup(u, j, s)
    BY <2>4 DEF AcceptLookup, Ends
  <2> QED BY <1>1, <2>1, <2>2, <2>3, <2>4, DialEnds, AcceptEnds DEF SessionStep, Dial
<1>2. ASSUME NEW d \in SipIds, RemoteBye(d) PROVE HungUp(i)
  <2>1. d = i
    BY <1>2 DEF RemoteBye, onRemoteBye, Ends, SessionsTypeOK
  <2> QED BY <1>2, <2>1 DEF RemoteBye, HungUp
<1>3. CASE UNCHANGED vars
  BY <1>3 DEF vars, Ends
<1> QED BY <1>1, <1>2, <1>3, InviteEnds DEF Next, Quiescent

\* A connected call ends by a BYE or by closing one of its sessions, never by
\* the refusal or the time-out of a goroutine that comes late.
THEOREM NeverRefusedOnceConnected == Safety => ConnectedNotRejected
<1>1. TypeInv /\ AnsweredInv /\ [Next]_vars =>
        [\A i \in connected :
            dialog[i] # "ended" /\ dialog'[i] = "ended" =>
               \/ onRemoteBye(i)
               \/ \E s \in Sessions : /\ target[s] = i
                                      /\ closing[s] = "open"
                                      /\ closing'[s] = "claimed"]_vars
  <2> SUFFICES ASSUME TypeInv, AnsweredInv, [Next]_vars, NEW i \in connected,
                      dialog[i] # "ended", dialog'[i] = "ended"
               PROVE  HungUp(i)
    BY DEF HungUp
  <2>1. i \in Invites /\ Ends(i)
    BY DEF Ends, TypeInv, TypeOK, InvitesTypeOK
  <2> QED BY <2>1, EndsStep
<1> QED BY <1>1, AnswersSound, PTL DEF Safety, ConnectedNotRejected

---------------------------------------------------------------------------
(***************************************************************************)
(* Each step of the manager is one step of the life cycle of one inbound   *)
(* call, or changes nothing a client can see.  The fairness of             *)
(* Promise!LifeSpec is left to TLC.                                        *)
(***************************************************************************)

PromiseInv == TypeInv /\ ArrivedInv /\ StopInv /\ AnsweredInv

Told == {i \in Invites : Times("stopped", i) # {}}

InviteLifeStep == Promise!LifeNext \/ UNCHANGED Promise!lifeVars

---------------------------------------------------------------------------
(* What the client of one call sees, and what it does not.                 *)

\* Nothing visible has changed, but for the offer and the announcement of i.
LEMMA UnseenStep ==
    ASSUME UNCHANGED <<invUsers, ended, connected, listed>>,
           \A j \in Invites : Times("stopped", j)' = Times("stopped", j)
    PROVE  InviteLifeStep
<1>1. \A j \in Invites : Life(j)' = Life(j)
  BY DEF Life
<1>2. UNCHANGED [j \in Invites |-> Life(j)]
  BY <1>1
<1>3. UNCHANGED Told
  BY DEF Told
<1> QED BY <1>2, <1>3 DEF InviteLifeStep, Promise!lifeVars, Told

LEMMA SilentStep ==
    ASSUME UNCHANGED <<invUsers, ended, connected, listed, events>> PROVE InviteLifeStep
BY UnseenStep, SilentTimes

\* What Life of one call becomes decides the function of all.
LEMMA LifeMoves ==
    ASSUME NEW i \in Invites, Elsewhere(i), NEW becomes, Life(i)' = becomes
    PROVE  [j \in Invites |-> Life(j)]' =
              [[j \in Invites |-> Life(j)] EXCEPT ![i] = becomes]
<1>1. \A j \in Invites : j # i => Life(j)' = Life(j)
  BY DEF Elsewhere, Life
<1> QED BY <1>1

LEMMA ArrivesStep ==
    ASSUME PromiseInv, NEW i \in Invites, InviteArrives(i)
    PROVE  InviteLifeStep
<1> USE DEF PromiseInv, TypeInv, TypeOK
<1>1. Elsewhere(i)
  BY InviteElsewhere DEF InviteStep
<1>2. /\ invUsers[i] = {} /\ i \notin ended /\ i \notin connected
      /\ UNCHANGED <<ended, connected, events>> /\ listed' = listed \cup {i}
  BY DEF InviteArrives, ArrivedInv, Untouched
<1>3. invUsers'[i] # {}
  <2>1. PICK users \in (SUBSET Users) \ {{}} : invUsers' = [invUsers EXCEPT ![i] = users]
    BY DEF InviteArrives
  <2>2. users # {} /\ invUsers'[i] = users
    BY <2>1 DEF InvitesTypeOK
  <2> QED BY <2>2
<1>4. Life(i) = "none" /\ Life(i)' = "ringing"
  BY <1>2, <1>3 DEF Life
<1>5. UNCHANGED Told
  BY <1>2, SilentTimes DEF Told
<1>6. Promise!Ring(i)
  BY <1>1, <1>2, <1>4, <1>5, LifeMoves DEF Promise!Ring, Told
<1> QED BY <1>6 DEF InviteLifeStep, Promise!LifeNext

\* The connected flag answers a call that rings; a second accept, or one that comes
\* after the end, changes nothing a client can see.
LEMMA ConnectsStep ==
    ASSUME PromiseInv, NEW s \in Sessions, AcceptConnects(s)
    PROVE  /\ Life(target[s]) # "none"
           /\ IF Life(target[s]) = "ringing" THEN Promise!Answer(target[s])
              ELSE UNCHANGED Promise!lifeVars
<1> USE DEF PromiseInv, TypeInv, TypeOK
<1>0. target[s] \in Invites /\ phase[s] \in AcceptPhases /\ Elsewhere(target[s])
  BY AcceptElsewhere DEF AcceptStep
<1>1. PICK i \in Invites : i = target[s]
  BY <1>0
<1>2. /\ UNCHANGED <<invUsers, ended, listed, events>>
      /\ connected' = connected \cup {i}
  BY <1>1 DEF AcceptConnects
<1>3. invUsers[i] # {}
  BY <1>0, <1>1 DEF ArrivedInv, Untouched
<1>4. Life(i) # "none"
  BY <1>3 DEF Life
<1>5. CASE i \in connected \cup ended
  <2>1. \A j \in Invites : Life(j)' = Life(j)
    BY <1>2, <1>5 DEF Life
  <2>2. UNCHANGED [j \in Invites |-> Life(j)]
    BY <2>1
  <2>3. UNCHANGED Told
    BY <1>2, SilentTimes DEF Told
  <2>4. Life(i) # "ringing"
    BY <1>5 DEF Life
  <2> QED BY <1>1, <1>2, <1>4, <2>2, <2>3, <2>4 DEF Promise!lifeVars, Told
<1>6. CASE i \notin connected /\ i \notin ended
  <2>1. Life(i) = "ringing" /\ Life(i)' = "answered"
    BY <1>2, <1>3, <1>6 DEF Life
  <2>2. UNCHANGED Told
    BY <1>2, SilentTimes DEF Told
  <2>3. Promise!Answer(i)
    BY <1>0, <1>1, <1>2, <2>1, <2>2, LifeMoves DEF Promise!Answer, Told
  <2> QED BY <1>1, <1>4, <2>1, <2>3
<1> QED BY <1>5, <1>6

\* finishInbound, from whichever goroutine: the first stops the call.
LEMMA FinishesStep ==
    ASSUME PromiseInv, NEW i \in Invites, NEW reason, finishInbound(i, reason),
           Elsewhere(i), invUsers[i] # {}, UNCHANGED <<invUsers, listed, connected, events>>
    PROVE  InviteLifeStep
<1>1. CASE i \in ended
  BY <1>1, SilentStep DEF finishInbound
<1>2. CASE i \notin ended
  <2>1. Life(i) \in {"ringing", "answered"} /\ Life(i)' = "stopped"
    BY <1>2 DEF finishInbound, Life
  <2>2. UNCHANGED Told
    BY SilentTimes DEF Told
  <2>3. Promise!Stop(i)
    BY <2>1, <2>2, LifeMoves DEF Promise!Stop, Told
  <2> QED BY <2>3 DEF InviteLifeStep, Promise!LifeNext
<1> QED BY <1>1, <1>2

LEMMA UnlistsStep ==
    ASSUME NEW i \in Invites, Life(i) \in {"answered", "stopped"}, listed' = listed \ {i},
           UNCHANGED <<invUsers, ended, connected, events>>
    PROVE  InviteLifeStep
<1>1. CASE i \notin listed
  BY <1>1, SilentStep
<1>2. CASE i \in listed
  <2>1. \A j \in Invites : Life(j)' = Life(j)
    BY DEF Life
  <2>2. UNCHANGED [j \in Invites |-> Life(j)]
    BY <2>1
  <2>3. UNCHANGED Told
    BY SilentTimes DEF Told
  <2>4. Promise!Withdraw(i)
    BY <1>2, <2>2, <2>3 DEF Promise!Withdraw, Told
  <2> QED BY <2>4 DEF InviteLifeStep, Promise!LifeNext
<1> QED BY <1>1, <1>2

LEMMA TellsStep ==
    ASSUME PromiseInv, NEW i \in Invites, FinishTell(i)
    PROVE  Promise!Tell(i)
<1> USE DEF PromiseInv, TypeInv, TypeOK
<1>1. /\ UNCHANGED <<invUsers, ended, connected, listed>>
      /\ finishing[i] = "removed" /\ emitIncomingEvent(i, "stopped")
  BY DEF FinishTell
<1>2. i \in ended /\ i \notin listed /\ Times("stopped", i) = {}
  BY <1>1 DEF StopInv
<1>3. invUsers[i] # {}
  BY <1>1 DEF ArrivedInv, Untouched
<1>4. UNCHANGED [j \in Invites |-> Life(j)]
  <2>1. \A j \in Invites : Life(j)' = Life(j)
    BY <1>1 DEF Life
  <2> QED BY <2>1
<1>5. Life(i) = "stopped" /\ i \notin Told
  BY <1>2, <1>3 DEF Life, Told
<1>6. Told' = Told \cup {i}
  <2>1. \A j \in Invites : j # i => Times("stopped", j)' = Times("stopped", j)
    <3> SUFFICES ASSUME NEW j \in Invites, j # i
                 PROVE  Times("stopped", j)' = Times("stopped", j)
      OBVIOUS
    <3>1. InvitesTypeOK /\ emitIncomingEvent(i, "stopped")
      BY <1>1
    <3> QED BY <3>1, EmitTimes
  <2>2. Times("stopped", i)' # {}
    <3>1. Times("stopped", i)' = Times("stopped", i) \cup {Len(events[i]) + 1}
      BY <1>1, EmitTimes
    <3> QED BY <3>1
  <2> QED BY <2>1, <2>2 DEF Told
<1> QED BY <1>1, <1>2, <1>4, <1>5, <1>6 DEF Promise!Tell, Told

---------------------------------------------------------------------------
(* Every step.                                                             *)

LEMMA PromiseAccept ==
    ASSUME PromiseInv, NEW s \in Sessions, AcceptStep(s)
    PROVE  InviteLifeStep
<1> USE DEF PromiseInv, TypeInv, TypeOK
<1>0. PICK i \in Invites : i = target[s]
  BY AcceptElsewhere
<1>1. phase[s] \in AcceptPhases /\ Elsewhere(i) /\ UNCHANGED invUsers
  BY <1>0, AcceptElsewhere
<1>2. invUsers[i] # {}
  BY <1>0, <1>1 DEF ArrivedInv, Untouched
<1>3. CASE AcceptStops(s) \/ AcceptAnswerStops(s)
  <2>1. PICK reason : finishInbound(i, reason)
    BY <1>0, <1>3 DEF AcceptStops, AcceptAnswerStops
  <2>2. UNCHANGED <<invUsers, listed, connected, events>>
    BY <1>3 DEF AcceptStops, AcceptAnswerStops
  <2> QED BY <1>1, <1>2, <2>1, <2>2, FinishesStep
<1>4. CASE AcceptUnlists(s)
  <2>1. i \in connected
    BY <1>0, <1>4 DEF AcceptUnlists, AnsweredInv
  <2>2. Life(i) \in {"answered", "stopped"}
    BY <1>2, <2>1 DEF Life
  <2>3. listed' = listed \ {i} /\ UNCHANGED <<invUsers, ended, connected, events>>
    BY <1>0, <1>4 DEF AcceptUnlists
  <2> QED BY <1>1, <2>2, <2>3, UnlistsStep
<1>5. CASE AcceptReturns(s)
  <2>1. \A j \in Invites : Times("stopped", j)' = Times("stopped", j)
    BY <1>0, <1>1, <1>5, EmitTimes DEF AcceptReturns
  <2> QED BY <1>5, <2>1, UnseenStep DEF AcceptReturns
<1>6. CASE AcceptConnects(s)
  <2>1. Promise!Answer(i) \/ UNCHANGED Promise!lifeVars
    BY <1>0, <1>6, ConnectsStep
  <2> QED BY <2>1 DEF InviteLifeStep, Promise!LifeNext
<1>7. CASE UNCHANGED <<invUsers, ended, connected, listed, events>>
  BY <1>7, SilentStep
<1> QED
  BY <1>3, <1>4, <1>5, <1>6, <1>7
  DEF AcceptStep, AcceptTooLate, AcceptClaim, AcceptNoMedia, AcceptMediaFails, AcceptRejects,
      AcceptMedia, AcceptAnswers, AcceptAnswerFails, AcceptRegister

LEMMA PromiseInvite ==
    ASSUME PromiseInv, NEW i \in Invites, InviteStep(i)
    PROVE  InviteLifeStep
<1> USE DEF PromiseInv, TypeInv, TypeOK
<1>1. Elsewhere(i)
  BY InviteElsewhere
<1>2. CASE TimerFinishes(i) \/ WatchFinishes(i) \/ \E u \in Decliners : RejectFinish(u, i)
  <2>1. PICK reason : finishInbound(i, reason)
    BY <1>2 DEF TimerFinishes, WatchFinishes, RejectFinish
  <2>2. UNCHANGED <<invUsers, listed, connected, events>>
    BY <1>2 DEF TimerFinishes, WatchFinishes, RejectFinish
  <2>3. invUsers[i] # {}
    BY <1>2, DeclinersAreUsers
    DEF TimerFinishes, WatchFinishes, RejectFinish, ArrivedInv, Untouched
  <2> QED BY <1>1, <2>1, <2>2, <2>3, FinishesStep
<1>3. CASE FinishRemove(i)
  <2>1. i \in ended /\ invUsers[i] # {}
    BY <1>3 DEF FinishRemove, StopInv, ArrivedInv, Untouched
  <2>2. Life(i) = "stopped"
    BY <2>1 DEF Life
  <2>3. listed' = listed \ {i} /\ UNCHANGED <<invUsers, ended, connected, events>>
    BY <1>3 DEF FinishRemove
  <2> QED BY <2>2, <2>3, UnlistsStep
<1>4. CASE InviteAnnounced(i)
  <2>1. \A j \in Invites : Times("stopped", j)' = Times("stopped", j)
    BY <1>4, EmitTimes DEF InviteAnnounced
  <2> QED BY <1>4, <2>1, UnseenStep DEF InviteAnnounced
<1>5. CASE FinishTell(i)
  BY <1>5, TellsStep DEF InviteLifeStep, Promise!LifeNext
<1>6. CASE UNCHANGED <<invUsers, ended, connected, listed, events>>
  BY <1>6, SilentStep
<1> QED
  BY <1>2, <1>3, <1>4, <1>5, <1>6, ArrivesStep
  DEF InviteStep, InviteRefused, RemoteCancels, TimerFires, TimerStep, TimerRejects,
      WatchStep, WatchWakes, FinishStep, FinishClose, RejectLookup, RejectStep, RejectRespond

LEMMA PromiseStep == PromiseInv /\ [Next]_vars => InviteLifeStep
<1> SUFFICES ASSUME PromiseInv, [Next]_vars PROVE InviteLifeStep
  OBVIOUS
<1>1. CASE UNCHANGED inviteVars
  BY <1>1, SilentStep
<1>2. CASE \E u \in Users, i \in Invites, s \in Sessions : AcceptLookup(u, i, s)
  BY <1>1, <1>2 DEF AcceptLookup
<1> QED BY <1>1, <1>2, PromiseAccept, PromiseInvite, AsideSteps DEF Aside, PromiseInv

LEMMA PromiseInit == Init => Promise!LifeInit
<1> SUFFICES ASSUME Init PROVE Promise!LifeInit
  OBVIOUS
<1>1. \A i \in Invites : Life(i) = "none"
  BY DEF Init, InvitesInit, Life
<1>2. Told = {}
  BY DEF Init, InvitesInit, Told, Times
<1>3. listed = {}
  BY DEF Init, InvitesInit
<1> QED BY <1>1, <1>2, <1>3 DEF Promise!LifeInit, Told

\* What the flags, the pending list and the events of an inbound call do is
\* what InviteLifecycle promises: one answer at most, one stop at most, off the
\* list only when it no longer rings, announced only when off the list.
THEOREM InvitesKeepPromise == Safety => Promise!LifeSafety
<1>1. PromiseInv /\ [Next]_vars => [Promise!LifeNext]_(Promise!lifeVars)
  BY PromiseStep DEF InviteLifeStep
<1>2. Safety => []PromiseInv
  BY AnswersSound DEF PromiseInv
<1> QED BY <1>1, <1>2, PromiseInit, PTL DEF Safety, Promise!LifeSafety

---------------------------------------------------------------------------
(***************************************************************************)
(* Every step of the manager is a step of SessionLifecycle, or none.       *)
(***************************************************************************)

NotBegun == {"none", "dialing", "lookedUp", "accepting"}
Anonymous == NotBegun \cup {"mediaFailed", "stopping"}
Named == {"inviting", "answered", "negotiated", "answerFailed", "responded",
          "connected", "registered", "unlisted", "returned"}

\* UserID is set exactly when the caller's WebRTC side exists, nobody closes a
\* session before that, and a call that failed has no close under way.
LifeOK(s) ==
    /\ phase[s] \in Anonymous => userID[s] = NoUser
    /\ phase[s] \in NotBegun => closing[s] = "open"
    /\ phase[s] \in {"aborting", "answerFailed"} => closing[s] # "open"
    /\ phase[s] = "stopping" => closing[s] \in {"open", "closed"}
    /\ phase[s] \in Named => userID[s] \in Users /\ userID[s] = caller[s]
    /\ phase[s] = "aborting" => userID[s] \in {NoUser, caller[s]}
    /\ phase[s] = "failed" =>
          closing[s] = "closed" \/ (closing[s] = "open" /\ userID[s] = NoUser)

LifeInv == \A s \in Sessions : LifeOK(s)

---------------------------------------------------------------------------
(* The invariant.                                                          *)

LEMMA LifeInit == Init => LifeInv
BY DEF Init, SessionsInit, LifeInv, LifeOK, Anonymous, NotBegun, Named

LEMMA LifeFrame ==
    ASSUME LifeInv, UNCHANGED <<phase, caller, userID, closing>> PROVE LifeInv'
BY DEF LifeInv, LifeOK

\* A step of one session needs to be looked at for that session only.
LEMMA LifeOne ==
    ASSUME LifeInv, NEW s \in Sessions, LifeOK(s)',
           \A t \in Sessions : t # s =>
               UNCHANGED <<phase[t], caller[t], userID[t], closing[t]>>
    PROVE  LifeInv'
BY DEF LifeInv, LifeOK

LEMMA LifeDial ==
    ASSUME TypeInv, LifeInv, NEW s \in Sessions, StartCallStep(s)
    PROVE  LifeInv'
<1> USE DEF TypeInv, TypeOK, SessionsTypeOK
<1> LifeOK(s)
  BY DEF LifeInv
<1>1. CASE DialRefused(s)
  <2>1. LifeOK(s)'
    BY <1>1 DEF DialRefused, LifeOK, Anonymous, NotBegun, Named
  <2> QED BY <1>1, <2>1, LifeOne DEF DialRefused
<1>2. CASE DialMediaFails(s)
  <2>1. LifeOK(s)'
    BY <1>2, CloseClaims DEF DialMediaFails, LifeOK, Anonymous, NotBegun, Named
  <2> QED BY <1>2, <2>1, LifeOne, CloseClaims DEF DialMediaFails
<1>3. CASE DialInvite(s)
  <2>1. LifeOK(s)'
    BY <1>3 DEF AttemptOK, DialPhases, DialInvite, LifeOK, Anonymous, NotBegun, Named
  <2> QED BY <1>3, <2>1, LifeOne DEF DialInvite
<1>4. CASE DialAnswered(s)
  <2>1. LifeOK(s)'
    BY <1>4 DEF DialAnswered, LifeOK, Anonymous, NotBegun, Named
  <2> QED BY <1>4, <2>1, LifeOne DEF DialAnswered
<1>5. CASE DialInviteFails(s)
  <2>1. LifeOK(s)'
    BY <1>5, CloseClaims DEF DialInviteFails, LifeOK, Anonymous, NotBegun, Named
  <2> QED BY <1>5, <2>1, LifeOne, CloseClaims DEF DialInviteFails
<1>6. CASE DialBadSDP(s)
  <2>1. LifeOK(s)'
    BY <1>6, CloseClaims DEF DialBadSDP, LifeOK, Anonymous, NotBegun, Named
  <2> QED BY <1>6, <2>1, LifeOne, CloseClaims DEF DialBadSDP
<1>7. CASE DialRegister(s)
  <2>1. LifeOK(s)'
    BY <1>7 DEF DialRegister, LifeOK, Anonymous, NotBegun, Named
  <2> QED BY <1>7, <2>1, LifeOne DEF DialRegister
<1>8. CASE DialAbort(s)
  <2>1. LifeOK(s)'
    BY <1>8 DEF DialAbort, NotClosing, LifeOK, Anonymous, NotBegun, Named
  <2> QED BY <1>8, <2>1, LifeOne DEF DialAbort
<1>9. CASE DialNoMedia(s)
  <2>1. LifeOK(s)'
    BY <1>9 DEF DialNoMedia, LifeOK, Anonymous, NotBegun, Named
  <2> QED BY <1>9, <2>1, LifeOne DEF DialNoMedia
<1> QED
  BY <1>1, <1>2, <1>3, <1>4, <1>5, <1>6, <1>7, <1>8, <1>9 DEF StartCallStep

LEMMA LifeAccept ==
    ASSUME TypeInv, LifeInv, NEW s \in Sessions, AcceptStep(s)
    PROVE  LifeInv'
<1> USE DEF TypeInv, TypeOK, SessionsTypeOK
<1> LifeOK(s)
  BY DEF LifeInv
<1>1. CASE AcceptTooLate(s)
  <2>1. LifeOK(s)'
    BY <1>1 DEF AcceptTooLate, LifeOK, Anonymous, NotBegun, Named
  <2> QED BY <1>1, <2>1, LifeOne DEF AcceptTooLate
<1>2. CASE AcceptClaim(s)
  <2>1. LifeOK(s)'
    BY <1>2 DEF AcceptClaim, LifeOK, Anonymous, NotBegun, Named
  <2> QED BY <1>2, <2>1, LifeOne DEF AcceptClaim
<1>3. CASE AcceptMediaFails(s)
  <2>1. LifeOK(s)'
    BY <1>3, CloseClaims DEF AcceptMediaFails, LifeOK, Anonymous, NotBegun, Named
  <2> QED BY <1>3, <2>1, LifeOne, CloseClaims DEF AcceptMediaFails
<1>4. CASE AcceptRejects(s)
  <2>1. LifeOK(s)'
    BY <1>4 DEF AcceptRejects, NotClosing, LifeOK, Anonymous, NotBegun, Named
  <2> QED BY <1>4, <2>1, LifeOne DEF AcceptRejects
<1>5. CASE AcceptStops(s)
  <2>1. LifeOK(s)'
    BY <1>5 DEF AcceptStops, LifeOK, Anonymous, NotBegun, Named
  <2> QED BY <1>5, <2>1, LifeOne DEF AcceptStops
<1>6. CASE AcceptMedia(s)
  <2>1. LifeOK(s)'
    BY <1>6 DEF AttemptOK, AcceptPhases, AcceptMedia, LifeOK, Anonymous, NotBegun, Named
  <2> QED BY <1>6, <2>1, LifeOne DEF AcceptMedia
<1>7. CASE AcceptAnswers(s)
  <2>1. LifeOK(s)'
    BY <1>7 DEF AcceptAnswers, LifeOK, Anonymous, NotBegun, Named
  <2> QED BY <1>7, <2>1, LifeOne DEF AcceptAnswers
<1>8. CASE AcceptAnswerFails(s)
  <2>1. LifeOK(s)'
    BY <1>8, CloseClaims DEF AcceptAnswerFails, LifeOK, Anonymous, NotBegun, Named
  <2> QED BY <1>8, <2>1, LifeOne, CloseClaims DEF AcceptAnswerFails
<1>9. CASE AcceptAnswerStops(s)
  <2>1. LifeOK(s)'
    BY <1>9 DEF AcceptAnswerStops, NotClosing, LifeOK, Anonymous, NotBegun, Named
  <2> QED BY <1>9, <2>1, LifeOne DEF AcceptAnswerStops
<1>10. CASE AcceptConnects(s)
  <2>1. LifeOK(s)'
    BY <1>10 DEF AcceptConnects, LifeOK, Anonymous, NotBegun, Named
  <2> QED BY <1>10, <2>1, LifeOne DEF AcceptConnects
<1>11. CASE AcceptRegister(s)
  <2>1. LifeOK(s)'
    BY <1>11 DEF AcceptRegister, LifeOK, Anonymous, NotBegun, Named
  <2> QED BY <1>11, <2>1, LifeOne DEF AcceptRegister
<1>12. CASE AcceptUnlists(s)
  <2>1. LifeOK(s)'
    BY <1>12 DEF AcceptUnlists, LifeOK, Anonymous, NotBegun, Named
  <2> QED BY <1>12, <2>1, LifeOne DEF AcceptUnlists
<1>13. CASE AcceptReturns(s)
  <2>1. LifeOK(s)'
    BY <1>13 DEF AcceptReturns, LifeOK, Anonymous, NotBegun, Named
  <2> QED BY <1>13, <2>1, LifeOne DEF AcceptReturns
<1>14. CASE AcceptNoMedia(s)
  <2>1. LifeOK(s)'
    BY <1>14 DEF AcceptNoMedia, LifeOK, Anonymous, NotBegun, Named
  <2> QED BY <1>14, <2>1, LifeOne DEF AcceptNoMedia
<1> QED
  BY <1>1, <1>2, <1>3, <1>4, <1>5, <1>6, <1>7, <1>8, <1>9, <1>10, <1>11, <1>12, <1>13, <1>14
  DEF AcceptStep

LEMMA LifeOthers ==
    ASSUME TypeInv, LifeInv, NEW s \in Sessions
    PROVE  /\ PeerConnectionFails(s) \/ Hangup(s) => LifeInv'
           /\ CloseUnregister(s) \/ CloseFinish(s) => LifeInv'
<1> USE DEF TypeInv, TypeOK, SessionsTypeOK
<1> LifeOK(s)
  BY DEF LifeInv
<1>1. ASSUME PeerConnectionFails(s) PROVE LifeInv'
  <2>1. LifeOK(s)'
    BY <1>1, CloseClaims DEF PeerConnectionFails, LifeOK, Anonymous, NotBegun, Named
  <2> QED BY <1>1, <2>1, LifeOne, CloseClaims DEF PeerConnectionFails
<1>2. ASSUME Hangup(s) PROVE LifeInv'
  <2>1. LifeOK(s)'
    BY <1>2, CloseClaims DEF Hangup, LifeOK, Anonymous, NotBegun, Named
  <2> QED BY <1>2, <2>1, LifeOne, CloseClaims DEF Hangup
<1>3. ASSUME CloseUnregister(s) PROVE LifeInv'
  <2>1. LifeOK(s)'
    BY <1>3 DEF CloseUnregister, LifeOK, Anonymous, NotBegun, Named
  <2> QED BY <1>3, <2>1, LifeOne DEF CloseUnregister
<1>4. ASSUME CloseFinish(s) PROVE LifeInv'
  <2>1. LifeOK(s)'
    BY <1>4 DEF CloseFinish, LifeOK, Anonymous, NotBegun, Named
  <2> QED BY <1>4, <2>1, LifeOne DEF CloseFinish
<1> QED BY <1>1, <1>2, <1>3, <1>4

LEMMA LifeBegins ==
    ASSUME TypeInv, LifeInv, NEW s \in Sessions, NEW u \in Users,
           DialCheck(u, s) \/ \E i \in Invites : AcceptLookup(u, i, s)
    PROVE  LifeInv'
<1> USE DEF TypeInv, TypeOK, SessionsTypeOK
<1> LifeOK(s)
  BY DEF LifeInv
<1>1. CASE DialCheck(u, s)
  <2>1. LifeOK(s)'
    BY <1>1 DEF DialCheck, LifeOK, Anonymous, NotBegun, Named
  <2> QED BY <1>1, <2>1, LifeOne DEF DialCheck
<1>2. ASSUME NEW i \in Invites, AcceptLookup(u, i, s) PROVE LifeInv'
  <2>1. LifeOK(s)'
    BY <1>2 DEF AcceptLookup, LifeOK, Anonymous, NotBegun, Named
  <2> QED BY <1>2, <2>1, LifeOne DEF AcceptLookup
<1> QED BY <1>1, <1>2

\* What the remote and the invites' own goroutines do to a session: nothing,
\* except that a BYE claims the close of a registered one.
LEMMA ByeClaims ==
    ASSUME TypeInv, RegistryInv, NEW d \in SipIds, RemoteBye(d)
    PROVE  /\ UNCHANGED <<phase, caller, userID, callsByUser>>
           /\ \/ UNCHANGED closing
              \/ \E s \in Sessions : /\ Registered(s) /\ closing[s] = "open"
                                     /\ closing' = [closing EXCEPT ![s] = "claimed"]
<1>1. UNCHANGED <<phase, caller, userID, callsByUser>>
  BY DEF RemoteBye, onRemoteBye
<1>2. CASE callsBySIPID[d] = NoSession
  BY <1>1, <1>2 DEF RemoteBye, onRemoteBye
<1>3. CASE callsBySIPID[d] # NoSession
  <2>1. callsBySIPID[d] \in Sessions /\ Registered(callsBySIPID[d])
    BY <1>3 DEF TypeInv, TypeOK, SessionsTypeOK, RegistryInv, RegistryCoherent
  <2> QED BY <1>1, <1>3, <2>1 DEF RemoteBye, onRemoteBye
<1> QED BY <1>2, <1>3

LEMMA InviteLeaves ==
    ASSUME NEW i \in Invites, InviteStep(i)
    PROVE  UNCHANGED <<phase, caller, userID, closing, callsByUser>>
<1>1. UNCHANGED closing
  <2>1. ASSUME NEW u \in Decliners, RejectLookup(u, i) \/ RejectStep(u, i)
        PROVE  UNCHANGED closing
    BY <2>1 DEF RejectLookup, RejectStep, RejectRespond, RejectFinish
  <2> QED
    BY <2>1 DEF InviteStep, InviteRefused, InviteArrives, InviteAnnounced,
       RemoteCancels, TimerFires, TimerStep, TimerRejects, TimerFinishes, WatchStep,
       WatchWakes, WatchFinishes, FinishStep, FinishRemove, FinishTell, FinishClose
<1> QED BY <1>1, InviteStepStill

LEMMA SessionLifeStep == TypeInv /\ RegistryInv /\ LifeInv /\ [Next]_vars => LifeInv'
<1> SUFFICES ASSUME TypeInv, RegistryInv, LifeInv, [Next]_vars PROVE LifeInv'
  OBVIOUS
<1>1. ASSUME NEW s \in Sessions, SessionStep(s) PROVE LifeInv'
  <2>1. ASSUME NEW u \in Dialers, DialCheck(u, s) PROVE LifeInv'
    BY <2>1, LifeBegins, DialersAreUsers
  <2>2. ASSUME NEW u \in Users, NEW i \in Invites, AcceptLookup(u, i, s) PROVE LifeInv'
    BY <2>2, LifeBegins
  <2> QED
    BY <1>1, <2>1, <2>2, LifeDial, LifeAccept, LifeOthers DEF SessionStep, Dial, CloseStep
<1>2. ASSUME NEW i \in Invites, InviteStep(i) PROVE LifeInv'
  BY <1>2, InviteLeaves, LifeFrame
<1>3. ASSUME NEW d \in SipIds, RemoteBye(d) PROVE LifeInv'
  <2>1. CASE UNCHANGED closing
    BY <1>3, <2>1, ByeClaims, LifeFrame
  <2>2. ASSUME NEW s \in Sessions, Registered(s), closing[s] = "open",
               closing' = [closing EXCEPT ![s] = "claimed"]
        PROVE  LifeInv'
    <3>1. UNCHANGED <<phase, caller, userID>>
      BY <1>3, ByeClaims
    <3>2. LifeOK(s)'
      BY <2>2, <3>1 DEF LifeInv, LifeOK, Registered, InPhases, TypeInv, TypeOK,
         SessionsTypeOK, Anonymous, NotBegun, Named
    <3> QED BY <2>2, <3>1, <3>2, LifeOne DEF TypeInv, TypeOK, SessionsTypeOK
  <2> QED BY <1>3, <2>1, <2>2, ByeClaims
<1>4. CASE UNCHANGED vars
  BY <1>4, LifeFrame DEF vars
<1> QED BY <1>1, <1>2, <1>3, <1>4 DEF Next, Quiescent

---------------------------------------------------------------------------
(* The steps.                                                              *)

StageOf == [s \in Sessions |-> Stage(s)]

AbstractVars == <<StageOf, closing, caller, callsByUser>>

AbstractStep == [Lifecycle!LifecycleNext]_AbstractVars

LEMMA StageSet ==
    ASSUME NEW s \in Sessions,
           \A t \in Sessions : t # s => UNCHANGED <<phase[t], userID[t]>>
    PROVE  StageOf' = [StageOf EXCEPT ![s] = Stage(s)']
BY DEF StageOf, Stage, Registered, InPhases

\* Moves between phases that a user of the manager cannot tell apart.
LEMMA StageKept ==
    ASSUME NEW s \in Sessions, Stage(s)' = Stage(s),
           \A t \in Sessions : t # s => UNCHANGED <<phase[t], userID[t]>>
    PROVE  StageOf' = StageOf
BY DEF StageOf, Stage, Registered, InPhases

LEMMA Stutters ==
    ASSUME StageOf' = StageOf, UNCHANGED <<closing, caller, callsByUser>>
    PROVE  AbstractStep
BY DEF AbstractStep, AbstractVars

LEMMA Begins ==
    ASSUME NEW s \in Sessions, NEW u \in Users,
           Stage(s) = "none", callsByUser[u] = NoSession, Stage(s)' = "trying",
           \A t \in Sessions : t # s => UNCHANGED <<phase[t], userID[t]>>,
           caller' = [caller EXCEPT ![s] = u], UNCHANGED <<closing, callsByUser>>
    PROVE  AbstractStep
<1>1. StageOf' = [StageOf EXCEPT ![s] = "trying"]
  BY StageSet
<1>2. Lifecycle!Begin(u, s)
  BY <1>1 DEF Lifecycle!Begin, StageOf
<1> QED BY <1>2 DEF AbstractStep, Lifecycle!LifecycleNext

LEMMA Offers ==
    ASSUME NEW s \in Sessions,
           Stage(s) = "trying", closing[s] = "open", Stage(s)' = "offered",
           \A t \in Sessions : t # s => UNCHANGED <<phase[t], userID[t]>>,
           UNCHANGED <<closing, caller, callsByUser>>
    PROVE  AbstractStep
<1>1. StageOf' = [StageOf EXCEPT ![s] = "offered"]
  BY StageSet
<1>2. Lifecycle!Offer(s)
  BY <1>1 DEF Lifecycle!Offer, StageOf
<1> QED BY <1>2 DEF AbstractStep, Lifecycle!LifecycleNext

LEMMA Registers ==
    ASSUME NEW s \in Sessions,
           Stage(s) = "offered", Stage(s)' = "registered",
           \A t \in Sessions : t # s => UNCHANGED <<phase[t], userID[t]>>,
           callsByUser' = [callsByUser EXCEPT ![caller[s]] = s],
           UNCHANGED <<closing, caller>>
    PROVE  AbstractStep
<1>1. StageOf' = [StageOf EXCEPT ![s] = "registered"]
  BY StageSet
<1>2. Lifecycle!Register(s)
  BY <1>1 DEF Lifecycle!Register, StageOf
<1> QED BY <1>2 DEF AbstractStep, Lifecycle!LifecycleNext

LEMMA Fails ==
    ASSUME NEW s \in Sessions,
           \/ Stage(s) = "trying" /\ closing[s] = "open"
           \/ Stage(s) \in {"trying", "offered"} /\ closing[s] = "closed",
           Stage(s)' = "failed",
           \A t \in Sessions : t # s => UNCHANGED <<phase[t], userID[t]>>,
           UNCHANGED <<closing, caller, callsByUser>>
    PROVE  AbstractStep
<1>1. StageOf' = [StageOf EXCEPT ![s] = "failed"]
  BY StageSet
<1>2. Lifecycle!Fail(s)
  BY <1>1 DEF Lifecycle!Fail, StageOf
<1> QED BY <1>2 DEF AbstractStep, Lifecycle!LifecycleNext

LEMMA Claims ==
    ASSUME NEW s \in Sessions, Stage(s) \in {"trying", "offered", "registered"},
           closing[s] = "open", closing' = [closing EXCEPT ![s] = "claimed"],
           StageOf' = StageOf, UNCHANGED <<caller, callsByUser>>
    PROVE  AbstractStep
<1>1. Lifecycle!Claim(s)
  BY DEF Lifecycle!Claim, StageOf
<1> QED BY <1>1 DEF AbstractStep, Lifecycle!LifecycleNext

\* close as a part of a step that is the end of an attempt: whoever was first,
\* the session is claimed from then on.
LEMMA ClaimsOrWaits ==
    ASSUME TypeInv, NEW s \in Sessions, NEW b \in BOOLEAN, close(s, b),
           Stage(s) \in {"trying", "offered", "registered"}, Stage(s)' = Stage(s),
           \A t \in Sessions : t # s => UNCHANGED <<phase[t], userID[t]>>,
           UNCHANGED <<caller, callsByUser>>
    PROVE  AbstractStep
<1>1. StageOf' = StageOf
  BY StageKept
<1>2. CASE closing[s] = "open"
  BY <1>1, <1>2, Claims DEF close
<1>3. CASE closing[s] # "open"
  BY <1>1, <1>3, Stutters DEF close
<1> QED BY <1>2, <1>3

LEMMA RefineDial ==
    ASSUME TypeInv, LifeInv, NEW s \in Sessions, StartCallStep(s)
    PROVE  AbstractStep
<1> USE DEF TypeInv, TypeOK, SessionsTypeOK, AttemptOK
<1> LifeOK(s)
  BY DEF LifeInv
<1> USE DEF Stage, Registered, InPhases, LifeOK, Anonymous, NotBegun, Named, DialPhases
<1>1. CASE DialRefused(s)
  BY <1>1, Fails DEF DialRefused
<1>2. CASE DialMediaFails(s)
  <2>1. Stage(s) = "trying" /\ Stage(s)' = "trying"
    BY <1>2 DEF DialMediaFails
  <2> QED BY <1>2, <2>1, ClaimsOrWaits DEF DialMediaFails
<1>3. CASE DialInvite(s)
  <2>1. Stage(s) = "trying" /\ Stage(s)' = "offered"
    BY <1>3, NamesAreDistinct DEF DialInvite
  <2> QED BY <1>3, <2>1, Offers DEF DialInvite
<1>4. CASE DialAnswered(s)
  <2>1. Stage(s)' = Stage(s)
    BY <1>4 DEF DialAnswered
  <2>2. StageOf' = StageOf
    BY <1>4, <2>1, StageKept DEF DialAnswered
  <2> QED BY <1>4, <2>2, Stutters DEF DialAnswered
<1>5. CASE DialInviteFails(s)
  <2>1. Stage(s) = "offered" /\ Stage(s)' = "offered"
    BY <1>5, NamesAreDistinct DEF DialInviteFails
  <2> QED BY <1>5, <2>1, ClaimsOrWaits DEF DialInviteFails
<1>6. CASE DialBadSDP(s)
  <2>1. Stage(s) = "offered" /\ Stage(s)' = "offered"
    BY <1>6, NamesAreDistinct DEF DialBadSDP
  <2> QED BY <1>6, <2>1, ClaimsOrWaits DEF DialBadSDP
<1>7. CASE DialRegister(s)
  <2>1. Stage(s) = "offered" /\ Stage(s)' = "registered" /\ userID[s] = caller[s]
    BY <1>7, NamesAreDistinct DEF DialRegister
  <2> QED BY <1>7, <2>1, Registers DEF DialRegister, registerCall
<1>8. CASE DialAbort(s)
  <2>1. /\ Stage(s) \in {"trying", "offered"} /\ closing[s] = "closed"
        /\ Stage(s)' = "failed"
    BY <1>8 DEF DialAbort, NotClosing
  <2> QED BY <1>8, <2>1, Fails DEF DialAbort
<1>9. CASE DialNoMedia(s)
  <2>1. Stage(s) = "trying" /\ closing[s] = "open" /\ Stage(s)' = "failed"
    BY <1>9 DEF DialNoMedia
  <2> QED BY <1>9, <2>1, Fails DEF DialNoMedia
<1> QED
  BY <1>1, <1>2, <1>3, <1>4, <1>5, <1>6, <1>7, <1>8, <1>9 DEF StartCallStep

LEMMA RefineAccept ==
    ASSUME TypeInv, LifeInv, NEW s \in Sessions, AcceptStep(s)
    PROVE  AbstractStep
<1> USE DEF TypeInv, TypeOK, SessionsTypeOK, AttemptOK
<1> LifeOK(s)
  BY DEF LifeInv
<1> USE DEF Stage, Registered, InPhases, LifeOK, Anonymous, NotBegun, Named, AcceptPhases
<1>1. CASE AcceptTooLate(s)
  <2>1. Stage(s) = "trying" /\ closing[s] = "open" /\ Stage(s)' = "failed"
    BY <1>1 DEF AcceptTooLate
  <2> QED BY <1>1, <2>1, Fails DEF AcceptTooLate
<1>2. CASE AcceptClaim(s)
  <2>1. StageOf' = StageOf
    <3>1. Stage(s)' = Stage(s)
      BY <1>2 DEF AcceptClaim
    <3> QED BY <1>2, <3>1, StageKept DEF AcceptClaim
  <2> QED BY <1>2, <2>1, Stutters DEF AcceptClaim
<1>3. CASE AcceptMediaFails(s)
  <2>1. Stage(s) = "trying" /\ Stage(s)' = "trying"
    BY <1>3 DEF AcceptMediaFails
  <2> QED BY <1>3, <2>1, ClaimsOrWaits DEF AcceptMediaFails
<1>4. CASE AcceptRejects(s)
  <2>1. StageOf' = StageOf
    <3>1. Stage(s)' = Stage(s)
      BY <1>4 DEF AcceptRejects
    <3> QED BY <1>4, <3>1, StageKept DEF AcceptRejects
  <2> QED BY <1>4, <2>1, Stutters DEF AcceptRejects
<1>5. CASE AcceptStops(s)
  <2>1. Stage(s) = "trying" /\ closing[s] \in {"open", "closed"} /\ Stage(s)' = "failed"
    BY <1>5 DEF AcceptStops
  <2> QED BY <1>5, <2>1, Fails DEF AcceptStops
<1>6. CASE AcceptMedia(s)
  <2>1. /\ Stage(s) = "trying" /\ closing[s] = "open"
        /\ Stage(s)' = "offered"
    BY <1>6, NamesAreDistinct DEF AcceptMedia
  <2> QED BY <1>6, <2>1, Offers DEF AcceptMedia
<1>7. CASE AcceptAnswers(s)
  <2>1. StageOf' = StageOf
    <3>1. Stage(s)' = Stage(s)
      BY <1>7 DEF AcceptAnswers
    <3> QED BY <1>7, <3>1, StageKept DEF AcceptAnswers
  <2> QED BY <1>7, <2>1, Stutters DEF AcceptAnswers
<1>8. CASE AcceptAnswerFails(s)
  <2>1. Stage(s) = "offered" /\ Stage(s)' = "offered"
    BY <1>8, NamesAreDistinct DEF AcceptAnswerFails
  <2> QED BY <1>8, <2>1, ClaimsOrWaits DEF AcceptAnswerFails
<1>9. CASE AcceptAnswerStops(s)
  <2>1. /\ Stage(s) \in {"trying", "offered"} /\ closing[s] = "closed"
        /\ Stage(s)' = "failed"
    BY <1>9 DEF AcceptAnswerStops, NotClosing
  <2> QED BY <1>9, <2>1, Fails DEF AcceptAnswerStops
<1>10. CASE AcceptConnects(s)
  <2>1. StageOf' = StageOf
    <3>1. Stage(s)' = Stage(s)
      BY <1>10 DEF AcceptConnects
    <3> QED BY <1>10, <3>1, StageKept DEF AcceptConnects
  <2> QED BY <1>10, <2>1, Stutters DEF AcceptConnects
<1>11. CASE AcceptRegister(s)
  <2>1. Stage(s) = "offered" /\ Stage(s)' = "registered" /\ userID[s] = caller[s]
    BY <1>11, NamesAreDistinct DEF AcceptRegister
  <2> QED BY <1>11, <2>1, Registers DEF AcceptRegister, registerCall
<1>12. CASE AcceptUnlists(s)
  <2>1. StageOf' = StageOf
    <3>1. Stage(s)' = Stage(s)
      BY <1>12 DEF AcceptUnlists
    <3> QED BY <1>12, <3>1, StageKept DEF AcceptUnlists
  <2> QED BY <1>12, <2>1, Stutters DEF AcceptUnlists
<1>13. CASE AcceptReturns(s)
  <2>1. StageOf' = StageOf
    <3>1. Stage(s)' = Stage(s)
      BY <1>13 DEF AcceptReturns
    <3> QED BY <1>13, <3>1, StageKept DEF AcceptReturns
  <2> QED BY <1>13, <2>1, Stutters DEF AcceptReturns
<1>14. CASE AcceptNoMedia(s)
  <2>1. StageOf' = StageOf
    <3>1. Stage(s)' = Stage(s)
      BY <1>14 DEF AcceptNoMedia
    <3> QED BY <1>14, <3>1, StageKept DEF AcceptNoMedia
  <2> QED BY <1>14, <2>1, Stutters DEF AcceptNoMedia
<1> QED
  BY <1>1, <1>2, <1>3, <1>4, <1>5, <1>6, <1>7, <1>8, <1>9, <1>10, <1>11, <1>12, <1>13, <1>14
  DEF AcceptStep

LEMMA RefineClose ==
    ASSUME TypeInv, LifeInv, NEW s \in Sessions
    PROVE  /\ PeerConnectionFails(s) \/ Hangup(s) => AbstractStep
           /\ CloseUnregister(s) \/ CloseFinish(s) => AbstractStep
<1> USE DEF TypeInv, TypeOK, SessionsTypeOK, AttemptOK
<1> LifeOK(s)
  BY DEF LifeInv
<1>1. ASSUME PeerConnectionFails(s) PROVE AbstractStep
  <2>1. /\ Stage(s) \in {"trying", "offered", "registered"}
        /\ Stage(s)' = Stage(s)
    BY <1>1 DEF PeerConnectionFails, Stage, Registered, InPhases, LifeOK, Anonymous, NotBegun
  <2> QED BY <1>1, <2>1, ClaimsOrWaits DEF PeerConnectionFails
<1>2. ASSUME Hangup(s) PROVE AbstractStep
  <2>1. Stage(s) = "registered" /\ Stage(s)' = Stage(s)
    BY <1>2 DEF Hangup, Stage, Registered, InPhases
  <2> QED BY <1>2, <2>1, ClaimsOrWaits DEF Hangup
<1>3. ASSUME CloseUnregister(s) PROVE AbstractStep
  <2>1. StageOf' = StageOf
    BY <1>3 DEF CloseUnregister, StageOf, Stage, Registered, InPhases
  <2>2. closing[s] = "claimed" /\ closing' = [closing EXCEPT ![s] = "unregistered"]
    BY <1>3 DEF CloseUnregister
  <2>3. CASE userID[s] = NoUser
    <3>1. Stage(s) = "trying"
      BY <2>2, <2>3, NamesAreDistinct
      DEF LifeOK, Stage, Registered, InPhases, NotBegun, Anonymous, Named, Phases,
          DialPhases, AcceptPhases
    <3>2. UNCHANGED callsByUser
      BY <1>3, <2>3, NamesAreDistinct DEF CloseUnregister, unregisterCall
    <3>3. Lifecycle!Unregister(s)
      BY <1>3, <2>1, <2>2, <3>1, <3>2 DEF Lifecycle!Unregister, CloseUnregister, StageOf
    <3> QED BY <3>3 DEF AbstractStep, Lifecycle!LifecycleNext
  <2>4. CASE userID[s] # NoUser
    <3>1. Stage(s) # "trying" /\ userID[s] = caller[s]
      BY <2>2, <2>4
      DEF LifeOK, Stage, Registered, InPhases, NotBegun, Anonymous, Named, Phases,
          DialPhases, AcceptPhases
    <3>2. callsByUser' = [callsByUser EXCEPT ![caller[s]] = NoSession]
      BY <1>3, <3>1 DEF CloseUnregister, unregisterCall
    <3>3. Lifecycle!Unregister(s)
      BY <1>3, <2>1, <2>2, <3>1, <3>2 DEF Lifecycle!Unregister, CloseUnregister, StageOf
    <3> QED BY <3>3 DEF AbstractStep, Lifecycle!LifecycleNext
  <2> QED BY <2>3, <2>4
<1>4. ASSUME CloseFinish(s) PROVE AbstractStep
  <2>1. StageOf' = StageOf
    BY <1>4 DEF CloseFinish, StageOf, Stage, Registered, InPhases
  <2>2. Lifecycle!Finish(s)
    BY <1>4, <2>1 DEF CloseFinish, Lifecycle!Finish, StageOf
  <2> QED BY <2>2 DEF AbstractStep, Lifecycle!LifecycleNext
<1> QED BY <1>1, <1>2, <1>3, <1>4

LEMMA RefineBegin ==
    ASSUME TypeInv, LifeInv, NEW s \in Sessions, NEW u \in Users,
           DialCheck(u, s) \/ \E i \in Invites : AcceptLookup(u, i, s)
    PROVE  AbstractStep
<1> USE DEF TypeInv, TypeOK, SessionsTypeOK
<1> LifeOK(s)
  BY DEF LifeInv
<1>1. CASE DialCheck(u, s)
  <2>1. Stage(s) = "none" /\ Stage(s)' = "trying"
    BY <1>1 DEF DialCheck, Stage, Registered, InPhases, LifeOK, Anonymous, NotBegun
  <2> QED BY <1>1, <2>1, Begins DEF DialCheck, HasCall
<1>2. ASSUME NEW i \in Invites, AcceptLookup(u, i, s) PROVE AbstractStep
  <2>1. Stage(s) = "none" /\ Stage(s)' = "trying"
    BY <1>2 DEF AcceptLookup, Stage, Registered, InPhases, LifeOK, Anonymous, NotBegun
  <2> QED BY <1>2, <2>1, Begins DEF AcceptLookup, HasCall
<1> QED BY <1>1, <1>2

LEMMA RefineStep == TypeInv /\ RegistryInv /\ LifeInv /\ [Next]_vars => AbstractStep
<1> SUFFICES ASSUME TypeInv, RegistryInv, LifeInv, [Next]_vars PROVE AbstractStep
  OBVIOUS
<1> USE DEF StageOf, Stage, Registered, InPhases
<1>1. ASSUME NEW s \in Sessions, SessionStep(s) PROVE AbstractStep
  <2>1. ASSUME NEW u \in Dialers, DialCheck(u, s) PROVE AbstractStep
    BY <2>1, RefineBegin, DialersAreUsers
  <2>2. ASSUME NEW u \in Users, NEW i \in Invites, AcceptLookup(u, i, s) PROVE AbstractStep
    BY <2>2, RefineBegin
  <2> QED
    BY <1>1, <2>1, <2>2, RefineDial, RefineAccept, RefineClose DEF SessionStep, Dial, CloseStep
<1>2. ASSUME NEW i \in Invites, InviteStep(i) PROVE AbstractStep
  BY <1>2, InviteLeaves, Stutters
<1>3. ASSUME NEW d \in SipIds, RemoteBye(d) PROVE AbstractStep
  <2>1. UNCHANGED <<phase, caller, userID, callsByUser>>
    BY <1>3, ByeClaims
  <2>2. CASE UNCHANGED closing
    BY <2>1, <2>2, Stutters
  <2>3. ASSUME NEW s \in Sessions, Registered(s), closing[s] = "open",
               closing' = [closing EXCEPT ![s] = "claimed"]
        PROVE  AbstractStep
    BY <2>1, <2>3, Claims
  <2> QED BY <1>3, <2>2, <2>3, ByeClaims
<1>4. CASE UNCHANGED vars
  BY <1>4, Stutters DEF vars
<1> QED BY <1>1, <1>2, <1>3, <1>4 DEF Next, Quiescent

LEMMA RefineInit == Init => Lifecycle!LifecycleInit
BY DEF Init, SessionsInit, Lifecycle!LifecycleInit, Stage, Registered, InPhases

\* The call manager implements the life of a call that the WebSocket handlers
\* rely on: for any number of users, sessions and invites every step of it is a
\* step of SessionLifecycle or leaves what that module describes alone.
THEOREM ManagerKeepsLifecycle == Safety => Lifecycle!LifecycleSafety
<1>1. AbstractStep => [Lifecycle!LifecycleNext]_(Lifecycle!lifeVars)
  BY DEF AbstractStep, AbstractVars, StageOf, Lifecycle!lifeVars
<1>2. Safety => [][Lifecycle!LifecycleNext]_(Lifecycle!lifeVars)
  BY <1>1, TypeInit, TypeStep, RegistryInit, RegistryStep, LifeInit, SessionLifeStep,
     RefineStep, PTL DEF Safety
<1>3. Safety => Lifecycle!LifecycleInit
  BY RefineInit DEF Safety
<1> QED BY <1>2, <1>3, PTL DEF Lifecycle!LifecycleSafety

---------------------------------------------------------------------------
(***************************************************************************)
(* With the notifications: every step of the manager is one IncomingNotify *)
(* allows a manager, so that what IncomingNotify_proofs proves holds of    *)
(* the two together.                                                       *)
(***************************************************************************)

\* The ringing event comes once, before the watcher; an accept that is about to
\* tell of its answer has taken the call off the list.
AnnounceInv ==
    /\ \A i \in Invites : watcher[i] = "none" => Times("ringing", i) = {}
    /\ \A s \in Sessions : phase[s] = "unlisted" => target[s] \notin listed

LEMMA AnnounceInit == Init => AnnounceInv
BY DEF Init, SessionsInit, InvitesInit, AnnounceInv, Times

\* No event but the ringing one adds to Times("ringing", _).
LEMMA OtherEvents ==
    ASSUME InvitesTypeOK, NEW i \in Invites, NEW kind, kind # "ringing",
           emitIncomingEvent(i, kind)
    PROVE  \A j \in Invites : Times("ringing", j)' = Times("ringing", j)
<1> SUFFICES ASSUME NEW j \in Invites PROVE Times("ringing", j)' = Times("ringing", j)
  OBVIOUS
<1> QED BY EmitTimes

\* Only InviteAnnounced emits a ringing event, and no watcher is taken back.
LEMMA RingingStep ==
    ASSUME TypeInv, [Next]_vars, NEW j \in Invites, watcher'[j] = "none"
    PROVE  watcher[j] = "none" /\ Times("ringing", j)' = Times("ringing", j)
<1> USE DEF TypeInv, TypeOK
<1>1. ASSUME NEW s \in Sessions, AcceptStep(s)
      PROVE  watcher[j] = "none" /\ Times("ringing", j)' = Times("ringing", j)
  <2>1. UNCHANGED watcher
    BY <1>1
    DEF AcceptStep, AcceptTooLate, AcceptClaim, AcceptNoMedia, AcceptMediaFails, AcceptRejects, AcceptStops,
        AcceptMedia, AcceptAnswers, AcceptAnswerFails, AcceptAnswerStops, AcceptConnects,
        AcceptRegister, AcceptUnlists, AcceptReturns
  <2>2. CASE AcceptReturns(s)
    BY <1>1, <2>1, <2>2, AcceptElsewhere, OtherEvents DEF AcceptReturns
  <2>3. CASE UNCHANGED events
    BY <2>1, <2>3, SilentTimes
  <2> QED
    BY <1>1, <2>2, <2>3
    DEF AcceptStep, AcceptTooLate, AcceptClaim, AcceptNoMedia, AcceptMediaFails, AcceptRejects, AcceptStops,
        AcceptMedia, AcceptAnswers, AcceptAnswerFails, AcceptAnswerStops, AcceptConnects,
        AcceptRegister, AcceptUnlists
<1>2. ASSUME NEW i \in Invites, InviteStep(i)
      PROVE  watcher[j] = "none" /\ Times("ringing", j)' = Times("ringing", j)
  <2>1. CASE InviteAnnounced(i)
    <3>1. j # i /\ watcher[j] = "none"
      BY <2>1 DEF InviteAnnounced, InvitesTypeOK
    <3> QED BY <2>1, <3>1, EmitTimes DEF InviteAnnounced
  <2>2. CASE FinishTell(i)
    BY <2>2, OtherEvents DEF FinishTell
  <2>3. CASE WatchStep(i)
    BY <2>3, SilentTimes DEF WatchStep, WatchWakes, WatchFinishes, InvitesTypeOK
  <2>4. CASE UNCHANGED <<watcher, events>>
    BY <2>4, SilentTimes
  <2> QED
    <3>1. ASSUME NEW u \in Decliners, RejectLookup(u, i) \/ RejectStep(u, i)
          PROVE  UNCHANGED <<watcher, events>>
      BY <3>1 DEF RejectLookup, RejectStep, RejectRespond, RejectFinish
    <3> QED
      BY <1>2, <2>1, <2>2, <2>3, <2>4, <3>1
      DEF InviteStep, InviteRefused, InviteArrives, RemoteCancels, TimerFires, TimerStep,
          TimerRejects, TimerFinishes, FinishStep, FinishRemove, FinishClose
<1>3. CASE UNCHANGED inviteVars
  BY <1>3, SilentTimes
<1> QED BY <1>1, <1>2, <1>3, AsideSteps DEF Aside, AcceptLookup

\* A call enters the list when it arrives, before anybody can accept it.
LEMMA ListedStep ==
    ASSUME TypeInv, ArrivedInv, [Next]_vars, NEW i \in Invites, i \in listed', i \notin listed
    PROVE  \A s \in Sessions : phase[s] \in AcceptPhases => target[s] # i
<1> USE DEF TypeInv, TypeOK
<1>1. ASSUME NEW s \in Sessions, AcceptStep(s) PROVE listed' \subseteq listed
  BY <1>1
  DEF AcceptStep, AcceptTooLate, AcceptClaim, AcceptNoMedia, AcceptMediaFails, AcceptRejects, AcceptStops,
      AcceptMedia, AcceptAnswers, AcceptAnswerFails, AcceptAnswerStops, AcceptConnects,
      AcceptRegister, AcceptUnlists, AcceptReturns
<1>2. ASSUME NEW j \in Invites, InviteStep(j), ~InviteArrives(j) PROVE listed' \subseteq listed
  <2>1. ASSUME NEW u \in Decliners, RejectLookup(u, j) \/ RejectStep(u, j)
        PROVE  UNCHANGED listed
    BY <2>1 DEF RejectLookup, RejectStep, RejectRespond, RejectFinish
  <2> QED
    BY <1>2, <2>1
    DEF InviteStep, InviteRefused, InviteAnnounced, RemoteCancels, TimerFires, TimerStep,
        TimerRejects, TimerFinishes, WatchStep, WatchWakes, WatchFinishes, FinishStep,
        FinishRemove, FinishTell, FinishClose
<1>3. CASE UNCHANGED inviteVars
  BY <1>3
<1>4. PICK j \in Invites : InviteArrives(j)
  BY <1>1, <1>2, <1>3, AsideSteps DEF Aside, AcceptLookup
<1>5. j = i /\ dialog[i] = "idle"
  BY <1>4 DEF InviteArrives
<1> QED BY <1>5 DEF ArrivedInv, Untouched

\* An accept is "unlisted" by AcceptUnlists only.
LEMMA UnlistedStep ==
    ASSUME TypeInv, [Next]_vars, NEW s \in Sessions, phase'[s] = "unlisted"
    PROVE  target'[s] = target[s] /\ (phase[s] = "unlisted" \/ AcceptUnlists(s))
<1> USE DEF TypeInv, TypeOK, SessionsTypeOK
<1>1. ASSUME NEW t \in Sessions, AcceptStep(t)
      PROVE  target'[s] = target[s] /\ (phase[s] = "unlisted" \/ AcceptUnlists(s))
  <2>1. UNCHANGED target /\ \A r \in Sessions : r # t => phase'[r] = phase[r]
    BY <1>1, AcceptElsewhere
  <2>2. t = s => AcceptUnlists(t)
    BY <1>1
    DEF AcceptStep, AcceptTooLate, AcceptClaim, AcceptNoMedia, AcceptMediaFails, AcceptRejects, AcceptStops,
        AcceptMedia, AcceptAnswers, AcceptAnswerFails, AcceptAnswerStops, AcceptConnects,
        AcceptRegister, AcceptReturns
  <2> QED BY <2>1, <2>2
<1>2. ASSUME NEW i \in Invites, InviteStep(i)
      PROVE  target'[s] = target[s] /\ phase[s] = "unlisted"
  BY <1>2, InviteElsewhere
<1>3. ASSUME NEW u \in Users, NEW i \in Invites, NEW t \in Sessions, AcceptLookup(u, i, t)
      PROVE  target'[s] = target[s] /\ phase[s] = "unlisted"
  BY <1>3 DEF AcceptLookup
<1> QED BY <1>1, <1>2, <1>3, AsideSteps DEF Aside, AcceptPhases

LEMMA AnnounceStep ==
    TypeInv /\ ArrivedInv /\ AnnounceInv /\ [Next]_vars => AnnounceInv'
<1> SUFFICES ASSUME TypeInv, ArrivedInv, AnnounceInv, [Next]_vars PROVE AnnounceInv'
  OBVIOUS
<1>1. ASSUME NEW i \in Invites, watcher'[i] = "none" PROVE Times("ringing", i)' = {}
  BY <1>1, RingingStep DEF AnnounceInv
<1>2. ASSUME NEW s \in Sessions, phase'[s] = "unlisted" PROVE target'[s] \notin listed'
  <2>1. CASE AcceptUnlists(s)
    BY <2>1 DEF AcceptUnlists
  <2>2. CASE phase[s] = "unlisted" /\ target'[s] = target[s]
    <3>1. target[s] \in Invites /\ target[s] \notin listed /\ phase[s] \in AcceptPhases
      BY <2>2 DEF TypeInv, AttemptOK, AcceptPhases, AnnounceInv
    <3> QED BY <2>2, <3>1, ListedStep
  <2> QED BY <1>2, <2>1, <2>2, UnlistedStep
<1> QED BY <1>1, <1>2 DEF AnnounceInv

---------------------------------------------------------------------------
(* What has become of the answers.                                         *)

SameAnswers == \A s \in Sessions, i \in Invites : AnswerOf(s, i)' = AnswerOf(s, i)

LEMMA SameGiven == SameAnswers => UNCHANGED Given
<1> SUFFICES ASSUME SameAnswers PROVE UNCHANGED Given
  OBVIOUS
<1>1. \A a \in Sessions \X Invites : AnswerOf(a[1], a[2])' = AnswerOf(a[1], a[2])
  BY DEF SameAnswers
<1> QED BY <1>1 DEF Given

\* A session that stays where it is, or is about a call of its own, answers nothing.
LEMMA OwnCalls ==
    ASSUME \A s \in Sessions :
             \/ phase'[s] = phase[s] /\ target'[s] = target[s]
             \/ phase[s] \notin {"connected", "registered", "unlisted", "returned"}
                  /\ phase'[s] \notin {"connected", "registered", "unlisted", "returned"}
             \/ target[s] = s /\ target'[s] = s
    PROVE  SameAnswers
BY InvitesAreNotSessions DEF SameAnswers, AnswerOf, InPhases

LEMMA AnswersAside ==
    ASSUME TypeInv, [Next]_vars,
           ~ \E s \in Sessions : AcceptConnects(s) \/ AcceptReturns(s)
    PROVE  SameAnswers
<1> USE DEF TypeInv, TypeOK, SessionsTypeOK
<1>1. ASSUME NEW s \in Sessions, AcceptStep(s) PROVE SameAnswers
  <2>1. UNCHANGED target /\ \A t \in Sessions : t # s => phase'[t] = phase[t]
    BY <1>1, AcceptElsewhere
  <2>2. CASE AcceptRegister(s) \/ AcceptUnlists(s)
    <3>1. /\ phase[s] \in {"connected", "registered", "unlisted"}
          /\ phase'[s] \in {"connected", "registered", "unlisted"}
      BY <2>2 DEF AcceptRegister, AcceptUnlists
    <3> QED BY <2>1, <3>1 DEF SameAnswers, AnswerOf, InPhases
  <2>3. CASE ~AcceptRegister(s) /\ ~AcceptUnlists(s)
    <3>1. /\ phase[s] \notin {"connected", "registered", "unlisted", "returned"}
          /\ phase'[s] \notin {"connected", "registered", "unlisted", "returned"}
      <4>1. CASE AcceptTooLate(s) \/ AcceptClaim(s) \/ AcceptNoMedia(s) \/ AcceptMediaFails(s)
        BY <4>1 DEF AcceptTooLate, AcceptClaim, AcceptNoMedia, AcceptMediaFails
      <4>2. CASE AcceptRejects(s)
        BY <4>2 DEF AcceptRejects
      <4>3. CASE AcceptStops(s)
        BY <4>3 DEF AcceptStops
      <4>4. CASE AcceptMedia(s) \/ AcceptAnswers(s)
        BY <4>4 DEF AcceptMedia, AcceptAnswers
      <4>5. CASE AcceptAnswerFails(s)
        BY <4>5 DEF AcceptAnswerFails
      <4>6. CASE AcceptAnswerStops(s)
        BY <4>6 DEF AcceptAnswerStops
      <4> QED BY <1>1, <2>3, <4>1, <4>2, <4>3, <4>4, <4>5, <4>6 DEF AcceptStep
    <3> QED BY <2>1, <3>1, OwnCalls
  <2> QED BY <2>2, <2>3
<1>2. ASSUME NEW i \in Invites, InviteStep(i) PROVE SameAnswers
  BY <1>2, InviteElsewhere, OwnCalls
<1>3. ASSUME NEW u \in Users, NEW i \in Invites, NEW s \in Sessions, AcceptLookup(u, i, s)
      PROVE  SameAnswers
  BY <1>3, OwnCalls DEF AcceptLookup
<1>4. ASSUME NEW s \in Sessions, StartCallStep(s) PROVE SameAnswers
  <2>1. phase[s] \in DialPhases
    BY <1>4 DEF StartCallStep, DialRefused, DialNoMedia, DialMediaFails, DialInvite, DialAnswered,
       DialInviteFails, DialBadSDP, DialRegister, DialAbort, DialPhases
  <2>2. UNCHANGED target /\ \A t \in Sessions : t # s => phase'[t] = phase[t]
    BY <1>4 DEF StartCallStep, DialRefused, DialNoMedia, DialMediaFails, DialInvite, DialAnswered,
       DialInviteFails, DialBadSDP, DialRegister, DialAbort
  <2> QED BY <2>1, <2>2, OwnCalls DEF AttemptOK
<1>5. ASSUME NEW u \in Dialers, NEW s \in Sessions, DialCheck(u, s) PROVE SameAnswers
  BY <1>5, OwnCalls DEF DialCheck
<1>6. ASSUME NEW s \in Sessions, PeerConnectionFails(s) \/ Hangup(s) \/ CloseStep(s)
      PROVE  SameAnswers
  BY <1>6, OwnCalls DEF PeerConnectionFails, Hangup, CloseStep, CloseUnregister, CloseFinish
<1>7. ASSUME NEW d \in SipIds, RemoteBye(d) PROVE SameAnswers
  BY <1>7, OwnCalls DEF RemoteBye, onRemoteBye
<1>8. CASE UNCHANGED vars
  BY <1>8, OwnCalls DEF vars
<1> QED
  BY <1>1, <1>2, <1>3, <1>4, <1>5, <1>6, <1>7, <1>8 DEF Next, SessionStep, Dial, Quiescent

---------------------------------------------------------------------------
(* Each step of the manager as IncomingNotify has it.                      *)

LeftInv == left = [i \in Invites |-> left[i]]

Connections == {d \in Devices : socket[d] # "down"}

NotifyStep == Notify!NotifyNext \/ UNCHANGED Notify!notifyVars

\* What is not the manager's stays as it is.
ClientsStill == UNCHANGED <<left, clientVars>>

LEMMA SilentLeft ==
    ASSUME LeftInv, ManagerStep, UNCHANGED events PROVE ClientsStill
<1>1. left' = [i \in Invites |-> left[i]]
  BY DEF ManagerStep
<1> QED BY <1>1 DEF LeftInv, ClientsStill, ManagerStep

\* A step without an event, an answer or a connected flag is one of Ring, Stop and
\* Withdraw, or none.
LEMMA QuietStep ==
    ASSUME InviteLifeStep, SameAnswers, ClientsStill, UNCHANGED <<connected, events>>
    PROVE  NotifyStep
<1>1. UNCHANGED Told
  BY SilentTimes DEF Told
<1>2. UNCHANGED Given
  BY SameGiven
<1> USE DEF clientVars, ClientsStill, Notify!emitVars, Notify!socketVars, Notify!pushVars, Notify!syncVars
<1>3. CASE UNCHANGED Promise!lifeVars
  BY <1>2, <1>3 DEF Promise!lifeVars, NotifyStep, Notify!notifyVars, Notify!lifeVars
<1>4. ASSUME NEW i \in Invites, Promise!Ring(i) PROVE NotifyStep
  <2>1. Notify!Rings(i)
    BY <1>2, <1>4 DEF Promise!Ring, Notify!Rings, Notify!Ring
  <2> QED BY <2>1 DEF NotifyStep, Notify!NotifyNext, Notify!ManagerNext
<1>5. ASSUME NEW i \in Invites, Promise!Stop(i) PROVE NotifyStep
  <2>1. Notify!Stops(i)
    BY <1>2, <1>5 DEF Promise!Stop, Notify!Stops, Notify!Stop
  <2> QED BY <2>1 DEF NotifyStep, Notify!NotifyNext, Notify!ManagerNext
<1>6. ASSUME NEW i \in Invites, Promise!Withdraw(i) PROVE NotifyStep
  <2>1. Notify!Withdraws(i)
    BY <1>2, <1>6 DEF Promise!Withdraw, Notify!Withdraws, Notify!Withdraw
  <2> QED BY <2>1 DEF NotifyStep, Notify!NotifyNext, Notify!ManagerNext
<1>7. ASSUME NEW i \in Invites, Promise!Answer(i) PROVE FALSE
  <2>1. Life(i) = "ringing" /\ Life(i)' = "answered"
    BY <1>7 DEF Promise!Answer
  <2> QED BY <2>1 DEF Life
<1>8. ASSUME NEW i \in Invites, Promise!Tell(i) PROVE FALSE
  BY <1>1, <1>8 DEF Promise!Tell, Told
<1> QED BY <1>3, <1>4, <1>5, <1>6, <1>7, <1>8 DEF InviteLifeStep, Promise!LifeNext

\* An event is handed to every connection there is.
LEMMA EmitIsNotify ==
    ASSUME InvitesTypeOK, LeftInv, NEW i \in Invites, NEW kind \in {"ringing", "answered", "stopped"},
           emitIncomingEvent(i, kind), ManagerStep
    PROVE  Notify!NotifyIncomingEvent(kind, i)
<1>1. events' = [events EXCEPT ![i] = Append(events[i], kind)]
  BY DEF emitIncomingEvent
<1>2. /\ events'[i] = Append(events[i], kind) /\ events'[i] # events[i]
      /\ \A j \in Invites : j # i => events'[j] = events[j]
  <2>1. events[i] \in Seq({"ringing", "answered", "stopped"})
    BY DEF InvitesTypeOK
  <2>2. events'[i] = Append(events[i], kind) /\ \A j \in Invites : j # i => events'[j] = events[j]
    BY <1>1 DEF InvitesTypeOK
  <2>3. Len(events'[i]) = Len(events[i]) + 1 /\ Len(events[i]) \in Nat
    BY <2>1, <2>2
  <2> QED BY <2>2, <2>3
<1>3. left' = [j \in Invites |-> IF events'[j] = events[j] THEN left[j]
                                  ELSE Append(left[j], Connections)]
  BY DEF ManagerStep, Connections
<1>4. left' = [left EXCEPT ![i] = Append(left[i], Connections)]
  BY <1>2, <1>3 DEF LeftInv
<1> QED
  BY <1>1, <1>4 DEF Notify!NotifyIncomingEvent, Notify!Announce, Connections

\* What Times says of the announcements.
LEMMA NeverBegun ==
    ASSUME NEW i \in Invites, NEW k, Times(k, i) = {} PROVE ~Notify!Begun(k, i)
BY DEF Times, Notify!Begun, Notify!Is

LEMMA RingsOutStep ==
    ASSUME PromiseInv, AnnounceInv, LeftInv, ManagerStep, SameAnswers,
           NEW i \in Invites, InviteAnnounced(i)
    PROVE  Notify!RingsOut(i)
<1> USE DEF PromiseInv, TypeInv, TypeOK
<1>1. /\ invUsers[i] # {} /\ watcher[i] = "none" /\ emitIncomingEvent(i, "ringing")
      /\ UNCHANGED <<invUsers, listed, ended, connected>>
  BY DEF InviteAnnounced
<1>2. Life(i) # "none" /\ ~Notify!Begun("ringing", i)
  BY <1>1, NeverBegun DEF Life, AnnounceInv
<1>3. UNCHANGED Promise!lifeVars
  <2>1. \A j \in Invites : Times("stopped", j)' = Times("stopped", j)
    BY <1>1, EmitTimes
  <2>2. UNCHANGED Told
    BY <2>1 DEF Told
  <2>3. \A j \in Invites : Life(j)' = Life(j)
    BY <1>1 DEF Life
  <2>4. UNCHANGED [j \in Invites |-> Life(j)]
    BY <2>3
  <2> QED BY <1>1, <2>2, <2>4 DEF Promise!lifeVars, Told
<1>4. Notify!NotifyIncomingEvent("ringing", i) /\ UNCHANGED Given
  BY <1>1, EmitIsNotify, SameGiven
<1> QED
  BY <1>2, <1>3, <1>4 DEF Notify!RingsOut, Promise!lifeVars, Notify!lifeVars, Notify!socketVars,
     Notify!pushVars, Notify!syncVars, ManagerStep, clientVars

LEMMA StopOutStep ==
    ASSUME PromiseInv, LeftInv, ManagerStep, SameAnswers, NEW i \in Invites, FinishTell(i)
    PROVE  Notify!StopOut(i)
<1>1. InvitesTypeOK /\ emitIncomingEvent(i, "stopped")
  BY DEF FinishTell, PromiseInv, TypeInv, TypeOK
<1>2. Notify!NotifyIncomingEvent("stopped", i) /\ UNCHANGED Given
  BY <1>1, EmitIsNotify, SameGiven
<1>3. Notify!Tell(i)
  BY TellsStep DEF Promise!Tell, Notify!Tell
<1> QED
  BY <1>2, <1>3 DEF Notify!StopOut, Notify!socketVars, Notify!pushVars, Notify!syncVars,
     ManagerStep, clientVars

\* What becomes of the answer of one accept decides the function of all.
LEMMA GivenMoves ==
    ASSUME NEW s \in Sessions, NEW i \in Invites, NEW becomes, AnswerOf(s, i)' = becomes,
           \A t \in Sessions, j \in Invites :
              ~ (t = s /\ j = i) => AnswerOf(t, j)' = AnswerOf(t, j)
    PROVE  Given' = [Given EXCEPT ![<<s, i>>] = becomes] /\ Given[<<s, i>>] = AnswerOf(s, i)
<1>1. \A a \in Sessions \X Invites :
        Given'[a] = IF a = <<s, i>> THEN becomes ELSE Given[a]
  <2> SUFFICES ASSUME NEW t \in Sessions, NEW j \in Invites
               PROVE  AnswerOf(t, j)' = IF <<t, j>> = <<s, i>> THEN becomes ELSE AnswerOf(t, j)
    BY DEF Given
  <2> QED OBVIOUS
<1> QED BY <1>1 DEF Given

LEMMA AnswersStep ==
    ASSUME PromiseInv, LeftInv, ManagerStep, NEW s \in Sessions, AcceptConnects(s)
    PROVE  Notify!Answers(s, target[s])
<1> USE DEF PromiseInv, TypeInv, TypeOK
<1>0. target[s] \in Invites /\ phase[s] = "responded"
  BY AcceptElsewhere DEF AcceptStep, AcceptConnects
<1>1. PICK i \in Invites : i = target[s]
  BY <1>0
<1>2. /\ UNCHANGED <<target, events>> /\ phase'[s] = "connected"
      /\ \A t \in Sessions : t # s => phase'[t] = phase[t]
  BY DEF AcceptConnects, SessionsTypeOK
<1>3. AnswerOf(s, i) = "none" /\ AnswerOf(s, i)' = "due"
  BY <1>0, <1>1, <1>2 DEF AnswerOf, InPhases
<1>4. \A t \in Sessions, j \in Invites : ~ (t = s /\ j = i) => AnswerOf(t, j)' = AnswerOf(t, j)
  BY <1>1, <1>2 DEF AnswerOf, InPhases
<1>5. Given' = [Given EXCEPT ![<<s, i>>] = "due"] /\ Given[<<s, i>>] = "none"
  BY <1>3, <1>4, GivenMoves
<1>6. /\ Life(i) # "none"
      /\ IF Life(i) = "ringing" THEN Notify!Answer(i) ELSE UNCHANGED Notify!lifeVars
  BY <1>1, ConnectsStep DEF Promise!Answer, Notify!Answer, Promise!lifeVars, Notify!lifeVars
<1>7. ClientsStill
  BY <1>2, SilentLeft
<1> QED
  BY <1>1, <1>2, <1>5, <1>6, <1>7 DEF Notify!Answers, ClientsStill, clientVars,
     Notify!socketVars, Notify!pushVars, Notify!syncVars

LEMMA AnswerOutStep ==
    ASSUME PromiseInv, AnnounceInv, LeftInv, ManagerStep, NEW s \in Sessions, AcceptReturns(s)
    PROVE  Notify!AnswerOut(s, target[s])
<1> USE DEF PromiseInv, TypeInv, TypeOK
<1>0. target[s] \in Invites /\ phase[s] = "unlisted"
  BY AcceptElsewhere DEF AcceptStep, AcceptReturns
<1>1. PICK i \in Invites : i = target[s]
  BY <1>0
<1>2. /\ UNCHANGED <<target, invUsers, listed, ended, connected>> /\ phase'[s] = "returned"
      /\ \A t \in Sessions : t # s => phase'[t] = phase[t]
      /\ emitIncomingEvent(i, "answered")
  BY <1>1 DEF AcceptReturns, SessionsTypeOK
<1>3. AnswerOf(s, i) = "due" /\ AnswerOf(s, i)' = "out"
  BY <1>0, <1>1, <1>2 DEF AnswerOf, InPhases
<1>4. \A t \in Sessions, j \in Invites : ~ (t = s /\ j = i) => AnswerOf(t, j)' = AnswerOf(t, j)
  BY <1>1, <1>2 DEF AnswerOf, InPhases
<1>5. Given' = [Given EXCEPT ![<<s, i>>] = "out"] /\ Given[<<s, i>>] = "due"
  BY <1>3, <1>4, GivenMoves
<1>6. UNCHANGED Promise!lifeVars
  <2>1. \A j \in Invites : Times("stopped", j)' = Times("stopped", j)
    BY <1>2, EmitTimes
  <2>2. UNCHANGED Told
    BY <2>1 DEF Told
  <2>3. \A j \in Invites : Life(j)' = Life(j)
    BY <1>2 DEF Life
  <2>4. UNCHANGED [j \in Invites |-> Life(j)]
    BY <2>3
  <2> QED BY <1>2, <2>2, <2>4 DEF Promise!lifeVars, Told
<1>7. i \notin listed
  BY <1>0, <1>1 DEF AnnounceInv
<1>8. Notify!NotifyIncomingEvent("answered", i)
  BY <1>2, EmitIsNotify
<1> QED
  BY <1>1, <1>5, <1>6, <1>7, <1>8 DEF Notify!AnswerOut, Promise!lifeVars, Notify!lifeVars,
     Notify!socketVars, Notify!pushVars, Notify!syncVars, ManagerStep, clientVars

LEMMA LeftInit == Notify!ClientsInit => LeftInv
BY DEF Notify!ClientsInit, LeftInv

LEMMA LeftStep == LeftInv /\ [ManagerStep \/ ClientStep]_ComposedVars => LeftInv'
<1> SUFFICES ASSUME LeftInv, [ManagerStep \/ ClientStep]_ComposedVars PROVE LeftInv'
  OBVIOUS
<1>1. CASE ManagerStep
  BY <1>1 DEF ManagerStep, LeftInv
<1>2. CASE ClientStep
  <2>1. ASSUME NEW d \in Devices, NEW i \in Invites, NEW n \in 1..Len(events[i]), Notify!Notify(d, i, n)
        PROVE  LeftInv'
    BY <2>1 DEF Notify!Notify, LeftInv
  <2>2. ASSUME NEW d \in Devices, Notify!Disconnect(d) PROVE LeftInv'
    BY <2>2 DEF Notify!Disconnect, LeftInv
  <2>3. CASE UNCHANGED left
    BY <2>3 DEF LeftInv
  <2> QED
    BY <1>2, <2>1, <2>2, <2>3
    DEF ClientStep, Notify!ClientsNext, Notify!Connect, Notify!ReadPending, Notify!SendPending,
        Notify!handleMessage, Notify!ListIncomingCalls, Notify!replaceIncoming, Notify!Push,
        Notify!handlePushPayload, Notify!emitVars
<1>3. CASE UNCHANGED ComposedVars
  BY <1>3 DEF ComposedVars, LeftInv
<1> QED BY <1>1, <1>2, <1>3

LEMMA ManagerNotifies ==
    ASSUME PromiseInv, AnnounceInv, LeftInv, ManagerStep PROVE NotifyStep
<1> USE DEF PromiseInv, TypeInv, TypeOK
<1>0. Next
  BY DEF ManagerStep
<1>1. ASSUME NEW s \in Sessions, AcceptConnects(s) PROVE NotifyStep
  <2>1. PICK i \in Invites : i = target[s]
    BY <1>1, AcceptElsewhere DEF AcceptStep
  <2>2. Notify!Answers(s, i)
    BY <1>1, <2>1, AnswersStep
  <2> QED BY <2>2 DEF NotifyStep, Notify!NotifyNext, Notify!ManagerNext
<1>2. ASSUME NEW s \in Sessions, AcceptReturns(s) PROVE NotifyStep
  <2>1. PICK i \in Invites : i = target[s]
    BY <1>2, AcceptElsewhere DEF AcceptStep
  <2>2. Notify!AnswerOut(s, i)
    BY <1>2, <2>1, AnswerOutStep
  <2> QED BY <2>2 DEF NotifyStep, Notify!NotifyNext, Notify!ManagerNext
<1>3. CASE ~ \E s \in Sessions : AcceptConnects(s) \/ AcceptReturns(s)
  <2>1. SameAnswers
    BY <1>0, <1>3, AnswersAside
  <2>2. ASSUME NEW i \in Invites, InviteAnnounced(i) PROVE NotifyStep
    <3>1. Notify!RingsOut(i)
      BY <2>1, <2>2, RingsOutStep
    <3> QED BY <3>1 DEF NotifyStep, Notify!NotifyNext, Notify!ManagerNext
  <2>3. ASSUME NEW i \in Invites, FinishTell(i) PROVE NotifyStep
    <3>1. Notify!StopOut(i)
      BY <2>1, <2>3, StopOutStep
    <3> QED BY <3>1 DEF NotifyStep, Notify!NotifyNext, Notify!ManagerNext
  <2>4. CASE ~ \E i \in Invites : InviteAnnounced(i) \/ FinishTell(i)
    <3>1. ASSUME NEW s \in Sessions, AcceptStep(s) PROVE UNCHANGED <<connected, events>>
      BY <1>3, <3>1
      DEF AcceptStep, AcceptTooLate, AcceptClaim, AcceptNoMedia, AcceptMediaFails, AcceptRejects, AcceptStops,
          AcceptMedia, AcceptAnswers, AcceptAnswerFails, AcceptAnswerStops, AcceptRegister,
          AcceptUnlists
    <3>2. ASSUME NEW i \in Invites, InviteStep(i) PROVE UNCHANGED <<connected, events>>
      <4>1. ASSUME NEW u \in Decliners, RejectLookup(u, i) \/ RejectStep(u, i)
            PROVE  UNCHANGED <<connected, events>>
        BY <4>1 DEF RejectLookup, RejectStep, RejectRespond, RejectFinish
      <4> QED
        BY <2>4, <3>2, <4>1
        DEF InviteStep, InviteRefused, InviteArrives, RemoteCancels, TimerFires, TimerStep,
            TimerRejects, TimerFinishes, WatchStep, WatchWakes, WatchFinishes, FinishStep,
            FinishRemove, FinishClose
    <3>3. UNCHANGED <<connected, events>>
      BY <1>0, <3>1, <3>2, AsideSteps DEF Aside, AcceptLookup
    <3>4. InviteLifeStep
      BY <1>0, PromiseStep
    <3> QED BY <2>1, <3>3, <3>4, SilentLeft, QuietStep
  <2> QED BY <2>2, <2>3, <2>4
<1> QED BY <1>1, <1>2, <1>3

LEMMA StillVars == UNCHANGED vars => UNCHANGED <<Notify!lifeVars, Given, events>>
<1> SUFFICES ASSUME UNCHANGED vars PROVE UNCHANGED <<Notify!lifeVars, Given, events>>
  OBVIOUS
<1>1. SameAnswers
  BY OwnCalls DEF vars
<1>2. UNCHANGED Told
  BY SilentTimes DEF vars, Told
<1>3. \A j \in Invites : Life(j)' = Life(j)
  BY DEF vars, Life
<1>4. UNCHANGED [j \in Invites |-> Life(j)]
  BY <1>3
<1> QED BY <1>1, <1>2, <1>4, SameGiven DEF vars, Notify!lifeVars, Told

LEMMA ComposedStep ==
    /\ PromiseInv /\ AnnounceInv /\ LeftInv
    /\ [ManagerStep \/ ClientStep]_ComposedVars
    => [Notify!NotifyNext]_(Notify!notifyVars)
<1> SUFFICES ASSUME PromiseInv, AnnounceInv, LeftInv, [ManagerStep \/ ClientStep]_ComposedVars
             PROVE  NotifyStep
  BY DEF NotifyStep
<1>1. CASE ManagerStep
  BY <1>1, ManagerNotifies
<1>2. CASE ClientStep
  BY <1>2 DEF ClientStep, NotifyStep, Notify!NotifyNext
<1>3. CASE UNCHANGED ComposedVars
  BY <1>3, StillVars DEF ComposedVars, clientVars, NotifyStep, Notify!notifyVars, Notify!emitVars,
     Notify!socketVars, Notify!pushVars, Notify!syncVars
<1> QED BY <1>1, <1>2, <1>3

LEMMA ComposedInit == Init /\ Notify!ClientsInit => Notify!NotifyInit
<1> SUFFICES ASSUME Init, Notify!ClientsInit PROVE Notify!NotifyInit
  OBVIOUS
<1>1. Notify!LifeInit
  BY PromiseInit DEF Promise!LifeInit, Notify!LifeInit
<1>2. Notify!EmitInit
  <2>1. \A s \in Sessions, i \in Invites : AnswerOf(s, i) = "none"
    BY DEF Init, SessionsInit, AnswerOf, InPhases
  <2>2. Given = [a \in Sessions \X Invites |-> "none"]
    BY <2>1 DEF Given
  <2> QED BY <2>2 DEF Init, InvitesInit, Notify!EmitInit
<1> QED BY <1>1, <1>2 DEF Notify!NotifyInit

\* The notifications leave the manager as it is.
LEMMA ComposedIsSafe == Composed => Safety
<1>1. [ManagerStep \/ ClientStep]_ComposedVars => [Next]_vars
  BY DEF ManagerStep, ClientStep, ComposedVars
<1> QED BY <1>1, PTL DEF Composed, Safety

\* Every behaviour of the manager with its connections and clients is one of
\* IncomingNotify: of what that module lets a call manager do, onIncomingInvite,
\* AcceptIncoming and finishInbound do no more.
THEOREM ManagerImplementsNotify == Composed => ImplementsNotify
<1>1. Safety => []PromiseInv
  BY AnswersSound DEF PromiseInv
<1>2. PromiseInv /\ AnnounceInv /\ [Next]_vars => AnnounceInv'
  BY AnnounceStep DEF PromiseInv
<1>3. Safety => []AnnounceInv
  BY <1>1, <1>2, AnnounceInit, PTL DEF Safety
<1>4. Composed => []LeftInv
  BY LeftInit, LeftStep, PTL DEF Composed
<1> QED
  BY <1>1, <1>3, <1>4, ComposedIsSafe, ComposedInit, ComposedStep, PTL
  DEF Composed, ImplementsNotify, Notify!NotifySpec

---------------------------------------------------------------------------
(* What IncomingNotify_proofs has proved of IncomingNotify, for this       *)
(* manager.  The module it is proved in is taken as an instance of its     *)
(* own, whose definitions are those of Notify.                             *)

Proved == INSTANCE IncomingNotify_proofs
            WITH Calls <- Invites,
                 Accepts <- Sessions,
                 life <- [i \in Invites |-> Life(i)],
                 offered <- listed,
                 told <- {i \in Invites : Times("stopped", i) # {}},
                 answer <- Given,
                 begun <- events

LEMMA SameInit == Notify!NotifyInit => Proved!NotifyInit
BY DEF Notify!NotifyInit, Notify!LifeInit, Notify!EmitInit, Notify!ClientsInit,
   Proved!NotifyInit, Proved!LifeInit, Proved!EmitInit, Proved!ClientsInit

LEMMA SameVars == UNCHANGED Notify!notifyVars => UNCHANGED Proved!notifyVars
BY DEF Notify!notifyVars, Proved!notifyVars, Notify!emitVars, Proved!emitVars,
      Notify!socketVars, Proved!socketVars, Notify!pushVars, Proved!pushVars,
      Notify!syncVars, Proved!syncVars, Notify!lifeVars, Proved!lifeVars

LEMMA SameManager == Notify!ManagerNext => Proved!ManagerNext
<1> SUFFICES ASSUME Notify!ManagerNext PROVE Proved!ManagerNext
  OBVIOUS
<1> USE DEF Notify!emitVars, Proved!emitVars, Notify!socketVars, Proved!socketVars,
      Notify!pushVars, Proved!pushVars, Notify!syncVars, Proved!syncVars, Notify!lifeVars,
      Proved!lifeVars
<1>1. ASSUME NEW i \in Invites, Notify!Rings(i) PROVE Proved!Rings(i)
  BY <1>1 DEF Notify!Rings, Proved!Rings, Notify!Ring, Proved!Ring
<1>2. ASSUME NEW i \in Invites, Notify!RingsOut(i) PROVE Proved!RingsOut(i)
  BY <1>2 DEF Notify!RingsOut, Proved!RingsOut, Notify!Begun, Proved!Begun, Notify!Is, Proved!Is,
      Notify!NotifyIncomingEvent, Proved!NotifyIncomingEvent, Notify!Announce,
      Proved!Announce
<1>3. ASSUME NEW i \in Invites, Notify!Stops(i) PROVE Proved!Stops(i)
  BY <1>3 DEF Notify!Stops, Proved!Stops, Notify!Stop, Proved!Stop
<1>4. ASSUME NEW i \in Invites, Notify!Withdraws(i) PROVE Proved!Withdraws(i)
  BY <1>4 DEF Notify!Withdraws, Proved!Withdraws, Notify!Withdraw, Proved!Withdraw
<1>5. ASSUME NEW i \in Invites, Notify!StopOut(i) PROVE Proved!StopOut(i)
  BY <1>5 DEF Notify!StopOut, Proved!StopOut, Notify!Tell, Proved!Tell, Notify!NotifyIncomingEvent,
      Proved!NotifyIncomingEvent, Notify!Announce, Proved!Announce
<1>6. ASSUME NEW i \in Invites, NEW s \in Sessions, Notify!Answers(s, i) PROVE Proved!Answers(s, i)
  BY <1>6 DEF Notify!Answers, Proved!Answers, Notify!Answer, Proved!Answer
<1>7. ASSUME NEW i \in Invites, NEW s \in Sessions, Notify!AnswerOut(s, i) PROVE Proved!AnswerOut(s, i)
  BY <1>7 DEF Notify!AnswerOut, Proved!AnswerOut, Notify!NotifyIncomingEvent,
      Proved!NotifyIncomingEvent, Notify!Announce, Proved!Announce
<1> QED BY <1>1, <1>2, <1>3, <1>4, <1>5, <1>6, <1>7 DEF Notify!ManagerNext, Proved!ManagerNext

LEMMA SameClients == Notify!ClientsNext => Proved!ClientsNext
<1> SUFFICES ASSUME Notify!ClientsNext PROVE Proved!ClientsNext
  OBVIOUS
<1> USE DEF Notify!emitVars, Proved!emitVars, Notify!socketVars, Proved!socketVars,
      Notify!pushVars, Proved!pushVars, Notify!syncVars, Proved!syncVars, Notify!lifeVars,
      Proved!lifeVars
<1>1. ASSUME NEW d \in Devices, NEW i \in Invites, NEW n \in 1..Len(events[i]), Notify!Notify(d, i, n)
      PROVE  Proved!Notify(d, i, n)
  BY <1>1 DEF Notify!Notify, Proved!Notify, Notify!SendMessage, Proved!SendMessage
<1>2. ASSUME NEW d \in Devices, Notify!Connect(d) PROVE Proved!Connect(d)
  BY <1>2 DEF Notify!Connect, Proved!Connect
<1>3. ASSUME NEW d \in Devices, Notify!ReadPending(d) PROVE Proved!ReadPending(d)
  BY <1>3 DEF Notify!ReadPending, Proved!ReadPending, Notify!ListPendingIncoming,
      Proved!ListPendingIncoming
<1>4. ASSUME NEW d \in Devices, Notify!SendPending(d) PROVE Proved!SendPending(d)
  BY <1>4 DEF Notify!SendPending, Proved!SendPending, Notify!SendMessage, Proved!SendMessage
<1>5. ASSUME NEW d \in Devices, Notify!Disconnect(d) PROVE Proved!Disconnect(d)
  BY <1>5 DEF Notify!Disconnect, Proved!Disconnect
<1>6. ASSUME NEW d \in Devices, Notify!handleMessage(d) PROVE Proved!handleMessage(d)
  BY <1>6 DEF Notify!handleMessage, Proved!handleMessage, Notify!Handled, Proved!Handled
<1>7. ASSUME NEW d \in Phones, Notify!ListIncomingCalls(d) PROVE Proved!ListIncomingCalls(d)
  BY <1>7 DEF Notify!ListIncomingCalls, Proved!ListIncomingCalls, Notify!ListPendingIncoming,
      Proved!ListPendingIncoming
<1>8. ASSUME NEW d \in Phones, Notify!replaceIncoming(d) PROVE Proved!replaceIncoming(d)
  BY <1>8 DEF Notify!replaceIncoming, Proved!replaceIncoming
<1>9. ASSUME NEW d \in Phones, NEW i \in Invites, NEW n \in 1..Len(events[i]), Notify!Push(d, i, n)
       PROVE  Proved!Push(d, i, n)
  BY <1>9 DEF Notify!Push, Proved!Push
<1>10. ASSUME NEW d \in Phones, NEW i \in Invites, NEW n \in 1..Len(events[i]), Notify!handlePushPayload(d, i, n)
       PROVE  Proved!handlePushPayload(d, i, n)
  BY <1>10 DEF Notify!handlePushPayload, Proved!handlePushPayload, Notify!Handled, Proved!Handled
<1> QED
  BY <1>1, <1>2, <1>3, <1>4, <1>5, <1>6, <1>7, <1>8, <1>9, <1>10
  DEF Notify!ClientsNext, Proved!ClientsNext

LEMMA SameSpec == Notify!NotifySpec => Proved!NotifySpec
<1>1. [Notify!NotifyNext]_(Notify!notifyVars) => [Proved!NotifyNext]_(Proved!notifyVars)
  BY SameVars, SameManager, SameClients DEF Notify!NotifyNext, Proved!NotifyNext
<1> QED BY <1>1, SameInit, PTL DEF Notify!NotifySpec, Proved!NotifySpec

\* With onIncomingInvite, AcceptIncoming and finishInbound as they are, no
\* connection misses a ringing call, whichever goroutines race.
THEOREM NoRingEverLost ==
    ASSUME Phones \subseteq Devices, MaxConnects \in Nat
    PROVE  Composed => []NoRingLost
<1>1. Proved!RingReachesAll => NoRingLost
  BY DEF NoRingLost, Notify!RingReachesAll, Proved!RingReachesAll, Notify!Delivered, Proved!Delivered,
      Notify!Is, Proved!Is, Notify!Sent, Proved!Sent
<1> QED
  BY <1>1, ManagerImplementsNotify, SameSpec, Proved!NoRingMissed, PTL DEF ImplementsNotify

\* With the manager as it is, no connection that was sent a call misses its answer
\* or its end.
THEOREM NoEndEverLost ==
    ASSUME Phones \subseteq Devices, MaxConnects \in Nat
    PROVE  Composed => []NoEndLost
<1>1. Proved!EndReachesAll => NoEndLost
  BY DEF NoEndLost, Notify!EndReachesAll, Proved!EndReachesAll, Notify!DeliveredAfter,
      Proved!DeliveredAfter, Notify!Is, Proved!Is, Notify!Sent, Proved!Sent
<1> QED
  BY <1>1, ManagerImplementsNotify, SameSpec, Proved!NoEndMissed, PTL DEF ImplementsNotify

\* With the manager as it is, no list a client is given has a call whose answer or
\* end was announced.
THEOREM NoListEverStale ==
    ASSUME Phones \subseteq Devices, MaxConnects \in Nat
    PROVE  Composed => NoStaleList
<1>1. Proved!NeverListedAgain => NoStaleList
  BY PTL DEF NoStaleList, Notify!NeverListedAgain, Proved!NeverListedAgain, Notify!Begun, Proved!Begun,
      Notify!Is, Proved!Is, Notify!notifyVars, Proved!notifyVars, Notify!emitVars,
      Proved!emitVars, Notify!socketVars, Proved!socketVars, Notify!pushVars,
      Proved!pushVars, Notify!syncVars, Proved!syncVars, Notify!lifeVars, Proved!lifeVars
<1> QED
  BY <1>1, ManagerImplementsNotify, SameSpec, Proved!ListsNeverStale, PTL DEF ImplementsNotify
=============================================================================
