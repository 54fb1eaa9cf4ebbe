-------------------------- MODULE SessionLifecycle --------------------------
(***************************************************************************)
(* What a call of StartCall or AcceptIncoming and the session it creates   *)
(* look like from outside internal/call/manager.go: the call begins for a  *)
(* user who is free, fails or is registered, and closes at any moment, its *)
(* own goroutine or another one being the closer.  CallManager implements  *)
(* it; the WebSocket handlers of Signaling are written against it.         *)
(***************************************************************************)
CONSTANTS Users, Sessions, NoUser, NoSession

ASSUME LifecycleNames == NoUser \notin Users /\ NoSession \notin Sessions

VARIABLES
    stage,   \* of the call: "offered" once CallSession.UserID is set
    fall,    \* of CallSession.close, which runs once
    owner,   \* the user the call was begun for
    byUser   \* Manager.callsByUser

lifeVars == <<stage, fall, owner, byUser>>

LifecycleTypeOK ==
    /\ stage \in [Sessions -> {"none", "trying", "offered", "registered", "failed"}]
    /\ fall \in [Sessions -> {"open", "claimed", "unregistered", "closed"}]
    /\ owner \in [Sessions -> Users \cup {NoUser}]
    /\ byUser \in [Users -> Sessions \cup {NoSession}]

LifecycleInit ==
    /\ stage = [s \in Sessions |-> "none"]
    /\ fall = [s \in Sessions |-> "open"]
    /\ owner = [s \in Sessions |-> NoUser]
    /\ byUser = [u \in Users |-> NoSession]

\* GetUserCall found nothing.
Begin(u, s) ==
    /\ stage[s] = "none"
    /\ byUser[u] = NoSession
    /\ stage' = [stage EXCEPT ![s] = "trying"]
    /\ owner' = [owner EXCEPT ![s] = u]
    /\ UNCHANGED <<fall, byUser>>

Offer(s) ==
    /\ stage[s] = "trying"
    /\ fall[s] = "open"
    /\ stage' = [stage EXCEPT ![s] = "offered"]
    /\ UNCHANGED <<fall, owner, byUser>>

\* registerCall does not look whether the session has been closed meanwhile.
Register(s) ==
    /\ stage[s] = "offered"
    /\ stage' = [stage EXCEPT ![s] = "registered"]
    /\ byUser' = [byUser EXCEPT ![owner[s]] = s]
    /\ UNCHANGED <<fall, owner>>

\* Without a session, or after its close.
Fail(s) ==
    /\ \/ stage[s] = "trying" /\ fall[s] = "open"
       \/ stage[s] \in {"trying", "offered"} /\ fall[s] = "closed"
    /\ stage' = [stage EXCEPT ![s] = "failed"]
    /\ UNCHANGED <<fall, owner, byUser>>

Claim(s) ==
    /\ stage[s] \in {"trying", "offered", "registered"}
    /\ fall[s] = "open"
    /\ fall' = [fall EXCEPT ![s] = "claimed"]
    /\ UNCHANGED <<stage, owner, byUser>>

\* Mutant: the entry is cleared with the zero of another type.
UnregisterWrongZero(s) ==
    /\ fall[s] = "claimed"
    /\ fall' = [fall EXCEPT ![s] = "unregistered"]
    /\ byUser' = [byUser EXCEPT ![owner[s]] = NoUser]
    /\ UNCHANGED <<stage, owner>>

\* A session without a UserID takes no entry out of callsByUser, another one
\* takes out its user's, whichever session that is.
Unregister(s) ==
    /\ fall[s] = "claimed"
    /\ fall' = [fall EXCEPT ![s] = "unregistered"]
    /\ byUser' = IF stage[s] = "trying" THEN byUser
                 ELSE [byUser EXCEPT ![owner[s]] = NoSession]
    /\ UNCHANGED <<stage, owner>>

\* EndCallLog and OnHangup.
Finish(s) ==
    /\ fall[s] = "unregistered"
    /\ fall' = [fall EXCEPT ![s] = "closed"]
    /\ UNCHANGED <<stage, owner, byUser>>

LifecycleNext ==
    \E s \in Sessions :
        \/ \E u \in Users : Begin(u, s)
        \/ Offer(s) \/ Register(s) \/ Fail(s)
        \/ Claim(s) \/ Unregister(s) \/ Finish(s)

\* A call of the manager returns and a close runs to its end.
LifecycleFairness ==
    \A s \in Sessions : /\ WF_lifeVars(Offer(s) \/ Register(s) \/ Fail(s))
                        /\ WF_lifeVars(Unregister(s) \/ Finish(s))

LifecycleSafety == LifecycleInit /\ [][LifecycleNext]_lifeVars

LifecycleSpec == LifecycleSafety /\ LifecycleFairness
=============================================================================
