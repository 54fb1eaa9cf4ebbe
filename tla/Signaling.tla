----------------------------- MODULE Signaling -----------------------------
(***************************************************************************)
(* handleWS of internal/web/server.go: one goroutine per WebSocket reads   *)
(* one command at a time and works on it before it reads the next.  It     *)
(* keeps the call the connection controls in "current", which close of a   *)
(* session clears through OnHangup from whatever goroutine it runs on.     *)
(*                                                                         *)
(* A connection is used once; a client that reconnects takes another one   *)
(* of the same user.                                                       *)
(***************************************************************************)
EXTENDS SessionLifecycle

CONSTANTS Conns,      \* WebSocket connections
          Owner,      \* the user each was opened by
          Answering,  \* those that send incoming_accept, the others dial
          NoConn

ASSUME ConnectionsHaveOwners ==
    /\ Owner \in [Conns -> Users]
    /\ Answering \subseteq Conns
    /\ NoConn \notin Conns

VARIABLES
    conn,      \* where the goroutine of the connection is
    job,       \* the call it waits for, in StartCall, AcceptIncoming or Hangup
    current,   \* the local variable of this name
    origin     \* the connection a session's callbacks belong to

wsVars == <<conn, job, current, origin>>
signalVars == <<lifeVars, wsVars>>

SignalTypeOK ==
    /\ LifecycleTypeOK
    /\ conn \in [Conns -> {"new", "opening", "reading", "calling", "hangingUp", "gone"}]
    /\ job \in [Conns -> Sessions \cup {NoSession}]
    /\ current \in [Conns -> Sessions \cup {NoSession}]
    /\ origin \in [Sessions -> Conns \cup {NoConn}]

SignalInit ==
    /\ LifecycleInit
    /\ conn = [c \in Conns |-> "new"]
    /\ job = [c \in Conns |-> NoSession]
    /\ current = [c \in Conns |-> NoSession]
    /\ origin = [s \in Sessions |-> NoConn]

Goes(c, from, to) == conn[c] = from /\ conn' = [conn EXCEPT ![c] = to]

setCurrent(c, s) == current' = [current EXCEPT ![c] = s]

Connect(c) ==
    /\ Goes(c, "new", "opening")
    /\ UNCHANGED <<lifeVars, job, current, origin>>

\* Mutant: the call of any user is recovered.
RecoverAnyone(c) ==
    /\ Goes(c, "opening", "reading")
    /\ \E u \in Users : setCurrent(c, byUser[u])
    /\ UNCHANGED <<lifeVars, job, origin>>

\* GetUserCall and "call_recovered".
Recover(c) ==
    /\ Goes(c, "opening", "reading")
    /\ setCurrent(c, byUser[Owner[c]])
    /\ UNCHANGED <<lifeVars, job, origin>>

Calls(c, s) ==
    /\ Goes(c, "reading", "calling")
    /\ Begin(Owner[c], s)
    /\ job' = [job EXCEPT ![c] = s]
    /\ origin' = [origin EXCEPT ![s] = c]
    /\ UNCHANGED current

\* "dial": refused while current or callsByUser holds a call.
Dial(c, s) ==
    /\ current[c] = NoSession
    /\ Calls(c, s)

\* Mutant: the handler leaves the check of GetUserCall to nobody.
AcceptUnchecked(c, s) ==
    /\ c \in Answering
    /\ Goes(c, "reading", "calling")
    /\ stage[s] = "none"
    /\ stage' = [stage EXCEPT ![s] = "trying"]
    /\ owner' = [owner EXCEPT ![s] = Owner[c]]
    /\ job' = [job EXCEPT ![c] = s]
    /\ origin' = [origin EXCEPT ![s] = c]
    /\ UNCHANGED <<fall, byUser, current>>

\* "incoming_accept" does not look at current.
Accept(c, s) ==
    /\ c \in Answering
    /\ Calls(c, s)

\* The call came back with a session: "answer" is sent.
Take(c) ==
    /\ Goes(c, "calling", "reading")
    /\ stage[job[c]] = "registered"
    /\ setCurrent(c, job[c])
    /\ job' = [job EXCEPT ![c] = NoSession]
    /\ UNCHANGED <<lifeVars, origin>>

\* It came back with an error, which is sent.
Report(c) ==
    /\ Goes(c, "calling", "reading")
    /\ stage[job[c]] = "failed"
    /\ job' = [job EXCEPT ![c] = NoSession]
    /\ UNCHANGED <<lifeVars, current, origin>>

\* "hangup": setCurrent(nil), then Hangup, which waits for the one close.
Hangup(c) ==
    /\ current[c] # NoSession
    /\ Goes(c, "reading", "hangingUp")
    /\ job' = [job EXCEPT ![c] = current[c]]
    /\ setCurrent(c, NoSession)
    /\ IF fall[current[c]] = "open" THEN Claim(current[c]) ELSE UNCHANGED lifeVars
    /\ UNCHANGED origin

HungUp(c) ==
    /\ Goes(c, "hangingUp", "reading")
    /\ fall[job[c]] = "closed"
    /\ job' = [job EXCEPT ![c] = NoSession]
    /\ UNCHANGED <<lifeVars, current, origin>>

\* ReadJSON fails; a handler at work finds out when it reads again.
Disconnect(c) ==
    /\ Goes(c, "reading", "gone")
    /\ UNCHANGED <<lifeVars, job, current, origin>>

\* Mutant: curMu is held across Hangup, whose callback needs it.
OnHangupLocked(s) ==
    /\ Finish(s)
    /\ conn[origin[s]] # "hangingUp"
    /\ setCurrent(origin[s], NoSession)
    /\ UNCHANGED <<conn, job, origin>>

\* The last step of close: OnHangup of the connection that began the call
\* clears its current, whatever session that holds.
OnHangup(s) ==
    /\ Finish(s)
    /\ setCurrent(origin[s], NoSession)
    /\ UNCHANGED <<conn, job, origin>>

CallStep(s) == (Offer(s) \/ Register(s) \/ Fail(s)) /\ UNCHANGED wsVars

FallStep(s) == OnHangup(s) \/ (Unregister(s) /\ UNCHANGED wsVars)

Breaks(s) == Claim(s) /\ UNCHANGED wsVars

Serve(c) == Recover(c) \/ Take(c) \/ Report(c) \/ HungUp(c)

\* Every call is over and no client sends anything any more.
SignalQuiet ==
    /\ \A c \in Conns : conn[c] \in {"new", "reading", "gone"}
    /\ \A s \in Sessions : /\ stage[s] \in {"none", "registered", "failed"}
                           /\ fall[s] \in {"open", "closed"}
    /\ UNCHANGED signalVars

SignalNext ==
    \/ \E c \in Conns : \/ Connect(c) \/ Serve(c) \/ Hangup(c) \/ Disconnect(c)
                        \/ \E s \in Sessions : Dial(c, s) \/ Accept(c, s)
    \/ \E s \in Sessions : CallStep(s) \/ FallStep(s) \/ Breaks(s)
    \/ SignalQuiet

\* The manager's calls return and a goroutine that can go on does; clients and
\* calls that stay up owe nothing.
SignalFairness ==
    /\ \A s \in Sessions : /\ WF_signalVars(CallStep(s))
                           /\ WF_signalVars(FallStep(s))
    /\ \A c \in Conns : WF_signalVars(Serve(c))

SignalSafety == SignalInit /\ [][SignalNext]_signalVars

SignalSpec == SignalSafety /\ SignalFairness

---------------------------------------------------------------------------
\* A connection never controls the call of another user, although callsByUser,
\* from which it recovers one, is cleared and overwritten by other sessions.
CurrentIsOwn ==
    \A c \in Conns : current[c] # NoSession => owner[current[c]] = Owner[c]

Alive(s) == stage[s] = "registered" /\ fall[s] = "open"

\* A user with one connection has at most one call that is up: reading one
\* command at a time makes up for the check of callsByUser not being atomic
\* with registerCall.
SoloOneCall ==
    \A c \in Conns : (\A d \in Conns : Owner[d] = Owner[c] => d = c) =>
        \A s, t \in Sessions :
            /\ owner[s] = Owner[c] /\ owner[t] = Owner[c]
            /\ Alive(s) /\ Alive(t)
            => s = t

\* Every command is worked off: the handler reads again, also when it waits in
\* Hangup for a close that another goroutine began and that calls back into it.
CommandReturns ==
    \A c \in Conns : conn[c] \in {"calling", "hangingUp"} ~> conn[c] = "reading"

---------------------------------------------------------------------------
\* server.go, "dial": "a call is already active".  A connection's own call that
\* is closed is not its current any more.
CurrentIsLive ==
    \A c \in Conns : conn[c] = "reading" /\ current[c] # NoSession =>
        fall[current[c]] # "closed"

\* server.go: "call_recovered".  The same for a call another connection began.
RecoveredIsLive ==
    \A c \in Conns : /\ conn[c] = "reading"
                     /\ current[c] # NoSession
                     /\ origin[current[c]] # c
                     => fall[current[c]] # "closed"

\* server.go, "dtmf": "no active call" is for a connection without one.
OriginHoldsCall ==
    \A c \in Conns, s \in Sessions :
        /\ conn[c] = "reading" /\ origin[s] = c
        /\ byUser[Owner[c]] = s /\ Alive(s)
        => current[c] = s
=============================================================================
