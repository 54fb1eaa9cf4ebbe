-------------------------- MODULE Signaling_proofs --------------------------
(***************************************************************************)
(* Proofs about Signaling for every set of users, connections and calls.   *)
(***************************************************************************)
EXTENDS Signaling, TLAPS

USE DEF lifeVars, wsVars, Goes, setCurrent

Pending(s) == stage[s] \in {"trying", "offered"}

\* The goroutine that waits for a call, the call, and the connection its
\* callbacks belong to fit together; what is in callsByUser or is current was
\* registered for that user.
HandlerInv ==
    /\ \A c \in Conns :
          /\ conn[c] \in {"calling", "hangingUp"} => job[c] \in Sessions
          /\ conn[c] = "calling" => stage[job[c]] # "none" /\ origin[job[c]] = c
          /\ current[c] # NoSession =>
                stage[current[c]] = "registered" /\ owner[current[c]] = Owner[c]
    /\ \A u \in Users : byUser[u] # NoSession =>
          stage[byUser[u]] = "registered" /\ owner[byUser[u]] = u
    /\ \A s \in Sessions :
          /\ stage[s] # "none" => origin[s] \in Conns /\ owner[s] = Owner[origin[s]]
          /\ stage[s] = "none" => fall[s] = "open"
          /\ stage[s] = "failed" => fall[s] \in {"open", "closed"}
          /\ Pending(s) => conn[origin[s]] = "calling" /\ job[origin[s]] = s

TypedInv == SignalTypeOK /\ HandlerInv

---------------------------------------------------------------------------
(* Types.                                                                  *)

LEMMA SignalTypeInit == SignalInit => SignalTypeOK
BY DEF SignalInit, LifecycleInit, SignalTypeOK, LifecycleTypeOK

\* What the manager may do to a call leaves the types of its variables.
LEMMA CallTypes ==
    ASSUME LifecycleTypeOK, NEW s \in Sessions, HandlerInv,
           Offer(s) \/ Register(s) \/ Fail(s) \/ Claim(s) \/ Unregister(s) \/ Finish(s)
    PROVE  LifecycleTypeOK'
<1> USE DEF LifecycleTypeOK
<1>0. stage[s] # "none" => owner[s] \in Users
  BY ConnectionsHaveOwners DEF HandlerInv
<1>1. CASE Offer(s)
  BY <1>1 DEF Offer
<1>2. CASE Register(s)
  BY <1>0, <1>2 DEF Register
<1>3. CASE Fail(s)
  BY <1>3 DEF Fail
<1>4. CASE Claim(s)
  BY <1>4 DEF Claim
<1>5. CASE Unregister(s)
  BY <1>0, <1>5 DEF Unregister
<1>6. CASE Finish(s)
  BY <1>6 DEF Finish
<1> QED BY <1>1, <1>2, <1>3, <1>4, <1>5, <1>6

LEMMA CallsTypes ==
    ASSUME SignalTypeOK, NEW c \in Conns, NEW s \in Sessions, Calls(c, s)
    PROVE  SignalTypeOK'
<1> USE DEF SignalTypeOK
<1>1. Owner[c] \in Users
  BY ConnectionsHaveOwners
<1>2. LifecycleTypeOK'
  BY <1>1 DEF Calls, Begin, LifecycleTypeOK
<1> QED BY <1>2 DEF Calls

LEMMA SignalTypeStep == TypedInv /\ [SignalNext]_signalVars => SignalTypeOK'
<1> SUFFICES ASSUME TypedInv, [SignalNext]_signalVars PROVE SignalTypeOK'
  OBVIOUS
<1> USE DEF TypedInv, SignalTypeOK
<1>1. ASSUME NEW c \in Conns, Connect(c) \/ Disconnect(c) PROVE SignalTypeOK'
  BY <1>1 DEF Connect, Disconnect, LifecycleTypeOK
<1>2. ASSUME NEW c \in Conns, Serve(c) PROVE SignalTypeOK'
  <2>1. CASE Recover(c)
    <3>1. byUser[Owner[c]] \in Sessions \cup {NoSession}
      BY ConnectionsHaveOwners DEF LifecycleTypeOK
    <3> QED BY <2>1, <3>1 DEF Recover, LifecycleTypeOK
  <2>2. CASE Take(c)
    BY <2>2 DEF Take, LifecycleTypeOK
  <2>3. CASE Report(c)
    BY <2>3 DEF Report, LifecycleTypeOK
  <2>4. CASE HungUp(c)
    BY <2>4 DEF HungUp, LifecycleTypeOK
  <2> QED BY <1>2, <2>1, <2>2, <2>3, <2>4 DEF Serve
<1>3. ASSUME NEW c \in Conns, Hangup(c) PROVE SignalTypeOK'
  <2>1. current[c] \in Sessions
    BY <1>3 DEF Hangup
  <2>2. LifecycleTypeOK'
    <3>1. CASE fall[current[c]] = "open"
      BY <1>3, <2>1, <3>1, CallTypes DEF Hangup
    <3>2. CASE fall[current[c]] # "open"
      BY <1>3, <3>2 DEF Hangup, LifecycleTypeOK
    <3> QED BY <3>1, <3>2
  <2> QED BY <1>3, <2>1, <2>2 DEF Hangup
<1>4. ASSUME NEW c \in Conns, NEW s \in Sessions, Dial(c, s) \/ Accept(c, s)
      PROVE  SignalTypeOK'
  BY <1>4, CallsTypes DEF Dial, Accept
<1>5. ASSUME NEW s \in Sessions, CallStep(s) \/ Breaks(s) PROVE SignalTypeOK'
  BY <1>5, CallTypes DEF CallStep, Breaks
<1>6. ASSUME NEW s \in Sessions, FallStep(s) PROVE SignalTypeOK'
  BY <1>6, CallTypes DEF FallStep, OnHangup
<1>7. CASE UNCHANGED signalVars
  BY <1>7 DEF signalVars, LifecycleTypeOK
<1> QED BY <1>1, <1>2, <1>3, <1>4, <1>5, <1>6, <1>7 DEF SignalNext, SignalQuiet

---------------------------------------------------------------------------
(* The handlers and their calls.                                           *)

LEMMA HandlerInit == SignalInit => HandlerInv
BY DEF SignalInit, LifecycleInit, HandlerInv, Pending

LEMMA HandlerConns ==
    ASSUME TypedInv, NEW c \in Conns, Connect(c) \/ Disconnect(c) \/ Serve(c) \/ Hangup(c)
    PROVE  HandlerInv'
<1> USE DEF TypedInv, SignalTypeOK, LifecycleTypeOK, HandlerInv, Pending
<1>1. CASE Connect(c)
  BY <1>1 DEF Connect
<1>2. CASE Disconnect(c)
  BY <1>2 DEF Disconnect
<1>3. CASE Recover(c)
  <2>1. LET s == byUser[Owner[c]]
        IN  s # NoSession => stage[s] = "registered" /\ owner[s] = Owner[c]
    BY ConnectionsHaveOwners
  <2> QED BY <1>3, <2>1 DEF Recover
<1>4. CASE Take(c)
  BY <1>4 DEF Take
<1>5. CASE Report(c)
  BY <1>5 DEF Report
<1>6. CASE HungUp(c)
  BY <1>6 DEF HungUp
<1>7. CASE Hangup(c)
  <2>1. /\ UNCHANGED <<stage, owner, byUser, origin>>
        /\ \A s \in Sessions : fall'[s] # fall[s] => stage[s] = "registered"
    BY <1>7 DEF Hangup, Claim
  <2>2. conn[c] = "reading" /\ current[c] \in Sessions
    BY <1>7 DEF Hangup
  <2>3. /\ conn' = [conn EXCEPT ![c] = "hangingUp"]
        /\ job' = [job EXCEPT ![c] = current[c]]
        /\ current' = [current EXCEPT ![c] = NoSession]
    BY <1>7 DEF Hangup
  <2>4. \A d \in Conns :
          /\ conn'[d] \in {"calling", "hangingUp"} => job'[d] \in Sessions
          /\ conn'[d] = "calling" => stage'[job'[d]] # "none" /\ origin'[job'[d]] = d
          /\ current'[d] # NoSession =>
                stage'[current'[d]] = "registered" /\ owner'[current'[d]] = Owner[d]
    BY <2>1, <2>2, <2>3
  <2>5. \A s \in Sessions :
          /\ stage'[s] # "none" => origin'[s] \in Conns /\ owner'[s] = Owner[origin'[s]]
          /\ stage'[s] = "none" => fall'[s] = "open"
          /\ stage'[s] = "failed" => fall'[s] \in {"open", "closed"}
    BY <2>1
  <2>6. \A s \in Sessions : Pending(s)' => conn'[origin'[s]] = "calling" /\ job'[origin'[s]] = s
    BY <2>1, <2>2, <2>3
  <2> QED BY <2>1, <2>4, <2>5, <2>6
<1> QED BY <1>1, <1>2, <1>3, <1>4, <1>5, <1>6, <1>7 DEF Serve

LEMMA HandlerCalls ==
    ASSUME TypedInv, NEW c \in Conns, NEW s \in Sessions, Calls(c, s)
    PROVE  HandlerInv'
<1> USE DEF TypedInv, SignalTypeOK, LifecycleTypeOK, HandlerInv, Pending
<1>1. /\ stage[s] = "none" /\ conn[c] = "reading"
      /\ stage' = [stage EXCEPT ![s] = "trying"]
      /\ owner' = [owner EXCEPT ![s] = Owner[c]]
      /\ conn' = [conn EXCEPT ![c] = "calling"]
      /\ job' = [job EXCEPT ![c] = s]
      /\ origin' = [origin EXCEPT ![s] = c]
      /\ UNCHANGED <<fall, byUser, current>>
  BY DEF Calls, Begin
<1>2. \A d \in Conns :
        /\ conn'[d] \in {"calling", "hangingUp"} => job'[d] \in Sessions
        /\ current'[d] # NoSession =>
              stage'[current'[d]] = "registered" /\ owner'[current'[d]] = Owner[d]
  BY <1>1
<1>3. \A d \in Conns : conn'[d] = "calling" =>
        stage'[job'[d]] # "none" /\ origin'[job'[d]] = d
  BY <1>1
<1>4. \A u \in Users : byUser'[u] # NoSession =>
        stage'[byUser'[u]] = "registered" /\ owner'[byUser'[u]] = u
  BY <1>1
<1>5. \A t \in Sessions :
        /\ stage'[t] # "none" => origin'[t] \in Conns /\ owner'[t] = Owner[origin'[t]]
        /\ stage'[t] = "none" => fall'[t] = "open"
        /\ stage'[t] = "failed" => fall'[t] \in {"open", "closed"}
  BY <1>1
<1>6. \A t \in Sessions : Pending(t)' => conn'[origin'[t]] = "calling" /\ job'[origin'[t]] = t
  BY <1>1
<1> QED BY <1>2, <1>3, <1>4, <1>5, <1>6

LEMMA HandlerSessions ==
    ASSUME TypedInv, NEW s \in Sessions, CallStep(s) \/ Breaks(s) \/ FallStep(s)
    PROVE  HandlerInv'
<1> USE DEF TypedInv, SignalTypeOK, LifecycleTypeOK, HandlerInv, Pending
<1>1. CASE Offer(s) /\ UNCHANGED wsVars
  BY <1>1 DEF Offer
<1>2. CASE Register(s) /\ UNCHANGED wsVars
  <2>1. owner[s] \in Users
    BY <1>2, ConnectionsHaveOwners DEF Register
  <2> QED BY <1>2, <2>1 DEF Register
<1>3. CASE Fail(s) /\ UNCHANGED wsVars
  BY <1>3 DEF Fail
<1>4. CASE Claim(s) /\ UNCHANGED wsVars
  BY <1>4 DEF Claim
<1>5. CASE Unregister(s) /\ UNCHANGED wsVars
  <2>1. /\ UNCHANGED <<stage, owner, wsVars>>
        /\ fall[s] = "claimed" /\ fall' = [fall EXCEPT ![s] = "unregistered"]
        /\ \A u \in Users : byUser'[u] # NoSession => byUser'[u] = byUser[u]
    BY <1>5 DEF Unregister
  <2> QED BY <2>1
<1>6. CASE OnHangup(s)
  BY <1>6 DEF OnHangup, Finish
<1> QED BY <1>1, <1>2, <1>3, <1>4, <1>5, <1>6 DEF CallStep, Breaks, FallStep

LEMMA HandlerStep == TypedInv /\ [SignalNext]_signalVars => HandlerInv'
<1> SUFFICES ASSUME TypedInv, [SignalNext]_signalVars PROVE HandlerInv'
  OBVIOUS
<1>1. CASE UNCHANGED signalVars
  BY <1>1 DEF signalVars, TypedInv, HandlerInv, Pending
<1> QED
  BY <1>1, HandlerConns, HandlerCalls, HandlerSessions
  DEF SignalNext, SignalQuiet, Dial, Accept

\* Every variable keeps its type, and the handlers' bookkeeping fits together.
THEOREM SignalingTyped == SignalSafety => []TypedInv
<1>1. SignalInit => TypedInv
  BY SignalTypeInit, HandlerInit DEF TypedInv
<1>2. TypedInv /\ [SignalNext]_signalVars => TypedInv'
  BY SignalTypeStep, HandlerStep DEF TypedInv
<1> QED BY <1>1, <1>2, PTL DEF SignalSafety

\* Types.
THEOREM SignalingTypeCorrect == SignalSafety => []SignalTypeOK
BY SignalingTyped, PTL DEF TypedInv

\* No connection ever controls the call of another user.
THEOREM CurrentAlwaysOwn == SignalSafety => []CurrentIsOwn
<1>1. TypedInv => CurrentIsOwn
  BY DEF TypedInv, SignalTypeOK, HandlerInv, CurrentIsOwn
<1> QED BY <1>1, SignalingTyped, PTL

---------------------------------------------------------------------------
(* One connection, one call.                                               *)

Solo(c) == \A d \in Conns : Owner[d] = Owner[c] => d = c

\* Registered and not yet out of callsByUser.
Up(s) == stage[s] = "registered" /\ fall[s] \in {"open", "claimed"}

\* A call of such a user that is up is the one in callsByUser, and no other one
\* of the user is on its way.
SoloUp(c, s) ==
    owner[s] = Owner[c] /\ Up(s) =>
        /\ byUser[Owner[c]] = s
        /\ \A t \in Sessions : owner[t] = Owner[c] => ~Pending(t)

SoloInv == \A c \in Conns : Solo(c) => \A s \in Sessions : SoloUp(c, s)

LEMMA SoloFrame ==
    ASSUME SoloInv, UNCHANGED lifeVars PROVE SoloInv'
BY DEF SoloInv, SoloUp, Solo, Up, Pending

\* A session being closed by the user or by anything else is still up.
LEMMA SoloClaim ==
    ASSUME TypedInv, SoloInv, NEW s \in Sessions, Claim(s) PROVE SoloInv'
BY DEF TypedInv, SignalTypeOK, LifecycleTypeOK, Claim, SoloInv, SoloUp, Solo, Up, Pending

\* The one connection reads no command while its call is on the way.
LEMMA OnePending ==
    ASSUME TypedInv, NEW c \in Conns, Solo(c), NEW s \in Sessions, NEW t \in Sessions,
           owner[s] = Owner[c], owner[t] = Owner[c], Pending(s), Pending(t)
    PROVE  s = t
<1>1. stage[s] # "none" /\ stage[t] # "none"
  BY DEF Pending
<1>2. origin[s] = c /\ origin[t] = c
  BY <1>1 DEF TypedInv, HandlerInv, Solo
<1> QED BY <1>2 DEF TypedInv, HandlerInv

LEMMA SoloBegin ==
    ASSUME TypedInv, SoloInv, NEW d \in Conns, NEW t \in Sessions, Calls(d, t)
    PROVE  SoloInv'
<1>1. /\ stage[t] = "none" /\ byUser[Owner[d]] = NoSession
      /\ stage' = [stage EXCEPT ![t] = "trying"]
      /\ owner' = [owner EXCEPT ![t] = Owner[d]]
      /\ UNCHANGED <<fall, byUser>>
  BY DEF Calls, Begin
<1>2. ASSUME NEW c \in Conns, Solo(c), NEW s \in Sessions, owner'[s] = Owner[c], Up(s)'
      PROVE  /\ byUser'[Owner[c]] = s
             /\ \A x \in Sessions : owner'[x] = Owner[c] => ~Pending(x)'
  <2>1. s # t
    BY <1>1, <1>2 DEF Up, TypedInv, SignalTypeOK, LifecycleTypeOK
  <2>2. owner[s] = Owner[c] /\ Up(s)
    BY <1>1, <1>2, <2>1 DEF Up, TypedInv, SignalTypeOK, LifecycleTypeOK
  <2>3. byUser[Owner[c]] = s /\ \A x \in Sessions : owner[x] = Owner[c] => ~Pending(x)
    BY <1>2, <2>2 DEF SoloInv, SoloUp
  <2>4. Owner[d] # Owner[c]
    BY <1>1, <2>3, LifecycleNames
  <2> QED BY <1>1, <2>3, <2>4 DEF Pending, TypedInv, SignalTypeOK, LifecycleTypeOK
<1> QED BY <1>2 DEF SoloInv, SoloUp, Solo

LEMMA SoloCall ==
    ASSUME TypedInv, SoloInv, NEW t \in Sessions, Offer(t) \/ Register(t) \/ Fail(t)
    PROVE  SoloInv'
<1> USE DEF TypedInv, SignalTypeOK, LifecycleTypeOK
<1>1. CASE Offer(t)
  BY <1>1 DEF Offer, SoloInv, SoloUp, Solo, Up, Pending
<1>2. CASE Register(t)
  <2>1. /\ stage[t] = "offered" /\ stage' = [stage EXCEPT ![t] = "registered"]
        /\ byUser' = [byUser EXCEPT ![owner[t]] = t]
        /\ UNCHANGED <<fall, owner>>
    BY <1>2 DEF Register
  <2>2. ASSUME NEW c \in Conns, Solo(c), NEW s \in Sessions, owner[s] = Owner[c], Up(s)'
        PROVE  /\ byUser'[Owner[c]] = s
               /\ \A x \in Sessions : owner[x] = Owner[c] => ~Pending(x)'
    <3>0. Owner[c] \in Users
      BY ConnectionsHaveOwners
    <3>1. CASE s = t
      <4>1. byUser'[Owner[c]] = s
        BY <2>1, <2>2, <3>0, <3>1
      <4>2. ASSUME NEW x \in Sessions, owner[x] = Owner[c], Pending(x)' PROVE FALSE
        <5>1. x # t
          BY <2>1, <4>2 DEF Pending
        <5>2. Pending(x) /\ Pending(t)
          BY <2>1, <4>2, <5>1 DEF Pending
        <5> QED BY <2>2, <3>1, <4>2, <5>1, <5>2, OnePending
      <4> QED BY <4>1, <4>2
    <3>2. CASE s # t
      <4>1. Up(s)
        BY <2>1, <2>2, <3>2 DEF Up
      <4>2. byUser[Owner[c]] = s /\ \A x \in Sessions : owner[x] = Owner[c] => ~Pending(x)
        BY <2>2, <4>1 DEF SoloInv, SoloUp
      <4>3. owner[t] # Owner[c]
        BY <2>1, <4>2 DEF Pending
      <4> QED BY <2>1, <3>0, <4>2, <4>3 DEF Pending
    <3> QED BY <3>1, <3>2
  <2> QED BY <2>1, <2>2 DEF SoloInv, SoloUp, Solo
<1>3. CASE Fail(t)
  BY <1>3 DEF Fail, SoloInv, SoloUp, Solo, Up, Pending
<1> QED BY <1>1, <1>2, <1>3

LEMMA SoloFall ==
    ASSUME TypedInv, SoloInv, NEW t \in Sessions, Unregister(t) \/ Finish(t)
    PROVE  SoloInv'
<1> USE DEF TypedInv, SignalTypeOK, LifecycleTypeOK
<1>1. CASE Unregister(t)
  <2>1. /\ fall[t] = "claimed" /\ fall' = [fall EXCEPT ![t] = "unregistered"]
        /\ UNCHANGED <<stage, owner>>
    BY <1>1 DEF Unregister
  <2>2. ASSUME NEW c \in Conns, Solo(c), NEW s \in Sessions, owner[s] = Owner[c], Up(s)'
        PROVE  /\ byUser'[Owner[c]] = s
               /\ \A x \in Sessions : owner[x] = Owner[c] => ~Pending(x)'
    <3>1. s # t /\ Up(s)
      BY <2>1, <2>2 DEF Up
    <3>2. byUser[Owner[c]] = s /\ \A x \in Sessions : owner[x] = Owner[c] => ~Pending(x)
      BY <2>2, <3>1 DEF SoloInv, SoloUp
    <3>3. CASE stage[t] = "trying" \/ owner[t] # Owner[c]
      <4>1. byUser'[Owner[c]] = byUser[Owner[c]]
        BY <1>1, <3>3, ConnectionsHaveOwners DEF Unregister
      <4> QED BY <2>1, <3>2, <4>1 DEF Pending
    <3>4. CASE stage[t] # "trying" /\ owner[t] = Owner[c]
      <4>1. stage[t] = "registered"
        BY <2>1, <3>2, <3>4 DEF HandlerInv, Pending
      <4>2. Up(t)
        BY <2>1, <4>1 DEF Up
      <4>3. byUser[Owner[c]] = t
        BY <2>2, <3>4, <4>2 DEF SoloInv, SoloUp
      <4> QED BY <3>1, <3>2, <4>3
    <3> QED BY <3>3, <3>4
  <2> QED BY <2>1, <2>2 DEF SoloInv, SoloUp, Solo
<1>2. CASE Finish(t)
  BY <1>2 DEF Finish, SoloInv, SoloUp, Solo, Up, Pending
<1> QED BY <1>1, <1>2

LEMMA SoloStep == TypedInv /\ SoloInv /\ [SignalNext]_signalVars => SoloInv'
<1> SUFFICES ASSUME TypedInv, SoloInv, [SignalNext]_signalVars PROVE SoloInv'
  OBVIOUS
<1>1. ASSUME NEW c \in Conns, Connect(c) \/ Disconnect(c) \/ Serve(c) PROVE SoloInv'
  <2>1. UNCHANGED lifeVars
    BY <1>1 DEF Connect, Disconnect, Serve, Recover, Take, Report, HungUp
  <2> QED BY <2>1, SoloFrame
<1>2. ASSUME NEW c \in Conns, Hangup(c) PROVE SoloInv'
  <2>1. current[c] \in Sessions
    BY <1>2 DEF Hangup, TypedInv, SignalTypeOK
  <2>2. Claim(current[c]) \/ UNCHANGED lifeVars
    BY <1>2 DEF Hangup
  <2> QED BY <2>1, <2>2, SoloFrame, SoloClaim
<1>3. ASSUME NEW c \in Conns, NEW s \in Sessions, Dial(c, s) \/ Accept(c, s)
      PROVE  SoloInv'
  BY <1>3, SoloBegin DEF Dial, Accept
<1>4. ASSUME NEW s \in Sessions, CallStep(s) \/ Breaks(s) PROVE SoloInv'
  BY <1>4, SoloCall, SoloClaim DEF CallStep, Breaks
<1>5. ASSUME NEW s \in Sessions, FallStep(s) PROVE SoloInv'
  BY <1>5, SoloFall DEF FallStep, OnHangup
<1>6. CASE UNCHANGED signalVars
  BY <1>6, SoloFrame DEF signalVars
<1> QED BY <1>1, <1>2, <1>3, <1>4, <1>5, <1>6 DEF SignalNext, SignalQuiet

\* A user with one connection never has two calls that are up, however the ends
\* of earlier calls interleave with the beginning of the next.
THEOREM SoloAlwaysOneCall == SignalSafety => []SoloOneCall
<1>1. SignalInit => SoloInv
  BY DEF SignalInit, LifecycleInit, SoloInv, SoloUp, Up
<1>2. SoloInv => SoloOneCall
  BY DEF SoloInv, SoloUp, Solo, Up, SoloOneCall, Alive
<1> QED BY <1>1, <1>2, SignalingTyped, SoloStep, PTL DEF SignalSafety
=============================================================================
