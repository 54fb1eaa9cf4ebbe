--------------------------- MODULE ManagerNotify ---------------------------
(***************************************************************************)
(* The call manager and the notifications together. CallManager emits the  *)
(* events of inbound calls; main has handed it the server as its notifier, *)
(* and every event starts a run of NotifyIncomingEvent on the connections  *)
(* of that moment. The lists clients are given are read from incomingByID. *)
(* What IncomingNotify assumes of a call manager is here replaced by the   *)
(* call manager itself.                                                    *)
(***************************************************************************)
EXTENDS CallManager

CONSTANTS Devices, Phones, MaxConnects

VARIABLES left, socket, connects, backlog, stream, read, pushed, flying, sync, snapshot, shown

clientVars == <<socket, connects, backlog, stream, read, pushed, flying, sync, snapshot, shown>>

\* The answer of an accept is due from the connected flag on and out with the
\* event at its end.
AnswerOf(s, i) ==
    IF target[s] # i THEN "none"
    ELSE IF InPhases(s, {"connected", "registered", "unlisted"}) THEN "due"
    ELSE IF phase[s] = "returned" THEN "out"
    ELSE "none"

Given == [a \in Sessions \X Invites |-> AnswerOf(a[1], a[2])]

Notify == INSTANCE IncomingNotify
            WITH Calls <- Invites,
                 Accepts <- Sessions,
                 life <- [i \in Invites |-> Life(i)],
                 offered <- listed,
                 told <- {i \in Invites : Times("stopped", i) # {}},
                 answer <- Given,
                 begun <- events

\* A step of the manager; an event it emits is due to all connections there are.
ManagerStep ==
    /\ Next
    /\ left' = [i \in Invites |->
                  IF events'[i] = events[i] THEN left[i]
                  ELSE Append(left[i], {d \in Devices : socket[d] # "down"})]
    /\ UNCHANGED clientVars

ClientStep == UNCHANGED vars /\ Notify!ClientsNext

ComposedVars == <<vars, left, clientVars>>

Composed == /\ Init /\ Notify!ClientsInit
            /\ [][ManagerStep \/ ClientStep]_ComposedVars

---------------------------------------------------------------------------
(* Properties.                                                             *)

\* The manager keeps every assumption IncomingNotify makes of one, step by step.
ImplementsNotify == Notify!NotifySpec

\* With the manager in place no connection misses a ringing call.
NoRingLost == Notify!RingReachesAll

\* With the manager in place no connection that was sent a call misses its answer
\* or its end.
NoEndLost == Notify!EndReachesAll

\* With the manager in place no list has a call whose answer or end was announced.
NoStaleList == Notify!NeverListedAgain
============================================================================
