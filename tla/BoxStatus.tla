------------------------------ MODULE BoxStatus ------------------------------
(***************************************************************************)
(* How a client comes to know whether a box is online and in use:          *)
(* boxStatusLoop of internal/web/server.go polls the store and the call    *)
(* manager and sends what has changed since its last poll; a connection    *)
(* gets a snapshot when it opens; and a client that gets either asks       *)
(* GET /api/fxo anew (web/app.js refreshBoxes, MainViewModel.kt).          *)
(*                                                                         *)
(* online and in_use are read one after the other.  Each is represented by *)
(* how often it has changed: it is true when that is odd, and only that    *)
(* can be seen.                                                            *)
(***************************************************************************)
EXTENDS Naturals

CONSTANTS Boxes, Clients,
          Fetches,    \* requests of a client that may be under way together
          Orderly,    \* clients whose requests do not overlap, nor fail
                      \* once the snapshot has been sent
          MaxChange,  \* bound on the changes of each of the two
          None, Gone

ASSUME OrderlyClients == Orderly \subseteq Clients
ASSUME ChangesAreCounted == MaxChange \in Nat

VARIABLES
    boxes,      \* rows of fxo_boxes
    online,     \* number of changes of each box's registration
    inUse,      \* number of changes of Manager.IsBoxInUse
    boxState,   \* Server.boxState, None for a box not in it
    poll,       \* the loop: its step, what it has read, the changes to send
    announced,  \* what was read of a box when a change of it was last sent, or Gone
    conn,       \* each client's connection
    inbox,      \* messages on their way to each client
    fetch,      \* requests of each client
    view        \* what each client shows, None for a box it does not list

truthVars == <<boxes, online, inUse>>
loopVars == <<boxState, poll, announced>>
clientVars == <<conn, inbox, fetch, view>>
boxVars == <<truthVars, loopVars, clientVars>>

Count == 0..MaxChange
Pair == [online : Count, inUse : Count]
Seen == [Boxes -> Pair \cup {None}]

ASSUME NullsAreNoPairs == None \notin Pair /\ Gone \notin Pair /\ None # Gone

BoxStatusTypeOK ==
    /\ boxes \subseteq Boxes
    /\ online \in [Boxes -> Count] /\ inUse \in [Boxes -> Count]
    /\ boxState \in Seen /\ view \in [Clients -> Seen]
    /\ announced \in [Boxes -> Pair \cup {None, Gone}]
    /\ poll \in [at : {"rest", "read", "sending"}, first : BOOLEAN, got : Seen,
                 changes : SUBSET Boxes]
    /\ conn \in [Clients -> [at : {"off", "added", "on", "silent"}, listed : BOOLEAN]]
    /\ inbox \in [Clients -> Nat]
    /\ fetch \in [Clients \X Fetches ->
                     [at : {"idle", "asked", "online", "answered"}, got : Seen]]

Nothing == [b \in Boxes |-> None]

BoxStatusInit ==
    /\ boxes = Boxes
    /\ online = [b \in Boxes |-> 0] /\ inUse = [b \in Boxes |-> 0]
    /\ boxState = Nothing /\ announced = Nothing
    /\ poll = [at |-> "rest", first |-> TRUE, got |-> Nothing, changes |-> {}]
    /\ conn = [c \in Clients |-> [at |-> "off", listed |-> FALSE]]
    /\ inbox = [c \in Clients |-> 0]
    /\ fetch = [f \in Clients \X Fetches |-> [at |-> "idle", got |-> Nothing]]
    /\ view = [c \in Clients |-> Nothing]

\* The rows of all boxes and their registrations, in one query,
ReadRows == [b \in Boxes |-> IF b \in boxes THEN [online |-> online[b], inUse |-> 0] ELSE None]

\* and then IsBoxInUse of each.
IsBoxInUse(got) ==
    [b \in Boxes |-> IF got[b] = None THEN None ELSE [got[b] EXCEPT !.inUse = inUse[b]]]

\* What one can tell apart.
Look(x) == IF x = None THEN x ELSE [online |-> x.online % 2, inUse |-> x.inUse % 2]

---------------------------------------------------------------------------
(* The boxes.                                                              *)

OnlineChanges(b) ==
    /\ b \in boxes /\ online[b] < MaxChange
    /\ online' = [online EXCEPT ![b] = @ + 1]
    /\ UNCHANGED <<boxes, inUse, loopVars, clientVars>>

InUseChanges(b) ==
    /\ b \in boxes /\ inUse[b] < MaxChange
    /\ inUse' = [inUse EXCEPT ![b] = @ + 1]
    /\ UNCHANGED <<boxes, online, loopVars, clientVars>>

BoxDeleted(b) ==
    /\ b \in boxes
    /\ boxes' = boxes \ {b}
    /\ UNCHANGED <<online, inUse, loopVars, clientVars>>

---------------------------------------------------------------------------
(* boxStatusLoop.                                                          *)

\* The query may fail; the next tick tries again.
PollRead ==
    /\ poll.at = "rest"
    /\ poll' = [poll EXCEPT !.at = "read", !.got = ReadRows]
    /\ UNCHANGED <<truthVars, boxState, announced, clientVars>>

\* Boxes that are new, look different, or have gone.
changes(old, new) == {b \in Boxes : Look(old[b]) # Look(new[b])}

\* Mutant: what was read is not kept.
CompareForgets ==
    LET now == IsBoxInUse(poll.got) IN
    /\ poll.at = "read"
    /\ boxState' = IF poll.first THEN now ELSE boxState
    /\ poll' = IF poll.first THEN [poll EXCEPT !.at = "rest", !.first = FALSE]
               ELSE [poll EXCEPT !.at = "sending", !.got = now, !.changes = changes(boxState, now)]
    /\ UNCHANGED <<truthVars, announced, clientVars>>

\* The first poll is only stored.
PollCompare ==
    LET now == IsBoxInUse(poll.got) IN
    /\ poll.at = "read"
    /\ boxState' = now
    /\ poll' = IF poll.first THEN [poll EXCEPT !.at = "rest", !.first = FALSE]
               ELSE [poll EXCEPT !.at = "sending", !.got = now, !.changes = changes(boxState, now)]
    /\ UNCHANGED <<truthVars, announced, clientVars>>

Listed == {c \in Clients : conn[c].listed}

\* One change to every client on the list; where Send fails, the client is taken
\* off it.
Announce(b) ==
    /\ poll.at = "sending" /\ b \in poll.changes
    /\ \E failed \in SUBSET (Listed \ Orderly) :
          /\ inbox' = [c \in Clients |-> IF c \in Listed \ failed THEN inbox[c] + 1 ELSE inbox[c]]
          /\ conn' = [c \in Clients |-> IF c \in failed THEN [conn[c] EXCEPT !.listed = FALSE]
                                        ELSE conn[c]]
    /\ announced' = [announced EXCEPT ![b] = IF poll.got[b] = None THEN Gone ELSE poll.got[b]]
    /\ poll' = [poll EXCEPT !.changes = @ \ {b}]
    /\ UNCHANGED <<truthVars, boxState, fetch, view>>

PollDone ==
    /\ poll.at = "sending" /\ poll.changes = {}
    /\ poll' = [poll EXCEPT !.at = "rest", !.got = Nothing]
    /\ UNCHANGED <<truthVars, boxState, announced, clientVars>>

---------------------------------------------------------------------------
(* Connections.                                                            *)

\* addWSClient comes before the snapshot.
addWSClient(c) ==
    /\ conn[c].at = "off"
    /\ conn' = [conn EXCEPT ![c] = [at |-> "added", listed |-> TRUE]]
    /\ UNCHANGED <<truthVars, loopVars, inbox, fetch, view>>

\* What the snapshot says is not used by the clients; that it comes is.  When its
\* query fails it does not.
sendBoxSnapshot(c) ==
    /\ conn[c].at = "added"
    /\ \/ /\ conn' = [conn EXCEPT ![c].at = "on"]
          /\ inbox' = [inbox EXCEPT ![c] = @ + 1]
       \/ conn' = [conn EXCEPT ![c].at = "silent"] /\ UNCHANGED inbox
    /\ UNCHANGED <<truthVars, loopVars, fetch, view>>

\* The connection closes; the page stays as it is.
removeWSClient(c) ==
    /\ conn[c].at \in {"on", "silent"}
    /\ conn' = [conn EXCEPT ![c] = [at |-> "off", listed |-> FALSE]]
    /\ inbox' = [inbox EXCEPT ![c] = 0]
    /\ UNCHANGED <<truthVars, loopVars, fetch, view>>

---------------------------------------------------------------------------
(* refreshBoxes and handleListFXO.                                         *)

Resting(c) == \A f \in Fetches : fetch[<<c, f>>].at = "idle"

\* Mutant: what is asked for on a message need not have got one.
RefreshUnasked(c, f) ==
    /\ fetch[<<c, f>>].at = "idle"
    /\ inbox' = [inbox EXCEPT ![c] = @ - 1]
    /\ fetch' = [fetch EXCEPT ![<<c, f>>].at = "asked"]
    /\ UNCHANGED <<truthVars, loopVars, conn, view>>

\* Mutant: a message that comes while a request is under way is dropped.
RefreshOnce(c, f) ==
    /\ inbox[c] > 0
    /\ inbox' = [inbox EXCEPT ![c] = @ - 1]
    /\ fetch' = IF Resting(c) THEN [fetch EXCEPT ![<<c, f>>].at = "asked"] ELSE fetch
    /\ UNCHANGED <<truthVars, loopVars, conn, view>>

\* On a message,
refreshBoxes(c, f) ==
    /\ inbox[c] > 0
    /\ fetch[<<c, f>>].at = "idle"
    /\ c \in Orderly => Resting(c)
    /\ inbox' = [inbox EXCEPT ![c] = @ - 1]
    /\ fetch' = [fetch EXCEPT ![<<c, f>>].at = "asked"]
    /\ UNCHANGED <<truthVars, loopVars, conn, view>>

\* or when the user does something that shows the boxes anew.
refreshByUser(c, f) ==
    /\ fetch[<<c, f>>].at = "idle"
    /\ c \in Orderly => Resting(c)
    /\ fetch' = [fetch EXCEPT ![<<c, f>>].at = "asked"]
    /\ UNCHANGED <<truthVars, loopVars, conn, inbox, view>>

\* ListFXOBoxesWithStatusForUser,
FetchRows(c, f) ==
    /\ fetch[<<c, f>>].at = "asked"
    /\ fetch' = [fetch EXCEPT ![<<c, f>>] = [at |-> "online", got |-> ReadRows]]
    /\ UNCHANGED <<truthVars, loopVars, conn, inbox, view>>

\* IsBoxInUse of each,
FetchInUse(c, f) ==
    /\ fetch[<<c, f>>].at = "online"
    /\ fetch' = [fetch EXCEPT ![<<c, f>>] = [at |-> "answered", got |-> IsBoxInUse(@.got)]]
    /\ UNCHANGED <<truthVars, loopVars, conn, inbox, view>>

\* and the answer, which is shown whatever has been shown meanwhile.
FetchShown(c, f) ==
    /\ fetch[<<c, f>>].at = "answered"
    /\ view' = [view EXCEPT ![c] = fetch[<<c, f>>].got]
    /\ fetch' = [fetch EXCEPT ![<<c, f>>] = [at |-> "idle", got |-> Nothing]]
    /\ UNCHANGED <<truthVars, loopVars, conn, inbox>>

\* catch(() => {}).
FetchFails(c, f) ==
    /\ c \in Orderly => conn[c].at \in {"off", "added"}
    /\ fetch[<<c, f>>].at # "idle"
    /\ fetch' = [fetch EXCEPT ![<<c, f>>] = [at |-> "idle", got |-> Nothing]]
    /\ UNCHANGED <<truthVars, loopVars, conn, inbox, view>>

FetchStep(c, f) == FetchRows(c, f) \/ FetchInUse(c, f) \/ FetchShown(c, f)

PollStep == PollRead \/ PollCompare \/ (\E b \in Boxes : Announce(b)) \/ PollDone

BoxStatusNext ==
    \/ \E b \in Boxes : OnlineChanges(b) \/ InUseChanges(b) \/ BoxDeleted(b)
    \/ PollStep
    \/ \E c \in Clients : addWSClient(c) \/ sendBoxSnapshot(c) \/ removeWSClient(c)
    \/ \E c \in Clients, f \in Fetches :
          refreshBoxes(c, f) \/ refreshByUser(c, f) \/ FetchStep(c, f) \/ FetchFails(c, f)

\* The ticker goes on, the query does not fail for ever, messages are read, and a
\* request that has been sent is answered.
BoxStatusFairness ==
    /\ WF_boxVars(PollStep)
    /\ \A c \in Clients : WF_boxVars(sendBoxSnapshot(c))
    /\ \A c \in Clients, f \in Fetches :
          SF_boxVars(refreshBoxes(c, f)) /\ WF_boxVars(FetchStep(c, f))

BoxStatusSpec == BoxStatusInit /\ [][BoxStatusNext]_boxVars /\ BoxStatusFairness

---------------------------------------------------------------------------
AtLeast(x, y) == x.online >= y.online /\ x.inUse >= y.inUse

\* A box that has gone since is not shown.
Shows(c, b) ==
    \/ announced[b] = None \/ view[c][b] = None
    \/ announced[b] # Gone /\ AtLeast(view[c][b], announced[b])

AtRest(c) == conn[c].at = "on" /\ conn[c].listed /\ inbox[c] = 0 /\ Resting(c)

\* A client that has got its snapshot, one answer at a time, and has nothing under
\* way shows each box at least as it was when a change of it was last announced,
\* however the poll, the connection and the requests interleaved.
ShowsAnnounced == \A c \in Orderly, b \in Boxes : AtRest(c) => Shows(c, b)

Truth(b) == IF b \in boxes THEN [online |-> online[b], inUse |-> inUse[b]] ELSE None

\* The loop comes to see every state that lasts, though it mixes what it reads at
\* two moments.
PollCatchesUp ==
    \A b \in Boxes : <>[](Look(boxState[b]) = Look(Truth(b)))

\* A change that is announced is shown by every client on the list.
AnnouncedIsShown ==
    \A c \in Orderly, b \in Boxes :
        (announced[b] # None /\ conn[c].at = "on" /\ conn[c].listed)
        ~> (Shows(c, b) \/ conn[c].at = "off")

---------------------------------------------------------------------------
\* README.md: "live FXO online/offline status updates".  Once nothing changes any
\* more, a client that stays connected shows how things are.
ViewIsLive ==
    \A c \in Orderly, b \in Boxes :
        <>[](conn[c].at = "on") => <>[](Look(view[c][b]) = Look(Truth(b)))

\* README.md: "live FXO online/offline status updates".  What a client shows does
\* not go back to an older state.
NeverGoesBack ==
    [][\A c \in Clients, b \in Boxes :
          view[c][b] # None /\ view'[c][b] # None => AtLeast(view'[c][b], view[c][b])]_boxVars
=============================================================================
