--------------------------- MODULE BoxStatus_proofs ---------------------------
(***************************************************************************)
(* Proofs about the status of the boxes, for every set of boxes, clients   *)
(* and requests that may overlap and every bound on the changes: a client  *)
(* at rest shows each box at least as it was last announced.               *)
(*                                                                         *)
(* Only safety is proved, so that the fairness of BoxStatusSpec is left    *)
(* out.                                                                    *)
(***************************************************************************)
EXTENDS BoxStatus, TLAPS

BoxStatusSafety == BoxStatusInit /\ [][BoxStatusNext]_boxVars

---------------------------------------------------------------------------
(* The invariant.                                                          *)

\* A number of changes that was read is not ahead of the box, and a box that was
\* not there does not come back.
Past(x, b) ==
    /\ x \in Pair => online[b] >= x.online /\ inUse[b] >= x.inUse
    /\ x \in {None, Gone} => b \notin boxes

LoopInPast ==
    \A b \in Boxes : /\ announced[b] # None => Past(announced[b], b)
                     /\ poll.at # "rest" => Past(poll.got[b], b)

\* An orderly client is on the list as long as it is connected, and has one request
\* at a time.
StaysListed == \A c \in Orderly : conn[c].at # "off" => conn[c].listed

OneAtATime ==
    \A c \in Orderly : \A f, g \in Fetches :
        fetch[<<c, f>>].at # "idle" /\ fetch[<<c, g>>].at # "idle" => f = g

\* What was read with the rows of the boxes, and what was read in all, is at least
\* what was announced.
RowsUpTo(x, b) ==
    \/ announced[b] = None \/ x = None
    \/ announced[b] # Gone /\ x.online >= announced[b].online

UpTo(x, b) ==
    \/ announced[b] = None \/ x = None
    \/ announced[b] # Gone /\ AtLeast(x, announced[b])

InTime(r, b) ==
    \/ r.at = "asked"
    \/ r.at = "online" /\ RowsUpTo(r.got[b], b)
    \/ r.at = "answered" /\ UpTo(r.got[b], b)

\* A client that has got its snapshot shows what was announced, or a message waits
\* for it, or a request that is under way will bring it.
Hears(c, b) ==
    \/ inbox[c] > 0
    \/ \E f \in Fetches : InTime(fetch[<<c, f>>], b)
    \/ Resting(c) /\ UpTo(view[c][b], b)

Heard == \A c \in Orderly, b \in Boxes : conn[c].at = "on" => Hears(c, b)

BoxStatusInv == BoxStatusTypeOK /\ LoopInPast /\ StaysListed /\ OneAtATime /\ Heard

USE DEF truthVars, loopVars, clientVars, boxVars

---------------------------------------------------------------------------
(* Types.                                                                  *)

Poll == [at : {"rest", "read", "sending"}, first : BOOLEAN, got : Seen, changes : SUBSET Boxes]
Connection == [at : {"off", "added", "on", "silent"}, listed : BOOLEAN]
Request == [at : {"idle", "asked", "online", "answered"}, got : Seen]

LEMMA NothingSeen == Nothing \in Seen
BY DEF Nothing, Seen

LEMMA ReadRowsSeen == BoxStatusTypeOK => ReadRows \in Seen
<1> SUFFICES ASSUME BoxStatusTypeOK, NEW b \in Boxes, b \in boxes
             PROVE  [online |-> online[b], inUse |-> 0] \in Pair
  BY DEF ReadRows, Seen
<1> QED BY ChangesAreCounted DEF BoxStatusTypeOK, Pair, Count

LEMMA PairInUse ==
    ASSUME NEW x \in Pair, NEW n \in Count
    PROVE  /\ [x EXCEPT !.inUse = n] \in Pair
           /\ [x EXCEPT !.inUse = n].online = x.online
           /\ [x EXCEPT !.inUse = n].inUse = n
BY DEF Pair

LEMMA InUseSeen ==
    ASSUME BoxStatusTypeOK, NEW got \in Seen
    PROVE  IsBoxInUse(got) \in Seen
<1> SUFFICES ASSUME NEW b \in Boxes, got[b] # None
             PROVE  [got[b] EXCEPT !.inUse = inUse[b]] \in Pair
  BY DEF IsBoxInUse, Seen
<1>1. got[b] \in Pair /\ inUse[b] \in Count
  BY DEF Seen, BoxStatusTypeOK
<1> QED BY <1>1, PairInUse

LEMMA PollGoes ==
    ASSUME NEW p \in Poll, NEW at \in {"rest", "read", "sending"}, NEW got \in Seen,
           NEW S \in SUBSET Boxes
    PROVE  /\ [p EXCEPT !.at = at, !.got = got] \in Poll
           /\ [p EXCEPT !.at = at, !.first = FALSE] \in Poll
           /\ [p EXCEPT !.at = at, !.got = got, !.changes = S] \in Poll
           /\ [p EXCEPT !.changes = @ \ S] \in Poll
<1>1. p.changes \ S \in SUBSET Boxes
  BY DEF Poll
<1> QED BY <1>1 DEF Poll

LEMMA ConnectionGoes ==
    ASSUME NEW k \in Connection, NEW at \in {"off", "added", "on", "silent"}
    PROVE  /\ [k EXCEPT !.listed = FALSE] \in Connection
           /\ [k EXCEPT !.at = at] \in Connection
           /\ [k EXCEPT !.at = at].listed = k.listed
           /\ [k EXCEPT !.at = at].at = at
BY DEF Connection

LEMMA RequestGoes ==
    ASSUME NEW r \in Request
    PROVE  /\ [r EXCEPT !.at = "asked"] \in Request
           /\ [r EXCEPT !.at = "asked"].at = "asked"
BY DEF Request

\* The parts of the type, with the records named.
Typed ==
    /\ boxes \subseteq Boxes
    /\ online \in [Boxes -> Count] /\ inUse \in [Boxes -> Count]
    /\ boxState \in Seen /\ view \in [Clients -> Seen]
    /\ announced \in [Boxes -> Pair \cup {None, Gone}]
    /\ poll \in Poll /\ conn \in [Clients -> Connection]
    /\ inbox \in [Clients -> Nat] /\ fetch \in [Clients \X Fetches -> Request]

LEMMA TypedIsType == Typed <=> BoxStatusTypeOK
BY DEF Typed, BoxStatusTypeOK, Poll, Connection, Request

LEMMA BoxInitTyped == BoxStatusInit => Typed
<1> SUFFICES ASSUME BoxStatusInit PROVE Typed
  OBVIOUS
<1>1. poll \in Poll
  BY NothingSeen DEF BoxStatusInit, Poll
<1>2. conn \in [Clients -> Connection]
  BY DEF BoxStatusInit, Connection
<1>3. fetch \in [Clients \X Fetches -> Request]
  BY NothingSeen DEF BoxStatusInit, Request
<1>4. online \in [Boxes -> Count] /\ inUse \in [Boxes -> Count]
  BY ChangesAreCounted DEF BoxStatusInit, Count
<1>5. announced \in [Boxes -> Pair \cup {None, Gone}]
  BY DEF BoxStatusInit, Nothing
<1> QED BY <1>1, <1>2, <1>3, <1>4, <1>5, NothingSeen DEF BoxStatusInit, Typed

LEMMA BoxStepTyped == Typed /\ [BoxStatusNext]_boxVars => Typed'
<1> SUFFICES ASSUME Typed, [BoxStatusNext]_boxVars PROVE Typed'
  OBVIOUS
<1> USE DEF Typed
<1>T. BoxStatusTypeOK
  BY TypedIsType
<1>1. ASSUME NEW b \in Boxes, OnlineChanges(b) \/ InUseChanges(b) \/ BoxDeleted(b)
      PROVE  Typed'
  BY <1>1, ChangesAreCounted DEF OnlineChanges, InUseChanges, BoxDeleted, Count
<1>2. CASE PollRead
  BY <1>2, <1>T, ReadRowsSeen, PollGoes DEF PollRead
<1>3. CASE PollCompare
  <2> DEFINE now == IsBoxInUse(poll.got)
  <2>1. now \in Seen
    BY <1>T, InUseSeen DEF Poll
  <2>2. changes(boxState, now) \in SUBSET Boxes
    BY DEF changes
  <2>3. poll' \in Poll
    BY <1>3, <2>1, <2>2, PollGoes DEF PollCompare
  <2> QED BY <1>3, <2>1, <2>3 DEF PollCompare
<1>4. ASSUME NEW b \in Boxes, Announce(b)
      PROVE  Typed'
  <2>1. inbox' \in [Clients -> Nat]
    BY <1>4 DEF Announce
  <2>2. conn' \in [Clients -> Connection]
    <3>1. PICK failed \in SUBSET Listed :
                  conn' = [c \in Clients |-> IF c \in failed THEN [conn[c] EXCEPT !.listed = FALSE]
                                             ELSE conn[c]]
      BY <1>4 DEF Announce
    <3>2. \A c \in Clients : conn[c] \in Connection /\ [conn[c] EXCEPT !.listed = FALSE] \in Connection
      BY ConnectionGoes
    <3> QED BY <3>1, <3>2
  <2>3. poll' \in Poll
    BY <1>4, PollGoes DEF Announce
  <2>4. poll.got[b] \in Pair \cup {None}
    BY DEF Poll, Seen
  <2> QED BY <1>4, <2>1, <2>2, <2>3, <2>4 DEF Announce
<1>5. CASE PollDone
  BY <1>5, NothingSeen, PollGoes DEF PollDone
<1>6. ASSUME NEW c \in Clients, addWSClient(c) \/ sendBoxSnapshot(c) \/ removeWSClient(c)
      PROVE  Typed'
  <2>1. conn' \in [Clients -> Connection]
    <3>1. [at |-> "added", listed |-> TRUE] \in Connection
          /\ [at |-> "off", listed |-> FALSE] \in Connection
      BY DEF Connection
    <3>2. /\ conn[c] \in Connection
          /\ [conn[c] EXCEPT !.at = "on"] \in Connection
          /\ [conn[c] EXCEPT !.at = "silent"] \in Connection
      BY ConnectionGoes
    <3> QED BY <1>6, <3>1, <3>2 DEF addWSClient, sendBoxSnapshot, removeWSClient
  <2> QED BY <1>6, <2>1 DEF addWSClient, sendBoxSnapshot, removeWSClient
<1>7. ASSUME NEW c \in Clients, NEW f \in Fetches, refreshBoxes(c, f) \/ refreshByUser(c, f)
      PROVE  Typed'
  <2>1. [fetch[<<c, f>>] EXCEPT !.at = "asked"] \in Request
    BY RequestGoes
  <2>2. fetch' \in [Clients \X Fetches -> Request]
    BY <1>7, <2>1 DEF refreshBoxes, refreshByUser
  <2>3. inbox' \in [Clients -> Nat]
    BY <1>7 DEF refreshBoxes, refreshByUser
  <2> QED BY <1>7, <2>2, <2>3 DEF refreshBoxes, refreshByUser
<1>8. ASSUME NEW c \in Clients, NEW f \in Fetches, FetchStep(c, f) \/ FetchFails(c, f)
      PROVE  Typed'
  <2>1. fetch[<<c, f>>].got \in Seen
    BY DEF Request
  <2>2. IsBoxInUse(fetch[<<c, f>>].got) \in Seen /\ ReadRows \in Seen
    BY <2>1, <1>T, InUseSeen, ReadRowsSeen
  <2>3. /\ [at |-> "online", got |-> ReadRows] \in Request
        /\ [at |-> "answered", got |-> IsBoxInUse(fetch[<<c, f>>].got)] \in Request
        /\ [at |-> "idle", got |-> Nothing] \in Request
    BY <2>2, NothingSeen DEF Request
  <2>4. fetch' \in [Clients \X Fetches -> Request]
    BY <1>8, <2>3 DEF FetchStep, FetchRows, FetchInUse, FetchShown, FetchFails
  <2>5. view' \in [Clients -> Seen]
    BY <1>8, <2>1 DEF FetchStep, FetchRows, FetchInUse, FetchShown, FetchFails
  <2> QED BY <1>8, <2>4, <2>5 DEF FetchStep, FetchRows, FetchInUse, FetchShown, FetchFails
<1>9. CASE UNCHANGED boxVars
  BY <1>9
<1> QED BY <1>1, <1>2, <1>3, <1>4, <1>5, <1>6, <1>7, <1>8, <1>9 DEF BoxStatusNext, PollStep

\* What the loop, the connections and the requests keep of the boxes has its type:
\* BoxStatusTypeOK.
THEOREM StatusTyped == BoxStatusSafety => []BoxStatusTypeOK
<1>1. BoxStatusInit => Typed
  BY BoxInitTyped
<1>2. Typed /\ [BoxStatusNext]_boxVars => Typed'
  BY BoxStepTyped
<1>3. Typed => BoxStatusTypeOK
  BY TypedIsType
<1> QED BY <1>1, <1>2, <1>3, PTL DEF BoxStatusSafety

---------------------------------------------------------------------------
(* What the loop has read and announced is past.                           *)

LEMMA TruthGrows ==
    ASSUME Typed, [BoxStatusNext]_boxVars, NEW b \in Boxes
    PROVE  online'[b] >= online[b] /\ inUse'[b] >= inUse[b] /\ (b \in boxes' => b \in boxes)
<1>0. online[b] \in Nat /\ inUse[b] \in Nat
  BY ChangesAreCounted DEF Typed, Count
<1>1. ASSUME NEW d \in Boxes, OnlineChanges(d) \/ InUseChanges(d) \/ BoxDeleted(d)
      PROVE  online'[b] >= online[b] /\ inUse'[b] >= inUse[b] /\ (b \in boxes' => b \in boxes)
  BY <1>0, <1>1 DEF Typed, OnlineChanges, InUseChanges, BoxDeleted
<1>2. UNCHANGED truthVars \/ \E d \in Boxes : OnlineChanges(d) \/ InUseChanges(d) \/ BoxDeleted(d)
  BY DEF BoxStatusNext, PollStep, PollRead, PollCompare, Announce, PollDone, addWSClient,
         sendBoxSnapshot, removeWSClient, refreshBoxes, refreshByUser, FetchStep, FetchRows,
         FetchInUse, FetchShown, FetchFails
<1> QED BY <1>0, <1>1, <1>2

\* What has been read of the rows, and then of the calls, is not ahead of the box.
LEMMA RowsArePast ==
    ASSUME Typed, NEW b \in Boxes
    PROVE  Past(ReadRows[b], b)
<1>1. online[b] \in Nat /\ inUse[b] \in Nat
  BY ChangesAreCounted DEF Typed, Count
<1>2. CASE b \in boxes
  <2>1. [online |-> online[b], inUse |-> 0] \in Pair
    BY <1>1, ChangesAreCounted DEF Typed, Pair, Count
  <2> QED BY <1>1, <1>2, <2>1, NullsAreNoPairs DEF ReadRows, Past
<1>3. CASE b \notin boxes
  BY <1>3, NullsAreNoPairs DEF ReadRows, Past
<1> QED BY <1>2, <1>3

LEMMA InUseIsPast ==
    ASSUME Typed, NEW got \in Seen, NEW b \in Boxes, Past(got[b], b)
    PROVE  Past(IsBoxInUse(got)[b], b)
<1>1. online[b] \in Nat /\ inUse[b] \in Count /\ inUse[b] \in Nat
  BY ChangesAreCounted DEF Typed, Count
<1>2. CASE got[b] = None
  BY <1>2 DEF IsBoxInUse
<1>3. CASE got[b] # None
  <2>1. got[b] \in Pair
    BY <1>3 DEF Seen
  <2>2. IsBoxInUse(got)[b] = [got[b] EXCEPT !.inUse = inUse[b]]
    BY <1>3 DEF IsBoxInUse
  <2>3. /\ IsBoxInUse(got)[b] \in Pair
        /\ IsBoxInUse(got)[b].online = got[b].online
        /\ IsBoxInUse(got)[b].inUse = inUse[b]
    BY <1>1, <2>1, <2>2, PairInUse
  <2> QED BY <1>1, <2>1, <2>3, NullsAreNoPairs DEF Past
<1> QED BY <1>2, <1>3

LEMMA PastStays ==
    ASSUME Typed, Typed', [BoxStatusNext]_boxVars, NEW b \in Boxes,
           NEW x \in Pair \cup {None, Gone}, Past(x, b)
    PROVE  Past(x, b)'
<1>1. online'[b] >= online[b] /\ inUse'[b] >= inUse[b] /\ (b \in boxes' => b \in boxes)
  BY TruthGrows
<1>2. online[b] \in Nat /\ inUse[b] \in Nat /\ online'[b] \in Nat /\ inUse'[b] \in Nat
  BY ChangesAreCounted DEF Typed, Count
<1>3. x \in Pair => x.online \in Nat /\ x.inUse \in Nat
  BY ChangesAreCounted DEF Pair, Count
<1> QED BY <1>1, <1>2, <1>3 DEF Past

LEMMA LoopStep ==
    ASSUME Typed, Typed', LoopInPast, [BoxStatusNext]_boxVars
    PROVE  LoopInPast'
<1> SUFFICES ASSUME NEW b \in Boxes
             PROVE  /\ announced'[b] # None => Past(announced[b], b)'
                    /\ poll'.at # "rest" => Past(poll.got[b], b)'
  BY DEF LoopInPast
<1>0. /\ announced[b] \in Pair \cup {None, Gone}
      /\ poll \in Poll /\ poll.got \in Seen /\ poll.got[b] \in Pair \cup {None}
  BY DEF Typed, Poll, Seen
<1>1. /\ announced[b] # None => Past(announced[b], b)
      /\ poll.at # "rest" => Past(poll.got[b], b)
  BY DEF LoopInPast
<1>2. ASSUME NEW x \in Pair \cup {None, Gone}, Past(x, b)
      PROVE  Past(x, b)'
  BY <1>2, PastStays
<1>3. CASE UNCHANGED <<announced, poll>>
  BY <1>0, <1>1, <1>2, <1>3 DEF Past
<1>4. CASE PollRead
  <2>1. Past(ReadRows[b], b)
    BY RowsArePast
  <2>2. poll'.got = ReadRows /\ UNCHANGED <<truthVars, announced>>
    BY <1>0, <1>4 DEF PollRead, Poll
  <2> QED BY <1>1, <2>1, <2>2 DEF Past
<1>5. CASE PollCompare
  <2>1. poll.at = "read" /\ UNCHANGED <<truthVars, announced>>
    BY <1>5 DEF PollCompare
  <2>2. Past(IsBoxInUse(poll.got)[b], b)
    BY <1>0, <1>1, <2>1, InUseIsPast
  <2>3. poll'.at = "rest" \/ poll'.got = IsBoxInUse(poll.got)
    BY <1>0, <1>5 DEF PollCompare, Poll
  <2> QED BY <1>1, <2>1, <2>2, <2>3 DEF Past
<1>6. ASSUME NEW d \in Boxes, Announce(d)
      PROVE  /\ announced'[b] # None => Past(announced[b], b)'
             /\ poll'.at # "rest" => Past(poll.got[b], b)'
  <2>1. /\ poll.at = "sending" /\ poll'.at = poll.at /\ poll'.got = poll.got
        /\ UNCHANGED truthVars
    BY <1>0, <1>6 DEF Announce, Poll
  <2>2. CASE d # b
    <3>1. announced'[b] = announced[b]
      BY <1>6, <2>2 DEF Announce, Typed
    <3> QED BY <1>1, <2>1, <3>1 DEF Past
  <2>3. CASE d = b
    <3>1. announced'[b] = IF poll.got[b] = None THEN Gone ELSE poll.got[b]
      BY <1>6, <2>3 DEF Announce, Typed
    <3> QED BY <1>0, <1>1, <2>1, <3>1, NullsAreNoPairs DEF Past
  <2> QED BY <2>2, <2>3
<1>7. CASE PollDone
  BY <1>0, <1>1, <1>7 DEF PollDone, Poll, Past
<1> QED
  BY <1>3, <1>4, <1>5, <1>6, <1>7
  DEF BoxStatusNext, PollStep, OnlineChanges, InUseChanges, BoxDeleted, addWSClient,
      sendBoxSnapshot, removeWSClient, refreshBoxes, refreshByUser, FetchStep, FetchRows,
      FetchInUse, FetchShown, FetchFails

---------------------------------------------------------------------------
(* Orderly clients.                                                        *)

LEMMA ListedStep ==
    ASSUME Typed, StaysListed, [BoxStatusNext]_boxVars
    PROVE  StaysListed'
<1> SUFFICES ASSUME NEW c \in Orderly, conn'[c].at # "off"
             PROVE  conn'[c].listed
  BY DEF StaysListed
<1>0. c \in Clients /\ conn[c] \in Connection
  BY OrderlyClients DEF Typed
<1>1. conn[c].at # "off" => conn[c].listed
  BY DEF StaysListed
<1>2. CASE UNCHANGED conn
  BY <1>1, <1>2
<1>3. ASSUME NEW b \in Boxes, Announce(b)
      PROVE  conn'[c].listed
  BY <1>0, <1>1, <1>3 DEF Announce
<1>4. ASSUME NEW d \in Clients, addWSClient(d) \/ sendBoxSnapshot(d) \/ removeWSClient(d)
      PROVE  conn'[c].listed
  <2>1. CASE d # c
    <3>1. conn'[c] = conn[c]
      BY <1>0, <1>4, <2>1 DEF Typed, addWSClient, sendBoxSnapshot, removeWSClient
    <3> QED BY <1>1, <3>1
  <2>2. CASE d = c
    BY <1>0, <1>1, <1>4, <2>2 DEF Typed, Connection, addWSClient, sendBoxSnapshot, removeWSClient
  <2> QED BY <2>1, <2>2
<1> QED
  BY <1>2, <1>3, <1>4
  DEF BoxStatusNext, PollStep, PollRead, PollCompare, PollDone, OnlineChanges, InUseChanges,
      BoxDeleted, refreshBoxes, refreshByUser, FetchStep, FetchRows, FetchInUse, FetchShown,
      FetchFails

\* A step of a request changes that one, which is asked for only where none is.
LEMMA RequestsApart ==
    ASSUME Typed, [BoxStatusNext]_boxVars, NEW c \in Clients, NEW g \in Fetches,
           fetch'[<<c, g>>].at # "idle"
    PROVE  \/ fetch[<<c, g>>].at # "idle"
           \/ /\ c \in Orderly => Resting(c)
              /\ \A f \in Fetches : f # g => fetch'[<<c, f>>] = fetch[<<c, f>>]
<1>1. ASSUME NEW d \in Clients, NEW f \in Fetches, refreshBoxes(d, f) \/ refreshByUser(d, f)
      PROVE  \/ fetch[<<c, g>>].at # "idle"
             \/ /\ c \in Orderly => Resting(c)
                /\ \A h \in Fetches : h # g => fetch'[<<c, h>>] = fetch[<<c, h>>]
  <2>1. fetch' = [fetch EXCEPT ![<<d, f>>].at = "asked"]
    BY <1>1 DEF refreshBoxes, refreshByUser
  <2>2. CASE d = c /\ f = g
    BY <1>1, <2>1, <2>2 DEF Typed, refreshBoxes, refreshByUser
  <2>3. CASE ~(d = c /\ f = g)
    BY <2>1, <2>3 DEF Typed
  <2> QED BY <2>2, <2>3
<1>2. ASSUME NEW d \in Clients, NEW f \in Fetches, FetchStep(d, f) \/ FetchFails(d, f)
      PROVE  fetch[<<c, g>>].at # "idle"
  <2>1. fetch[<<d, f>>].at # "idle"
    BY <1>2 DEF FetchStep, FetchRows, FetchInUse, FetchShown, FetchFails
  <2>2. CASE d = c /\ f = g
    BY <2>1, <2>2
  <2>3. CASE ~(d = c /\ f = g)
    BY <1>2, <2>3 DEF Typed, FetchStep, FetchRows, FetchInUse, FetchShown, FetchFails
  <2> QED BY <2>2, <2>3
<1>3. CASE UNCHANGED fetch
  BY <1>3
<1> QED
  BY <1>1, <1>2, <1>3
  DEF BoxStatusNext, PollStep, PollRead, PollCompare, PollDone, Announce, OnlineChanges,
      InUseChanges, BoxDeleted, addWSClient, sendBoxSnapshot, removeWSClient

LEMMA OneStep ==
    ASSUME Typed, OneAtATime, [BoxStatusNext]_boxVars
    PROVE  OneAtATime'
<1> SUFFICES ASSUME NEW c \in Orderly, NEW f \in Fetches, NEW g \in Fetches,
                    fetch'[<<c, f>>].at # "idle", fetch'[<<c, g>>].at # "idle", f # g
             PROVE  FALSE
  BY DEF OneAtATime
<1>0. c \in Clients
  BY OrderlyClients
<1>1. fetch[<<c, f>>].at # "idle" => fetch[<<c, g>>].at = "idle"
  BY DEF OneAtATime
<1>2. CASE fetch[<<c, f>>].at = "idle"
  BY <1>0, <1>2, RequestsApart DEF Resting
<1>3. CASE fetch[<<c, g>>].at = "idle"
  BY <1>0, <1>3, RequestsApart DEF Resting
<1> QED BY <1>1, <1>2, <1>3

---------------------------------------------------------------------------
(* What has been announced is shown, or will be.                           *)

\* What is read now is at least what was announced.
LEMMA RowsInTime ==
    ASSUME Typed, LoopInPast, NEW b \in Boxes
    PROVE  RowsUpTo(ReadRows[b], b)
<1>1. announced[b] # None => Past(announced[b], b)
  BY DEF LoopInPast
<1>2. announced[b] \in Pair \cup {None, Gone}
  BY DEF Typed
<1>3. CASE b \notin boxes
  BY <1>3 DEF ReadRows, RowsUpTo
<1>4. CASE b \in boxes /\ announced[b] # None
  <2>1. announced[b] \in Pair /\ online[b] >= announced[b].online
    BY <1>1, <1>2, <1>4 DEF Past
  <2> QED BY <1>4, <2>1, NullsAreNoPairs DEF ReadRows, RowsUpTo
<1> QED BY <1>3, <1>4 DEF RowsUpTo

LEMMA InUseInTime ==
    ASSUME Typed, LoopInPast, NEW got \in Seen, NEW b \in Boxes, RowsUpTo(got[b], b)
    PROVE  UpTo(IsBoxInUse(got)[b], b)
<1>1. announced[b] # None => Past(announced[b], b)
  BY DEF LoopInPast
<1>2. announced[b] \in Pair \cup {None, Gone} /\ inUse[b] \in Count
  BY DEF Typed
<1>3. CASE got[b] = None
  BY <1>3 DEF IsBoxInUse, UpTo
<1>4. CASE got[b] # None /\ announced[b] # None
  <2>1. announced[b] \in Pair /\ got[b].online >= announced[b].online
    BY <1>2, <1>4 DEF RowsUpTo
  <2>2. inUse[b] >= announced[b].inUse
    BY <1>1, <1>4, <2>1 DEF Past
  <2>3. got[b] \in Pair
    BY <1>4 DEF Seen
  <2>4. /\ IsBoxInUse(got)[b].online = got[b].online
        /\ IsBoxInUse(got)[b].inUse = inUse[b]
    BY <1>2, <1>4, <2>3, PairInUse DEF IsBoxInUse
  <2>5. announced[b] # Gone
    BY <2>1, NullsAreNoPairs
  <2> QED BY <2>1, <2>2, <2>4, <2>5 DEF UpTo, AtLeast
<1> QED BY <1>3, <1>4 DEF UpTo

\* What does not touch a client leaves what it has heard.
LEMMA HearsStill ==
    ASSUME NEW c \in Clients, NEW b \in Boxes, Hears(c, b),
           announced' = announced, inbox'[c] = inbox[c], view'[c] = view[c],
           \A f \in Fetches : fetch'[<<c, f>>] = fetch[<<c, f>>]
    PROVE  Hears(c, b)'
BY DEF Hears, InTime, RowsUpTo, UpTo, Resting

LEMMA HeardOfFetch ==
    ASSUME Typed, LoopInPast, OneAtATime, NEW c \in Orderly, NEW b \in Boxes, NEW g \in Fetches,
           conn[c].at = "on", Hears(c, b), FetchStep(c, g)
    PROVE  Hears(c, b)'
<1>0. c \in Clients
  BY OrderlyClients
<1>1. /\ fetch[<<c, g>>] \in Request /\ fetch[<<c, g>>].got \in Seen
      /\ fetch[<<c, g>>].at # "idle"
  BY <1>0 DEF Typed, Request, FetchStep, FetchRows, FetchInUse, FetchShown
<1>2. inbox' = inbox /\ announced' = announced
  BY DEF FetchStep, FetchRows, FetchInUse, FetchShown
<1>3. CASE inbox[c] > 0
  BY <1>2, <1>3 DEF Hears
<1>4. CASE ~(inbox[c] > 0)
  <2>1. InTime(fetch[<<c, g>>], b)
    <3>1. PICK f \in Fetches : InTime(fetch[<<c, f>>], b)
      BY <1>1, <1>4 DEF Hears, Resting
    <3>2. f = g
      BY <1>1, <3>1 DEF InTime, OneAtATime
    <3> QED BY <3>1, <3>2
  <2>2. CASE FetchRows(c, g)
    <3>1. fetch'[<<c, g>>] = [at |-> "online", got |-> ReadRows]
      BY <1>0, <2>2 DEF FetchRows, Typed
    <3>2. RowsUpTo(ReadRows[b], b)
      BY RowsInTime
    <3> QED BY <1>2, <3>1, <3>2 DEF Hears, InTime, RowsUpTo
  <2>3. CASE FetchInUse(c, g)
    <3>1. fetch'[<<c, g>>] = [at |-> "answered", got |-> IsBoxInUse(fetch[<<c, g>>].got)]
      BY <1>0, <2>3 DEF FetchInUse, Typed
    <3>2. RowsUpTo(fetch[<<c, g>>].got[b], b)
      BY <2>1, <2>3 DEF FetchInUse, InTime
    <3>3. UpTo(IsBoxInUse(fetch[<<c, g>>].got)[b], b)
      BY <1>1, <3>2, InUseInTime
    <3> QED BY <1>2, <3>1, <3>3 DEF Hears, InTime, UpTo
  <2>4. CASE FetchShown(c, g)
    <3>1. /\ view'[c] = fetch[<<c, g>>].got
          /\ fetch' = [fetch EXCEPT ![<<c, g>>] = [at |-> "idle", got |-> Nothing]]
      BY <1>0, <2>4 DEF FetchShown, Typed
    <3>2. UpTo(fetch[<<c, g>>].got[b], b)
      BY <2>1, <2>4 DEF FetchShown, InTime
    <3>3. \A f \in Fetches : fetch'[<<c, f>>].at = "idle"
      BY <1>0, <1>1, <3>1 DEF OneAtATime, Typed
    <3> QED BY <1>2, <3>1, <3>2, <3>3 DEF Hears, UpTo, Resting
  <2> QED BY <2>2, <2>3, <2>4 DEF FetchStep
<1> QED BY <1>3, <1>4

LEMMA HeardStep ==
    ASSUME Typed, LoopInPast, StaysListed, OneAtATime, Heard, [BoxStatusNext]_boxVars
    PROVE  Heard'
<1> SUFFICES ASSUME NEW c \in Orderly, NEW b \in Boxes, conn'[c].at = "on"
             PROVE  Hears(c, b)'
  BY DEF Heard
<1>0. c \in Clients /\ conn[c] \in Connection /\ inbox[c] \in Nat
  BY OrderlyClients DEF Typed
<1>1. conn[c].at = "on" => Hears(c, b)
  BY DEF Heard
<1>2. CASE UNCHANGED <<announced, clientVars>>
  BY <1>0, <1>1, <1>2, HearsStill
<1>3. ASSUME NEW d \in Boxes, Announce(d)
      PROVE  Hears(c, b)'
  <2>1. conn'[c] = conn[c]
    BY <1>0, <1>3 DEF Announce
  <2>2. c \in Listed
    BY <1>0, <2>1 DEF StaysListed, Listed
  <2>3. inbox'[c] = inbox[c] + 1
    BY <1>0, <1>3, <2>2 DEF Announce
  <2> QED BY <1>0, <2>3 DEF Hears
<1>4. ASSUME NEW d \in Clients, addWSClient(d) \/ sendBoxSnapshot(d) \/ removeWSClient(d)
      PROVE  Hears(c, b)'
  <2>1. UNCHANGED <<announced, fetch, view>>
    BY <1>4 DEF addWSClient, sendBoxSnapshot, removeWSClient
  <2>2. CASE d # c
    <3>1. conn'[c] = conn[c] /\ inbox'[c] = inbox[c]
      BY <1>0, <1>4, <2>2 DEF Typed, addWSClient, sendBoxSnapshot, removeWSClient
    <3> QED BY <1>0, <1>1, <2>1, <3>1, HearsStill
  <2>3. CASE d = c
    <3>1. sendBoxSnapshot(c) /\ conn' = [conn EXCEPT ![c].at = "on"]
      BY <1>0, <1>4, <2>3 DEF Typed, Connection, addWSClient, sendBoxSnapshot, removeWSClient
    <3>2. inbox'[c] = inbox[c] + 1
      BY <1>0, <3>1 DEF Typed, Connection, sendBoxSnapshot
    <3> QED BY <1>0, <3>2 DEF Hears
  <2> QED BY <2>2, <2>3
<1>5. ASSUME NEW d \in Clients, NEW g \in Fetches, refreshBoxes(d, g) \/ refreshByUser(d, g)
      PROVE  Hears(c, b)'
  <2>1. UNCHANGED <<announced, conn, view>>
    BY <1>5 DEF refreshBoxes, refreshByUser
  <2>2. CASE d # c
    <3>1. inbox'[c] = inbox[c] /\ \A f \in Fetches : fetch'[<<c, f>>] = fetch[<<c, f>>]
      BY <1>0, <1>5, <2>2 DEF Typed, refreshBoxes, refreshByUser
    <3> QED BY <1>0, <1>1, <2>1, <3>1, HearsStill
  <2>3. CASE d = c
    <3>1. fetch'[<<c, g>>].at = "asked"
      BY <1>0, <1>5, <2>3 DEF Typed, Request, refreshBoxes, refreshByUser
    <3> QED BY <3>1 DEF Hears, InTime
  <2> QED BY <2>2, <2>3
<1>6. ASSUME NEW d \in Clients, NEW g \in Fetches, FetchStep(d, g) \/ FetchFails(d, g)
      PROVE  Hears(c, b)'
  <2>1. UNCHANGED <<announced, conn, inbox>>
    BY <1>6 DEF FetchStep, FetchRows, FetchInUse, FetchShown, FetchFails
  <2>2. CASE d # c
    <3>1. view'[c] = view[c] /\ \A f \in Fetches : fetch'[<<c, f>>] = fetch[<<c, f>>]
      BY <1>0, <1>6, <2>2 DEF Typed, FetchStep, FetchRows, FetchInUse, FetchShown, FetchFails
    <3> QED BY <1>0, <1>1, <2>1, <3>1, HearsStill
  <2>3. CASE d = c
    <3>1. FetchStep(c, g)
      BY <1>6, <2>1, <2>3 DEF FetchFails
    <3> QED BY <1>1, <2>1, <3>1, HeardOfFetch
  <2> QED BY <2>2, <2>3
<1> QED
  BY <1>2, <1>3, <1>4, <1>5, <1>6
  DEF BoxStatusNext, PollStep, PollRead, PollCompare, PollDone, OnlineChanges, InUseChanges,
      BoxDeleted

LEMMA BoxInitInv == BoxStatusInit => BoxStatusInv
<1> SUFFICES ASSUME BoxStatusInit PROVE BoxStatusInv
  OBVIOUS
<1>1. BoxStatusTypeOK
  BY BoxInitTyped, TypedIsType
<1>2. LoopInPast
  BY DEF BoxStatusInit, LoopInPast, Nothing
<1>3. StaysListed /\ Heard
  BY OrderlyClients DEF BoxStatusInit, StaysListed, Heard
<1>4. OneAtATime
  BY OrderlyClients DEF BoxStatusInit, OneAtATime
<1> QED BY <1>1, <1>2, <1>3, <1>4 DEF BoxStatusInv

LEMMA BoxStepInv == BoxStatusInv /\ [BoxStatusNext]_boxVars => BoxStatusInv'
<1> SUFFICES ASSUME BoxStatusInv, [BoxStatusNext]_boxVars PROVE BoxStatusInv'
  OBVIOUS
<1>1. Typed /\ LoopInPast /\ StaysListed /\ OneAtATime /\ Heard
  BY TypedIsType DEF BoxStatusInv
<1>2. Typed'
  BY <1>1, BoxStepTyped
<1>3. BoxStatusTypeOK'
  BY <1>2, TypedIsType, PTL
<1>4. LoopInPast'
  BY <1>1, <1>2, LoopStep
<1>5. StaysListed' /\ OneAtATime' /\ Heard'
  BY <1>1, ListedStep, OneStep, HeardStep
<1> QED BY <1>3, <1>4, <1>5 DEF BoxStatusInv

\* A client that takes part in order and has nothing under way shows each box at
\* least as it was last announced: ShowsAnnounced.
THEOREM AnnouncedIsShownAtRest == BoxStatusSafety => []ShowsAnnounced
<1>1. BoxStatusInv => ShowsAnnounced
  <2> SUFFICES ASSUME BoxStatusInv, NEW c \in Orderly, NEW b \in Boxes, AtRest(c)
               PROVE  Shows(c, b)
    BY DEF ShowsAnnounced
  <2>1. Hears(c, b)
    BY DEF BoxStatusInv, Heard, AtRest
  <2>2. ~(inbox[c] > 0) /\ \A f \in Fetches : ~InTime(fetch[<<c, f>>], b)
    BY DEF AtRest, Resting, InTime
  <2> QED BY <2>1, <2>2 DEF Hears, UpTo, Shows
<1> QED BY <1>1, BoxInitInv, BoxStepInv, PTL DEF BoxStatusSafety

\* The same of the behaviours with the fairness of the loop and the requests.
COROLLARY AnnouncedIsShownFairly == BoxStatusSpec => []BoxStatusTypeOK /\ []ShowsAnnounced
<1>1. BoxStatusSpec => BoxStatusSafety
  BY DEF BoxStatusSpec, BoxStatusSafety
<1> QED BY <1>1, StatusTyped, AnnouncedIsShownAtRest, PTL

=============================================================================
