---------------------------- MODULE Permissions ----------------------------
(***************************************************************************)
(* Users, boxes and what a user may do with a box: the handlers of the     *)
(* administration pages of internal/web/server.go and the statements of    *)
(* internal/store/store.go behind them, with the rows a dial leaves in     *)
(* call_logs.                                                              *)
(*                                                                         *)
(* SQLite executes one statement at a time and enforces the foreign keys;  *)
(* a handler that needs several can be overtaken between two.              *)
(***************************************************************************)
EXTENDS Naturals

CONSTANTS Users,      \* ids of users; AUTOINCREMENT gives none out twice
          Boxes,      \* ids of boxes
          Admins,     \* users with that role
          Requests,   \* permission settings under way
          Edits,      \* changes of a box under way
          Dials,
          MaxSecret,  \* bound on the SIP passwords ever chosen
          None

ASSUME AdminsAreUsers == Admins \subseteq Users
ASSUME SecretsAreCounted == MaxSecret \in Nat

VARIABLES
    users, boxes,  \* rows of users and fxo_boxes
    persons,       \* how many people each id was given to
    boxIds,        \* ids of fxo_boxes that were given out
    secret,        \* sip_password of each box
    secrets,       \* passwords chosen so far
    perm,          \* rows of user_fxo_permissions
    logs,          \* rows of call_logs
    request, edit, dial,
    grants,        \* what an administrator last set
    wishes         \* what the user last asked for

rowVars == <<users, boxes, persons, boxIds, secret, secrets, perm, logs>>
historyVars == <<grants, wishes>>
permVars == <<rowVars, request, edit, dial, historyVars>>

Grant == [can_dial : BOOLEAN, can_receive : BOOLEAN]
Row == [can_dial : BOOLEAN, can_receive : BOOLEAN, notify_incoming : BOOLEAN]
ASSUME NoneIsNoRow == None \notin Row

Log == [dial : Dials, user_id : Users, box : Boxes, open : BOOLEAN, person : Nat]

PermTypeOK ==
    /\ users \subseteq Users /\ boxes \subseteq Boxes /\ boxIds \subseteq Boxes
    /\ persons \in [Users -> Nat]
    /\ secret \in [Boxes -> 0..MaxSecret] /\ secrets \in 0..MaxSecret
    /\ perm \in [Users \X Boxes -> Row \cup {None}]
    /\ logs \subseteq Log
    /\ request \in [Requests -> [at : {"idle", "asked", "userFound", "boxFound"},
                                 user : Users, box : Boxes, grant : Grant]]
    /\ edit \in [Edits -> [at : {"idle", "read"}, box : Boxes, asked : 0..MaxSecret \cup {None},
                           old : 0..MaxSecret]]
    /\ dial \in [Dials -> [at : {"idle", "allowed", "found", "up", "over"}, user : Users,
                           box : Boxes, person : Nat]]
    /\ grants \in [Users \X Boxes -> Grant] /\ wishes \in [Users \X Boxes -> BOOLEAN]

Nothing == [can_dial |-> FALSE, can_receive |-> FALSE]

PermInit ==
    /\ users = Admins /\ boxes = {} /\ boxIds = {}
    /\ persons = [u \in Users |-> IF u \in Admins THEN 1 ELSE 0]
    /\ secret = [b \in Boxes |-> 0] /\ secrets = 0
    /\ perm = [p \in Users \X Boxes |-> None]
    /\ logs = {}
    /\ request \in [Requests -> [at : {"idle"}, user : Admins, box : Boxes, grant : {Nothing}]]
    /\ edit \in [Edits -> [at : {"idle"}, box : Boxes, asked : {None}, old : {0}]]
    /\ dial \in [Dials -> [at : {"idle"}, user : Admins, box : Boxes, person : {0}]]
    /\ grants = [p \in Users \X Boxes |-> Nothing]
    /\ wishes = [p \in Users \X Boxes |-> TRUE]

---------------------------------------------------------------------------
(* What the rows allow.                                                    *)

userHasFXOPermission(u, b) == perm[<<u, b>>] # None /\ perm[<<u, b>>].can_dial

UserCanDialFXO(u, b) == u \in Admins \/ userHasFXOPermission(u, b)

\* LEFT JOIN: an administrator without a row, or any user whose row has both.
ListUsersForIncomingFXO(b) ==
    {u \in users : LET p == perm[<<u, b>>] IN
        /\ u \in Admins \/ (p # None /\ p.can_receive)
        /\ p = None \/ p.notify_incoming}

ListFXOBoxesForUser(u) ==
    {b \in boxes : u \in Admins \/ (perm[<<u, b>>] # None /\ perm[<<u, b>>].can_dial)}

---------------------------------------------------------------------------
(* Users and boxes.                                                        *)

UserAdded(u) ==
    /\ users' = users \cup {u}
    /\ persons' = [persons EXCEPT ![u] = @ + 1]
    /\ UNCHANGED <<boxes, boxIds, secret, secrets, perm, logs, request, edit, dial, historyVars>>

CreateUser(u) == persons[u] = 0 /\ UserAdded(u)

\* One transaction; permissions go by their foreign key.
DeleteUser(u) ==
    /\ u \in users
    /\ users' = users \ {u}
    /\ perm' = [p \in Users \X Boxes |-> IF p[1] = u THEN None ELSE perm[p]]
    /\ logs' = {l \in logs : l.user_id # u}
    /\ UNCHANGED <<boxes, persons, boxIds, secret, secrets, request, edit, dial, historyVars>>

CreateFXOBox(b) ==
    /\ b \notin boxIds /\ secrets < MaxSecret
    /\ boxes' = boxes \cup {b} /\ boxIds' = boxIds \cup {b}
    /\ secrets' = secrets + 1
    /\ secret' = [secret EXCEPT ![b] = secrets']
    /\ UNCHANGED <<users, persons, perm, logs, request, edit, dial, historyVars>>

\* Permissions and call logs go by their foreign keys.
DeleteFXOBox(b) ==
    /\ b \in boxes
    /\ boxes' = boxes \ {b}
    /\ perm' = [p \in Users \X Boxes |-> IF p[2] = b THEN None ELSE perm[p]]
    /\ logs' = {l \in logs : l.box # b}
    /\ UNCHANGED <<users, persons, boxIds, secret, secrets, request, edit, dial, historyVars>>

\* handleUpdateFXO reads the box, for what was left empty,
UpdateFXORead(e, b, asked) ==
    /\ edit[e].at = "idle" /\ b \in boxes
    /\ secrets' = IF asked = None THEN secrets ELSE asked
    /\ edit' = [edit EXCEPT ![e] = [at |-> "read", box |-> b, asked |-> asked, old |-> secret[b]]]
    /\ UNCHANGED <<users, boxes, persons, boxIds, secret, perm, logs, request, dial, historyVars>>

\* and writes all of it, or finds no box any more, 404.
UpdateFXOBox(e) ==
    LET b == edit[e].box IN
    /\ edit[e].at = "read"
    /\ secret' = IF b \notin boxes THEN secret
                 ELSE [secret EXCEPT ![b] = IF edit[e].asked = None THEN edit[e].old ELSE edit[e].asked]
    /\ edit' = [edit EXCEPT ![e].at = "idle"]
    /\ UNCHANGED <<users, boxes, persons, boxIds, secrets, perm, logs, request, dial, historyVars>>

---------------------------------------------------------------------------
(* The two writers of a permission.                                        *)

RequestAt(r, at) ==
    /\ request' = [request EXCEPT ![r].at = at]
    /\ UNCHANGED <<rowVars, edit, dial, historyVars>>

\* handleSetFXOPermission,
SetPermissionAsked(r, u, b, grant) ==
    /\ request[r].at = "idle"
    /\ persons[u] > 0 /\ b \in boxIds
    /\ request' = [request EXCEPT ![r] = [at |-> "asked", user |-> u, box |-> b, grant |-> grant]]
    /\ UNCHANGED <<rowVars, edit, dial, historyVars>>

\* GetUserCredentialByID, or 404,
SetPermissionUser(r) ==
    /\ request[r].at = "asked"
    /\ RequestAt(r, IF request[r].user \in users THEN "userFound" ELSE "idle")

\* GetFXOBoxByID, or 404,
SetPermissionBox(r) ==
    /\ request[r].at = "userFound"
    /\ RequestAt(r, IF request[r].box \in boxes THEN "boxFound" ELSE "idle")

Granted(r, row) ==
    LET p == <<request[r].user, request[r].box>> IN
    /\ perm' = [perm EXCEPT ![p] = row]
    /\ grants' = [grants EXCEPT ![p] = request[r].grant]
    /\ request' = [request EXCEPT ![r].at = "idle"]
    /\ UNCHANGED <<users, boxes, persons, boxIds, secret, secrets, logs, edit, dial, wishes>>

Merged(r, notify) ==
    [can_dial |-> request[r].grant.can_dial, can_receive |-> request[r].grant.can_receive,
     notify_incoming |-> notify]

Both(r) == request[r].user \in users /\ request[r].box \in boxes

\* Mutant: the checks stand in for the foreign keys.
SetPermissionUnkeyed(r) == request[r].at = "boxFound" /\ Granted(r, Merged(r, TRUE))

\* Mutant: the row is replaced.
SetPermissionReplaces(r) ==
    /\ request[r].at = "boxFound"
    /\ IF Both(r) THEN Granted(r, Merged(r, TRUE)) ELSE RequestAt(r, "idle")

\* Mutant: the row has no notify_incoming.
SetPermissionShort(r) ==
    /\ request[r].at = "boxFound"
    /\ IF Both(r) THEN Granted(r, request[r].grant) ELSE RequestAt(r, "idle")

\* and the upsert, which keeps notify_incoming; where a foreign key fails, 500.
SetUserFXOPermission(r) ==
    LET old == perm[<<request[r].user, request[r].box>>] IN
    /\ request[r].at = "boxFound"
    /\ IF Both(r) THEN Granted(r, Merged(r, old = None \/ old.notify_incoming))
       ELSE RequestAt(r, "idle")

\* handleSetFXONotifyPreference, by any user for any box; the row it may make
\* permits nothing.
SetUserNotifyPreference(u, b, notify) ==
    LET p == <<u, b>> IN
    /\ u \in users /\ b \in boxes
    /\ perm' = [perm EXCEPT ![p] =
                   IF @ = None
                   THEN [can_dial |-> FALSE, can_receive |-> FALSE, notify_incoming |-> notify]
                   ELSE [@ EXCEPT !.notify_incoming = notify]]
    /\ wishes' = [wishes EXCEPT ![p] = notify]
    /\ UNCHANGED <<users, boxes, persons, boxIds, secret, secrets, logs, request, edit, dial, grants>>

---------------------------------------------------------------------------
(* A dial: handleWS and StartCall, as far as these tables go.              *)

DialGoes(d, from, to) ==
    /\ dial[d].at = from
    /\ dial' = [dial EXCEPT ![d].at = to]
    /\ UNCHANGED <<users, boxes, persons, boxIds, secret, secrets, perm, request, edit, historyVars>>

\* The access token still tells the id and the role of a user who is removed.
DialAllowed(d, u, b) ==
    /\ dial[d].at = "idle"
    /\ persons[u] > 0 /\ b \in boxIds
    /\ UserCanDialFXO(u, b)
    /\ \E n \in 1..persons[u] :
          dial' = [dial EXCEPT ![d] = [at |-> "allowed", user |-> u, box |-> b, person |-> n]]
    /\ UNCHANGED <<rowVars, request, edit, historyVars>>

\* StartCall's GetFXOBoxByID,
DialFindsBox(d) ==
    /\ DialGoes(d, "allowed", IF dial[d].box \in boxes THEN "found" ELSE "over")
    /\ UNCHANGED logs

\* CreateCallLog, whose error is ignored: user_id is no foreign key.
CreateCallLog(d) ==
    /\ DialGoes(d, "found", "up")
    /\ logs' = IF dial[d].box \notin boxes THEN logs
               ELSE logs \cup {[dial |-> d, user_id |-> dial[d].user, box |-> dial[d].box,
                                open |-> TRUE, person |-> dial[d].person]}

\* The call is over or has failed.
EndCallLog(d) ==
    /\ DialGoes(d, "up", "over")
    /\ logs' = {IF l.dial = d THEN [l EXCEPT !.open = FALSE] ELSE l : l \in logs}

PermNext ==
    \/ \E u \in Users : CreateUser(u) \/ DeleteUser(u)
    \/ \E b \in Boxes : CreateFXOBox(b) \/ DeleteFXOBox(b)
    \/ \E e \in Edits :
          \/ \E b \in Boxes, asked \in ({secrets + 1} \cap 0..MaxSecret) \cup {None} :
                UpdateFXORead(e, b, asked)
          \/ UpdateFXOBox(e)
    \/ \E r \in Requests :
          \/ \E u \in Users, b \in Boxes, grant \in Grant : SetPermissionAsked(r, u, b, grant)
          \/ SetPermissionUser(r) \/ SetPermissionBox(r) \/ SetUserFXOPermission(r)
    \/ \E u \in Users, b \in Boxes, notify \in BOOLEAN : SetUserNotifyPreference(u, b, notify)
    \/ \E d \in Dials :
          \/ \E u \in Users, b \in Boxes : DialAllowed(d, u, b)
          \/ DialFindsBox(d) \/ CreateCallLog(d) \/ EndCallLog(d)

PermSpec == PermInit /\ [][PermNext]_permVars

---------------------------------------------------------------------------
\* No permission and no call log outlives the box it is about, and no permission
\* its user, whatever is removed between the checks of a handler and its write; the
\* calls a user is shown are that person's own, although a dial that was under way
\* while its user was removed still makes a row.
NoOrphans ==
    /\ \A p \in Users \X Boxes : perm[p] # None => p[1] \in users /\ p[2] \in boxes
    /\ \A l \in logs : /\ l.box \in boxes
                       /\ l.user_id \in users => l.person = persons[l.user_id]

\* The administrator and the user write the same row, each by an upsert of some of
\* its columns.  Whatever the order, who may dial, who sees a box and whose phones
\* ring is what the one last granted and the other last wished.
RightsAsAsked ==
    \A u \in users, b \in boxes :
        LET p == <<u, b>> IN
        /\ UserCanDialFXO(u, b) <=> (u \in Admins \/ grants[p].can_dial)
        /\ b \in ListFXOBoxesForUser(u) <=> UserCanDialFXO(u, b)
        /\ u \in ListUsersForIncomingFXO(b) <=>
              (u \in Admins \/ grants[p].can_receive) /\ wishes[p]

---------------------------------------------------------------------------
\* store.go, DeleteUser: "delete user call logs".  They go with the user.
LogsGoWithUser == \A l \in logs : l.user_id \in users

\* web/app.js: "SIP password (leave empty to keep unchanged)".  The password of a
\* box changes only by an edit that gives one.
EmptyKeepsPassword ==
    [][\A b \in boxes \cap boxes' :
          secret'[b] # secret[b] =>
              \E e \in Edits : /\ edit[e].at = "read" /\ edit'[e].at = "idle"
                               /\ edit[e].box = b /\ edit[e].asked # None]_permVars
=============================================================================
