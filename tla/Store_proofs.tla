----------------------------- MODULE Store_proofs -----------------------------
(***************************************************************************)
(* Proofs about the tables of the store, for every set of users, boxes and *)
(* requests under way and every bound.                                     *)
(*                                                                         *)
(*   1  users, boxes, permissions and call logs, as the administration     *)
(*      handlers and a dial leave them (Permissions);                      *)
(*   2  the pages of the call logs, as a reader who scrolls asks for them  *)
(*      while rows come and go (CallLogPages).                             *)
(***************************************************************************)
EXTENDS Permissions, CallLogPages, FiniteSetTheorems, TLAPS

USE DEF rowVars, historyVars, permVars

---------------------------------------------------------------------------
(* 1.  Types.                                                              *)

LEMMA RowKept ==
    ASSUME NEW row \in Row, NEW notify \in BOOLEAN
    PROVE  [row EXCEPT !.notify_incoming = notify] \in Row
BY DEF Row

LEMMA LogClosed ==
    ASSUME NEW l \in Log
    PROVE  [l EXCEPT !.open = FALSE] \in Log
BY DEF Log

LEMMA PermInitTyped == PermInit => PermTypeOK
<1> SUFFICES ASSUME PermInit PROVE PermTypeOK
  OBVIOUS
<1> USE AdminsAreUsers, SecretsAreCounted DEF PermInit
<1>0. Nothing \in Grant
  BY DEF Nothing, Grant
<1>1. /\ users \subseteq Users /\ boxes \subseteq Boxes /\ boxIds \subseteq Boxes
      /\ persons \in [Users -> Nat] /\ logs \subseteq Log
      /\ secret \in [Boxes -> 0..MaxSecret] /\ secrets \in 0..MaxSecret
      /\ perm \in [Users \X Boxes -> Row \cup {None}]
      /\ grants \in [Users \X Boxes -> Grant] /\ wishes \in [Users \X Boxes -> BOOLEAN]
  BY <1>0
<1>2. request \in [Requests -> [at : {"idle", "asked", "userFound", "boxFound"},
                               user : Users, box : Boxes, grant : Grant]]
  BY <1>0
<1>3. edit \in [Edits -> [at : {"idle", "read"}, box : Boxes, asked : 0..MaxSecret \cup {None},
                         old : 0..MaxSecret]]
  OBVIOUS
<1>4. dial \in [Dials -> [at : {"idle", "allowed", "found", "up", "over"}, user : Users,
                         box : Boxes, person : Nat]]
  OBVIOUS
<1> QED BY <1>1, <1>2, <1>3, <1>4 DEF PermTypeOK

LEMMA RowsTyped ==
    ASSUME PermTypeOK,
           \/ \E u \in Users : CreateUser(u) \/ DeleteUser(u)
           \/ \E b \in Boxes : CreateFXOBox(b) \/ DeleteFXOBox(b)
    PROVE  PermTypeOK'
<1> USE DEF PermTypeOK
<1>1. ASSUME NEW u \in Users, CreateUser(u) PROVE PermTypeOK'
  BY <1>1 DEF CreateUser, UserAdded
<1>2. ASSUME NEW u \in Users, DeleteUser(u) PROVE PermTypeOK'
  BY <1>2 DEF DeleteUser
<1>3. ASSUME NEW b \in Boxes, CreateFXOBox(b) PROVE PermTypeOK'
  BY <1>3, SecretsAreCounted DEF CreateFXOBox
<1>4. ASSUME NEW b \in Boxes, DeleteFXOBox(b) PROVE PermTypeOK'
  BY <1>4 DEF DeleteFXOBox
<1> QED BY <1>1, <1>2, <1>3, <1>4

LEMMA EditsTyped ==
    ASSUME PermTypeOK, NEW e \in Edits,
           \/ \E b \in Boxes, asked \in ({secrets + 1} \cap 0..MaxSecret) \cup {None} :
                 UpdateFXORead(e, b, asked)
           \/ UpdateFXOBox(e)
    PROVE  PermTypeOK'
<1> USE DEF PermTypeOK
<1>1. ASSUME NEW b \in Boxes,
             NEW asked \in ({secrets + 1} \cap 0..MaxSecret) \cup {None},
             UpdateFXORead(e, b, asked)
      PROVE  PermTypeOK'
  BY <1>1, SecretsAreCounted DEF UpdateFXORead
<1>2. CASE UpdateFXOBox(e)
  BY <1>2, SecretsAreCounted DEF UpdateFXOBox
<1> QED BY <1>1, <1>2

LEMMA RequestsTyped ==
    ASSUME PermTypeOK, NEW r \in Requests,
           \/ \E u \in Users, b \in Boxes, grant \in Grant : SetPermissionAsked(r, u, b, grant)
           \/ SetPermissionUser(r) \/ SetPermissionBox(r) \/ SetUserFXOPermission(r)
    PROVE  PermTypeOK'
<1> USE DEF PermTypeOK
<1>1. ASSUME NEW u \in Users, NEW b \in Boxes, NEW grant \in Grant,
             SetPermissionAsked(r, u, b, grant)
      PROVE  PermTypeOK'
  BY <1>1 DEF SetPermissionAsked
<1>2. CASE SetPermissionUser(r)
  BY <1>2 DEF SetPermissionUser, RequestAt
<1>3. CASE SetPermissionBox(r)
  BY <1>3 DEF SetPermissionBox, RequestAt
<1>4. CASE SetUserFXOPermission(r)
  <2> DEFINE p == <<request[r].user, request[r].box>>
             row == Merged(r, perm[p] = None \/ perm[p].notify_incoming)
  <2>1. p \in Users \X Boxes /\ request[r].grant \in Grant
    OBVIOUS
  <2>2. perm[p] = None \/ perm[p].notify_incoming \in BOOLEAN
    BY <2>1 DEF Row
  <2>3. row \in Row
    BY <2>1, <2>2 DEF Merged, Row, Grant
  <2>4. CASE Both(r)
    <3>1. Granted(r, row)
      BY <2>4, <1>4 DEF SetUserFXOPermission
    <3>2. /\ perm' \in [Users \X Boxes -> Row \cup {None}]
          /\ grants' \in [Users \X Boxes -> Grant]
      BY <2>1, <2>3, <3>1 DEF Granted
    <3>3. request' = [request EXCEPT ![r].at = "idle"]
      BY <3>1 DEF Granted
    <3>4. UNCHANGED <<users, boxes, persons, boxIds, secret, secrets, logs, edit, dial, wishes>>
      BY <3>1 DEF Granted
    <3> QED BY <3>2, <3>3, <3>4
  <2>5. CASE ~Both(r)
    BY <2>5, <1>4 DEF SetUserFXOPermission, RequestAt
  <2> QED BY <2>4, <2>5
<1> QED BY <1>1, <1>2, <1>3, <1>4

LEMMA PreferenceTyped ==
    ASSUME PermTypeOK, NEW u \in Users, NEW b \in Boxes, NEW notify \in BOOLEAN,
           SetUserNotifyPreference(u, b, notify)
    PROVE  PermTypeOK'
<1> USE DEF PermTypeOK
<1> DEFINE p == <<u, b>>
           row == IF perm[p] = None
                  THEN [can_dial |-> FALSE, can_receive |-> FALSE, notify_incoming |-> notify]
                  ELSE [perm[p] EXCEPT !.notify_incoming = notify]
<1>1. p \in Users \X Boxes
  OBVIOUS
<1>2. [can_dial |-> FALSE, can_receive |-> FALSE, notify_incoming |-> notify] \in Row
  BY DEF Row
<1>3. row \in Row
  BY <1>1, <1>2, RowKept
<1>4. perm' = [perm EXCEPT ![p] = row]
  BY DEF SetUserNotifyPreference
<1> QED BY <1>1, <1>3, <1>4 DEF SetUserNotifyPreference

LEMMA DialsTyped ==
    ASSUME PermTypeOK, NEW d \in Dials,
           \/ \E u \in Users, b \in Boxes : DialAllowed(d, u, b)
           \/ DialFindsBox(d) \/ CreateCallLog(d) \/ EndCallLog(d)
    PROVE  PermTypeOK'
<1> USE DEF PermTypeOK
<1>1. ASSUME NEW u \in Users, NEW b \in Boxes, DialAllowed(d, u, b) PROVE PermTypeOK'
  BY <1>1 DEF DialAllowed
<1>2. CASE DialFindsBox(d)
  BY <1>2 DEF DialFindsBox, DialGoes
<1>3. CASE CreateCallLog(d)
  <2>1. [dial |-> d, user_id |-> dial[d].user, box |-> dial[d].box, open |-> TRUE,
         person |-> dial[d].person] \in Log
    BY DEF Log
  <2>2. logs' \subseteq Log
    BY <1>3, <2>1 DEF CreateCallLog
  <2> QED BY <1>3, <2>2 DEF CreateCallLog, DialGoes
<1>4. CASE EndCallLog(d)
  <2>1. \A l \in logs : l \in Log /\ [l EXCEPT !.open = FALSE] \in Log
    BY LogClosed
  <2>2. logs' \subseteq Log
    BY <1>4, <2>1 DEF EndCallLog
  <2> QED BY <1>4, <2>2 DEF EndCallLog, DialGoes
<1> QED BY <1>1, <1>2, <1>3, <1>4

LEMMA PermTypeStep == PermTypeOK /\ [PermNext]_permVars => PermTypeOK'
<1> SUFFICES ASSUME PermTypeOK, [PermNext]_permVars PROVE PermTypeOK'
  OBVIOUS
<1>1. CASE UNCHANGED permVars
  BY <1>1 DEF PermTypeOK
<1> QED
  BY <1>1, RowsTyped, EditsTyped, RequestsTyped, PreferenceTyped, DialsTyped DEF PermNext

\* Every row and every handler under way keeps its type: permVars.
THEOREM PermissionsTyped == PermSpec => []PermTypeOK
BY PermInitTyped, PermTypeStep, PTL DEF PermSpec

---------------------------------------------------------------------------
(* 1.  Nothing outlives what it is about.                                  *)

\* An id stands for one person for good, so a row or a dial that carries it was
\* made for that person.
IdsOK ==
    /\ \A u \in Users : persons[u] \in {0, 1}
    /\ \A u \in users : persons[u] = 1
    /\ boxes \subseteq boxIds
    /\ \A d \in Dials : dial[d].at # "idle" => persons[dial[d].user] = 1 /\ dial[d].person = 1
    /\ \A l \in logs : persons[l.user_id] = 1 /\ l.person = 1

OrphanInv == PermTypeOK /\ IdsOK /\ NoOrphans

LEMMA OrphanInit == PermInit => OrphanInv
<1> SUFFICES ASSUME PermInit PROVE OrphanInv
  OBVIOUS
<1>1. PermTypeOK
  BY PermInitTyped
<1>2. \A d \in Dials : dial[d].at = "idle"
  BY DEF PermInit
<1> QED BY <1>1, <1>2, AdminsAreUsers DEF OrphanInv, IdsOK, NoOrphans, PermInit

\* The rows of a user or box go with it, and none is made for one that has gone.
LEMMA OrphanRows ==
    ASSUME OrphanInv,
           \/ \E u \in Users : CreateUser(u) \/ DeleteUser(u)
           \/ \E b \in Boxes : CreateFXOBox(b) \/ DeleteFXOBox(b)
    PROVE  (IdsOK /\ NoOrphans)'
<1> USE DEF OrphanInv, PermTypeOK, IdsOK, NoOrphans, Log
<1>1. ASSUME NEW u \in Users, CreateUser(u) PROVE (IdsOK /\ NoOrphans)'
  <2>1. persons[u] = 0 /\ persons'[u] = 1 /\ \A v \in Users \ {u} : persons'[v] = persons[v]
    BY <1>1 DEF CreateUser, UserAdded
  <2>2. users' = users \cup {u} /\ UNCHANGED <<boxes, boxIds, perm, logs, dial>>
    BY <1>1 DEF CreateUser, UserAdded
  <2>3. IdsOK'
    BY <2>1, <2>2
  <2>4. NoOrphans'
    BY <2>1, <2>2, <2>3
  <2> QED BY <2>3, <2>4
<1>2. ASSUME NEW u \in Users, DeleteUser(u) PROVE (IdsOK /\ NoOrphans)'
  BY <1>2 DEF DeleteUser
<1>3. ASSUME NEW b \in Boxes, CreateFXOBox(b) PROVE (IdsOK /\ NoOrphans)'
  BY <1>3 DEF CreateFXOBox
<1>4. ASSUME NEW b \in Boxes, DeleteFXOBox(b) PROVE (IdsOK /\ NoOrphans)'
  BY <1>4 DEF DeleteFXOBox
<1> QED BY <1>1, <1>2, <1>3, <1>4

LEMMA OrphanPermissions ==
    ASSUME OrphanInv,
           \/ \E e \in Edits :
                 \/ \E b \in Boxes, asked \in ({secrets + 1} \cap 0..MaxSecret) \cup {None} :
                       UpdateFXORead(e, b, asked)
                 \/ UpdateFXOBox(e)
           \/ \E r \in Requests :
                 \/ \E u \in Users, b \in Boxes, grant \in Grant : SetPermissionAsked(r, u, b, grant)
                 \/ SetPermissionUser(r) \/ SetPermissionBox(r) \/ SetUserFXOPermission(r)
           \/ \E u \in Users, b \in Boxes, notify \in BOOLEAN : SetUserNotifyPreference(u, b, notify)
    PROVE  (IdsOK /\ NoOrphans)'
<1> DEFINE Same == UNCHANGED <<users, boxes, persons, boxIds, logs, dial>>
<1>1. ASSUME Same, perm' = perm PROVE (IdsOK /\ NoOrphans)'
  BY <1>1 DEF OrphanInv, IdsOK, NoOrphans
<1>2. ASSUME Same, NEW u \in users, NEW b \in boxes, NEW row,
             perm' = [perm EXCEPT ![<<u, b>>] = row]
      PROVE  (IdsOK /\ NoOrphans)'
  BY <1>2 DEF OrphanInv, PermTypeOK, IdsOK, NoOrphans
<1>3. ASSUME NEW e \in Edits, NEW b \in Boxes, NEW asked, UpdateFXORead(e, b, asked)
      PROVE  (IdsOK /\ NoOrphans)'
  BY <1>1, <1>3 DEF UpdateFXORead
<1>4. ASSUME NEW e \in Edits, UpdateFXOBox(e) PROVE (IdsOK /\ NoOrphans)'
  BY <1>1, <1>4 DEF UpdateFXOBox
<1>5. ASSUME NEW r \in Requests, NEW u \in Users, NEW b \in Boxes, NEW grant,
             SetPermissionAsked(r, u, b, grant)
      PROVE  (IdsOK /\ NoOrphans)'
  BY <1>1, <1>5 DEF SetPermissionAsked
<1>6. ASSUME NEW r \in Requests, SetPermissionUser(r) \/ SetPermissionBox(r)
      PROVE  (IdsOK /\ NoOrphans)'
  BY <1>1, <1>6 DEF SetPermissionUser, SetPermissionBox, RequestAt
<1>7. ASSUME NEW r \in Requests, SetUserFXOPermission(r) PROVE (IdsOK /\ NoOrphans)'
  <2>1. CASE Both(r)
    BY <1>2, <1>7, <2>1 DEF SetUserFXOPermission, Granted, Both
  <2>2. CASE ~Both(r)
    BY <1>1, <1>7, <2>2 DEF SetUserFXOPermission, RequestAt
  <2> QED BY <2>1, <2>2
<1>8. ASSUME NEW u \in Users, NEW b \in Boxes, NEW notify \in BOOLEAN,
             SetUserNotifyPreference(u, b, notify)
      PROVE  (IdsOK /\ NoOrphans)'
  <2>1. /\ Same /\ u \in users /\ b \in boxes
        /\ \E row : perm' = [perm EXCEPT ![<<u, b>>] = row]
    BY <1>8 DEF SetUserNotifyPreference
  <2> QED BY <1>2, <2>1
<1> QED BY <1>3, <1>4, <1>5, <1>6, <1>7, <1>8

\* What is put into call_logs is for the person the dial was allowed to.
LEMMA OrphanDials ==
    ASSUME OrphanInv, NEW d \in Dials,
           \/ \E u \in Users, b \in Boxes : DialAllowed(d, u, b)
           \/ DialFindsBox(d) \/ CreateCallLog(d) \/ EndCallLog(d)
    PROVE  (IdsOK /\ NoOrphans)'
<1> USE DEF OrphanInv, PermTypeOK, IdsOK, NoOrphans
<1>1. ASSUME NEW u \in Users, NEW b \in Boxes, DialAllowed(d, u, b)
      PROVE  (IdsOK /\ NoOrphans)'
  <2>1. PICK n \in 1..persons[u] :
           dial' = [dial EXCEPT ![d] = [at |-> "allowed", user |-> u, box |-> b, person |-> n]]
    BY <1>1 DEF DialAllowed
  <2>2. persons[u] = 1 /\ n = 1
    BY <1>1, <2>1 DEF DialAllowed
  <2>3. \A e \in Dials : dial'[e].at # "idle" =>
           persons[dial'[e].user] = 1 /\ dial'[e].person = 1
    BY <2>1, <2>2
  <2> QED BY <1>1, <2>3 DEF DialAllowed
<1>2. ASSUME DialFindsBox(d) PROVE (IdsOK /\ NoOrphans)'
  BY <1>2 DEF DialFindsBox, DialGoes
<1>3. ASSUME CreateCallLog(d) PROVE (IdsOK /\ NoOrphans)'
  <2>1. UNCHANGED <<users, boxes, persons, boxIds, perm>>
    BY <1>3 DEF CreateCallLog, DialGoes
  <2>2. \A e \in Dials : dial'[e].at # "idle" =>
           persons[dial'[e].user] = 1 /\ dial'[e].person = 1
    BY <1>3 DEF CreateCallLog, DialGoes
  <2>3. \A l \in logs' : l.box \in boxes /\ persons[l.user_id] = 1 /\ l.person = 1
    BY <1>3 DEF CreateCallLog, DialGoes
  <2> QED BY <2>1, <2>2, <2>3
<1>4. ASSUME EndCallLog(d) PROVE (IdsOK /\ NoOrphans)'
  <2>1. UNCHANGED <<users, boxes, persons, boxIds, perm>>
    BY <1>4 DEF EndCallLog, DialGoes
  <2>2. \A e \in Dials : dial'[e].at # "idle" =>
           persons[dial'[e].user] = 1 /\ dial'[e].person = 1
    BY <1>4 DEF EndCallLog, DialGoes
  <2>3. \A l \in logs' : l.box \in boxes /\ persons[l.user_id] = 1 /\ l.person = 1
    BY <1>4 DEF EndCallLog, Log
  <2> QED BY <2>1, <2>2, <2>3
<1> QED BY <1>1, <1>2, <1>3, <1>4

LEMMA OrphanStep == OrphanInv /\ [PermNext]_permVars => OrphanInv'
<1> SUFFICES ASSUME OrphanInv, [PermNext]_permVars PROVE OrphanInv'
  OBVIOUS
<1>1. PermTypeOK'
  BY PermTypeStep DEF OrphanInv
<1>2. CASE UNCHANGED permVars
  BY <1>1, <1>2 DEF OrphanInv, IdsOK, NoOrphans
<1> QED
  BY <1>1, <1>2, OrphanRows, OrphanPermissions, OrphanDials DEF PermNext, OrphanInv

\* No permission and no call log outlives the box it is about, no permission its
\* user, and nobody is shown the calls of another: the foreign keys of
\* user_fxo_permissions and call_logs, and ids that AUTOINCREMENT never reuses,
\* hold whatever a handler has checked too early.
THEOREM NothingOutlives == PermSpec => []NoOrphans
<1>1. OrphanInv => NoOrphans
  BY DEF OrphanInv
<1> QED BY <1>1, OrphanInit, OrphanStep, PTL DEF PermSpec

---------------------------------------------------------------------------
(* 1.  Rights are what was last asked for.                                 *)

\* Each writer leaves the columns of the other as they were: the row is the last
\* grant and the last wish, and no row is no grant and the default wish.
AsAsked(p) ==
    IF perm[p] = None THEN grants[p] = Nothing /\ wishes[p] = TRUE
    ELSE perm[p] = [can_dial |-> grants[p].can_dial, can_receive |-> grants[p].can_receive,
                    notify_incoming |-> wishes[p]]

\* For an id that was never given out nothing has been asked.
Unasked ==
    \A u \in Users, b \in Boxes :
        persons[u] = 0 \/ b \notin boxIds => grants[<<u, b>>] = Nothing /\ wishes[<<u, b>>] = TRUE

RightsOK == Unasked /\ \A u \in users, b \in boxes : AsAsked(<<u, b>>)

RightsInv == OrphanInv /\ RightsOK

LEMMA AskedKept ==
    ASSUME NEW p, AsAsked(p),
           perm'[p] = perm[p], grants'[p] = grants[p], wishes'[p] = wishes[p]
    PROVE  AsAsked(p)'
BY DEF AsAsked

LEMMA RowAsked ==
    ASSUME NEW p, AsAsked(p), perm[p] # None
    PROVE  /\ perm[p].notify_incoming = wishes[p]
           /\ \A notify \in BOOLEAN :
                 [perm[p] EXCEPT !.notify_incoming = notify] =
                    [can_dial |-> grants[p].can_dial, can_receive |-> grants[p].can_receive,
                     notify_incoming |-> notify]
BY DEF AsAsked

LEMMA NoRowAsked ==
    ASSUME NEW p, AsAsked(p), perm[p] = None
    PROVE  wishes[p] = TRUE /\ grants[p].can_dial = FALSE /\ grants[p].can_receive = FALSE
BY DEF AsAsked, Nothing

LEMMA RightsInit == PermInit => RightsInv
<1> SUFFICES ASSUME PermInit PROVE RightsInv
  OBVIOUS
<1>1. OrphanInv
  BY OrphanInit
<1> QED BY <1>1 DEF RightsInv, RightsOK, Unasked, PermInit

LEMMA RightsRows ==
    ASSUME RightsInv,
           \/ \E u \in Users : CreateUser(u) \/ DeleteUser(u)
           \/ \E b \in Boxes : CreateFXOBox(b) \/ DeleteFXOBox(b)
    PROVE  RightsOK'
<1> USE DEF RightsInv, OrphanInv, PermTypeOK, IdsOK, RightsOK, Unasked
<1>1. ASSUME NEW u \in Users, CreateUser(u) PROVE RightsOK'
  <2>1. UNCHANGED <<boxes, boxIds, perm, grants, wishes>> /\ users' = users \cup {u}
    BY <1>1 DEF CreateUser, UserAdded
  <2>2. u \notin users /\ \A b \in Boxes : perm[<<u, b>>] = None
    BY <1>1 DEF CreateUser, NoOrphans
  <2>3. \A v \in Users : persons'[v] = 0 => persons[v] = 0
    BY <1>1 DEF CreateUser, UserAdded
  <2>4. \A b \in Boxes : AsAsked(<<u, b>>)'
    BY <1>1, <2>1, <2>2 DEF CreateUser, AsAsked
  <2>5. \A v \in users, b \in boxes : AsAsked(<<v, b>>)'
    BY <2>1 DEF AsAsked
  <2> QED BY <2>1, <2>3, <2>4, <2>5
<1>2. ASSUME NEW u \in Users, DeleteUser(u) PROVE RightsOK'
  <2>1. UNCHANGED <<boxes, boxIds, persons, grants, wishes>> /\ users' = users \ {u}
    BY <1>2 DEF DeleteUser
  <2>2. \A v \in users', b \in Boxes : perm'[<<v, b>>] = perm[<<v, b>>]
    BY <1>2 DEF DeleteUser
  <2>3. \A v \in users', b \in boxes : AsAsked(<<v, b>>)'
    BY <2>1, <2>2, AskedKept
  <2> QED BY <2>1, <2>3
<1>3. ASSUME NEW b \in Boxes, CreateFXOBox(b) PROVE RightsOK'
  <2>1. UNCHANGED <<users, persons, perm, grants, wishes>>
    BY <1>3 DEF CreateFXOBox
  <2>2. boxes' = boxes \cup {b} /\ boxIds' = boxIds \cup {b} /\ b \notin boxIds
    BY <1>3 DEF CreateFXOBox
  <2>3. \A u \in Users : perm[<<u, b>>] = None
    BY <2>2 DEF NoOrphans
  <2>4. \A u \in Users : AsAsked(<<u, b>>)'
    BY <2>1, <2>2, <2>3 DEF AsAsked
  <2>5. \A u \in users, c \in boxes : AsAsked(<<u, c>>)'
    BY <2>1 DEF AsAsked
  <2> QED BY <2>1, <2>2, <2>4, <2>5
<1>4. ASSUME NEW b \in Boxes, DeleteFXOBox(b) PROVE RightsOK'
  <2>1. UNCHANGED <<users, boxIds, persons, grants, wishes>> /\ boxes' = boxes \ {b}
    BY <1>4 DEF DeleteFXOBox
  <2>2. \A u \in Users, c \in boxes' : perm'[<<u, c>>] = perm[<<u, c>>]
    BY <1>4 DEF DeleteFXOBox
  <2>3. \A u \in users, c \in boxes' : AsAsked(<<u, c>>)'
    <3> SUFFICES ASSUME NEW u \in users, NEW c \in boxes' PROVE AsAsked(<<u, c>>)'
      OBVIOUS
    <3>1. AsAsked(<<u, c>>) /\ perm'[<<u, c>>] = perm[<<u, c>>]
      BY <2>1, <2>2
    <3> QED BY <2>1, <3>1, AskedKept
  <2> QED BY <2>1, <2>3
<1> QED BY <1>1, <1>2, <1>3, <1>4

\* The upsert of the administrator keeps the wish.
LEMMA RightsGranted ==
    ASSUME RightsInv, NEW r \in Requests, SetUserFXOPermission(r)
    PROVE  RightsOK'
<1> USE DEF RightsInv, OrphanInv, PermTypeOK, IdsOK, RightsOK, Unasked
<1>1. CASE ~Both(r)
  BY <1>1 DEF SetUserFXOPermission, RequestAt, AsAsked
<1>2. CASE Both(r)
  <2> PICK u \in users, b \in boxes : u = request[r].user /\ b = request[r].box
    BY <1>2 DEF Both
  <2> DEFINE p == <<u, b>>
             notify == perm[p] = None \/ perm[p].notify_incoming
  <2>1. Granted(r, Merged(r, notify)) /\ p \in Users \X Boxes /\ request[r].grant \in Grant
    BY <1>2 DEF SetUserFXOPermission
  <2>2. AsAsked(p)
    OBVIOUS
  <2>3. wishes[p] \in BOOLEAN
    BY <2>1
  <2>4. notify = wishes[p]
    <3>1. CASE perm[p] = None
      BY <2>2, <3>1, NoRowAsked
    <3>2. CASE perm[p] # None
      BY <2>2, <2>3, <3>2, RowAsked
    <3> QED BY <3>1, <3>2
  <2>5. /\ UNCHANGED <<users, boxes, boxIds, persons, wishes>>
        /\ perm' = [perm EXCEPT ![p] = Merged(r, notify)]
        /\ grants' = [grants EXCEPT ![p] = request[r].grant]
    BY <2>1 DEF Granted
  <2>6. AsAsked(p)'
    <3>1. perm'[p] = Merged(r, wishes[p]) /\ grants'[p] = request[r].grant
      BY <2>1, <2>4, <2>5
    <3>2. perm'[p] \in Row
      BY <3>1, <2>1, <2>3 DEF Merged, Row, Grant
    <3>3. perm'[p] # None
      BY <3>2, NoneIsNoRow
    <3>4. wishes'[p] = wishes[p]
      BY <2>5
    <3>5. perm'[p] = [can_dial |-> grants'[p].can_dial, can_receive |-> grants'[p].can_receive,
                      notify_incoming |-> wishes'[p]]
      BY <3>1, <3>4 DEF Merged
    <3> QED BY <3>3, <3>5 DEF AsAsked
  <2>7. \A v \in users, c \in boxes : <<v, c>> # p => AsAsked(<<v, c>>)'
    BY <2>1, <2>5 DEF AsAsked
  <2>8. Unasked'
    BY <1>2, <2>1, <2>5 DEF Both
  <2>9. \A v \in users, c \in boxes : AsAsked(<<v, c>>)'
    BY <2>6, <2>7
  <2> QED BY <2>5, <2>8, <2>9
<1> QED BY <1>1, <1>2

\* The upsert of the user keeps the grant.
LEMMA RightsWished ==
    ASSUME RightsInv, NEW u \in Users, NEW b \in Boxes, NEW notify \in BOOLEAN,
           SetUserNotifyPreference(u, b, notify)
    PROVE  RightsOK'
<1> DEFINE p == <<u, b>>
           row == IF perm[p] = None
                  THEN [can_dial |-> FALSE, can_receive |-> FALSE, notify_incoming |-> notify]
                  ELSE [perm[p] EXCEPT !.notify_incoming = notify]
<1>1. /\ u \in users /\ b \in boxes /\ p \in Users \X Boxes
      /\ UNCHANGED <<users, boxes, boxIds, persons, grants>>
      /\ perm' = [perm EXCEPT ![p] = row]
      /\ wishes' = [wishes EXCEPT ![p] = notify]
  BY DEF SetUserNotifyPreference
<1>2. AsAsked(p) /\ grants[p] \in Grant
  BY <1>1 DEF RightsInv, RightsOK, OrphanInv, PermTypeOK
<1>3. row = [can_dial |-> grants[p].can_dial, can_receive |-> grants[p].can_receive,
             notify_incoming |-> notify]
  <2>1. CASE perm[p] = None
    BY <1>2, <2>1, NoRowAsked
  <2>2. CASE perm[p] # None
    BY <1>2, <2>2, RowAsked
  <2> QED BY <2>1, <2>2
<1>4. AsAsked(p)'
  <2>1. perm'[p] = row /\ wishes'[p] = notify
    BY <1>1 DEF RightsInv, OrphanInv, PermTypeOK
  <2>2. row \in Row
    BY <1>2, <1>3 DEF Row, Grant
  <2>3. perm'[p] # None
    BY <2>1, <2>2, NoneIsNoRow
  <2> QED BY <2>1, <2>3, <1>1, <1>3 DEF AsAsked
<1>5. \A v \in users, c \in boxes : <<v, c>> # p => AsAsked(<<v, c>>)'
  <2> SUFFICES ASSUME NEW v \in users, NEW c \in boxes, <<v, c>> # p
               PROVE  AsAsked(<<v, c>>)'
    OBVIOUS
  <2>1. perm'[<<v, c>>] = perm[<<v, c>>] /\ wishes'[<<v, c>>] = wishes[<<v, c>>]
    BY <1>1 DEF RightsInv, OrphanInv, PermTypeOK
  <2>2. AsAsked(<<v, c>>)
    BY DEF RightsInv, RightsOK
  <2> QED BY <1>1, <2>1, <2>2, AskedKept
<1>6. Unasked'
  BY <1>1 DEF RightsInv, OrphanInv, PermTypeOK, IdsOK, RightsOK, Unasked
<1>7. \A v \in users, c \in boxes : AsAsked(<<v, c>>)'
  BY <1>4, <1>5
<1> QED BY <1>1, <1>6, <1>7 DEF RightsOK

LEMMA RightsStep == RightsInv /\ [PermNext]_permVars => RightsInv'
<1> SUFFICES ASSUME RightsInv, [PermNext]_permVars PROVE RightsInv'
  OBVIOUS
<1>1. OrphanInv'
  BY OrphanStep DEF RightsInv
<1>2. ASSUME UNCHANGED <<users, boxes, boxIds, persons, perm, grants, wishes>>
      PROVE  RightsInv'
  BY <1>1, <1>2 DEF RightsInv, RightsOK, Unasked, AsAsked
<1>3. CASE \E u \in Users : CreateUser(u) \/ DeleteUser(u)
  BY <1>1, <1>3, RightsRows DEF RightsInv
<1>4. CASE \E b \in Boxes : CreateFXOBox(b) \/ DeleteFXOBox(b)
  BY <1>1, <1>4, RightsRows DEF RightsInv
<1>5. CASE \E e \in Edits :
              \/ \E b \in Boxes, asked \in ({secrets + 1} \cap 0..MaxSecret) \cup {None} :
                    UpdateFXORead(e, b, asked)
              \/ UpdateFXOBox(e)
  BY <1>2, <1>5 DEF UpdateFXORead, UpdateFXOBox
<1>6. ASSUME NEW r \in Requests,
             \/ \E u \in Users, b \in Boxes, grant \in Grant : SetPermissionAsked(r, u, b, grant)
             \/ SetPermissionUser(r) \/ SetPermissionBox(r)
      PROVE  RightsInv'
  BY <1>2, <1>6 DEF SetPermissionAsked, SetPermissionUser, SetPermissionBox, RequestAt
<1>7. ASSUME NEW r \in Requests, SetUserFXOPermission(r) PROVE RightsInv'
  BY <1>1, <1>7, RightsGranted DEF RightsInv
<1>8. CASE \E u \in Users, b \in Boxes, notify \in BOOLEAN : SetUserNotifyPreference(u, b, notify)
  BY <1>1, <1>8, RightsWished DEF RightsInv
<1>9. ASSUME NEW d \in Dials,
             \/ \E u \in Users, b \in Boxes : DialAllowed(d, u, b)
             \/ DialFindsBox(d) \/ CreateCallLog(d) \/ EndCallLog(d)
      PROVE  RightsInv'
  BY <1>2, <1>9 DEF DialAllowed, DialFindsBox, CreateCallLog, EndCallLog, DialGoes
<1>10. CASE UNCHANGED permVars
  BY <1>2, <1>10
<1> QED BY <1>3, <1>4, <1>5, <1>6, <1>7, <1>8, <1>9, <1>10 DEF PermNext

LEMMA RightsShown == RightsInv => RightsAsAsked
<1> SUFFICES ASSUME RightsInv, NEW u \in users, NEW b \in boxes
             PROVE  LET p == <<u, b>> IN
                    /\ UserCanDialFXO(u, b) <=> (u \in Admins \/ grants[p].can_dial)
                    /\ b \in ListFXOBoxesForUser(u) <=> UserCanDialFXO(u, b)
                    /\ u \in ListUsersForIncomingFXO(b) <=>
                          (u \in Admins \/ grants[p].can_receive) /\ wishes[p]
  BY DEF RightsAsAsked
<1> DEFINE p == <<u, b>>
<1>1. AsAsked(p)
  BY DEF RightsInv, RightsOK
<1>2. CASE perm[p] = None
  BY <1>1, <1>2 DEF AsAsked, Nothing, UserCanDialFXO, userHasFXOPermission, ListFXOBoxesForUser,
     ListUsersForIncomingFXO
<1>3. CASE perm[p] # None
  BY <1>1, <1>3 DEF AsAsked, UserCanDialFXO, userHasFXOPermission, ListFXOBoxesForUser,
     ListUsersForIncomingFXO
<1> QED BY <1>2, <1>3

\* Who may dial, who sees a box and whose phones ring is what the administrator last
\* granted and the user last wished, in whatever order the upserts of
\* handleSetFXOPermission and handleSetFXONotifyPreference come, and whatever users
\* and boxes are made and removed between their checks and them.
THEOREM RightsAlwaysAsAsked == PermSpec => []RightsAsAsked
BY RightsInit, RightsStep, RightsShown, PTL DEF PermSpec

---------------------------------------------------------------------------
(* 2.  The pages of the call logs: ranks and the number of pages.          *)

USE DEF tableVars, walkVars, pageVars

LEMMA RowsFinite ==
    ASSUME NEW n \in Nat, NEW R \in SUBSET (1..n)
    PROVE  IsFiniteSet(R) /\ Cardinality(R) \in Nat
<1>1. IsFiniteSet(1..n)
  BY FS_Interval
<1>2. IsFiniteSet(R)
  BY <1>1, FS_Subset
<1> QED BY <1>2, FS_CardinalityType

Get == [at : {"none", "asked", "counted", "answered"}, page : Nat \ {0},
        count : Nat, items : SUBSET Nat, torn : BOOLEAN]

Types ==
    /\ last \in Nat /\ rows \subseteq 1..last
    /\ removed \in BOOLEAN /\ torn \in BOOLEAN
    /\ page \in Nat /\ total \in Nat \ {0}
    /\ get \in Get
    /\ wanted \subseteq rows /\ seen \subseteq Nat

\* A row is ranked below the number of rows, and below the older ones.
LEMMA RankBounds ==
    ASSUME Types, NEW i \in rows
    PROVE  /\ Rank(i) \in Nat
           /\ Rank(i) < Cardinality(rows)
           /\ \A j \in rows : i > j => Rank(i) <= Rank(j)
<1> USE DEF Types
<1> DEFINE Above(k) == {j \in rows : j > k}
<1>1. \A k : IsFiniteSet(Above(k)) /\ Cardinality(Above(k)) \in Nat
  <2> TAKE k
  <2>1. Above(k) \in SUBSET (1..last)
    OBVIOUS
  <2> QED BY <2>1, RowsFinite
<1>2. IsFiniteSet(rows) /\ Cardinality(rows) \in Nat
  BY RowsFinite
<1>3. Rank(i) < Cardinality(rows)
  <2>1. Above(i) \in SUBSET rows /\ Above(i) # rows
    OBVIOUS
  <2>2. /\ Cardinality(Above(i)) <= Cardinality(rows)
        /\ Cardinality(rows) = Cardinality(Above(i)) => rows = Above(i)
    BY <1>2, <2>1, FS_Subset
  <2> QED BY <1>1, <1>2, <2>1, <2>2 DEF Rank
<1>4. ASSUME NEW j \in rows, i > j PROVE Rank(i) <= Rank(j)
  <2>1. i \in Nat /\ j \in Nat /\ \A k \in rows : k \in Nat
    OBVIOUS
  <2>2. \A k \in rows : k > i => k > j
    BY <1>4, <2>1
  <2>3. Cardinality(Above(i)) <= Cardinality(Above(j))
    <3>1. Above(i) \subseteq Above(j)
      BY <2>2
    <3> QED BY <1>1, <3>1, FS_Subset
  <2> QED BY <2>3 DEF Rank
<1> QED BY <1>1, <1>3, <1>4 DEF Rank

\* A call that begins takes no row to an earlier page.
LEMMA RankGrows ==
    ASSUME Types, NEW i \in rows, last' = last + 1, rows' = rows \cup {last'}
    PROVE  Rank(i)' \in Nat /\ Rank(i) <= Rank(i)'
<1> USE DEF Types
<1>1. {j \in rows : j > i} \in SUBSET {j \in rows' : j > i}
  OBVIOUS
<1>2. rows' \in SUBSET (1..last') /\ last' \in Nat
  OBVIOUS
<1>3. IsFiniteSet({j \in rows' : j > i}) /\ Cardinality({j \in rows' : j > i}) \in Nat
  <2>1. {j \in rows' : j > i} \in SUBSET (1..last')
    BY <1>2
  <2> QED BY <1>2, <2>1, RowsFinite
<1>4. Cardinality({j \in rows : j > i}) <= Cardinality({j \in rows' : j > i})
  BY <1>1, <1>3, FS_Subset
<1> QED BY <1>3, <1>4 DEF Rank

\* The pages that are counted hold all rows, and one page fewer holds less.
LEMMA PagesHoldRows ==
    ASSUME NEW n \in Nat
    PROVE  /\ totalPages(n) \in Nat /\ n <= totalPages(n) * PageSize
           /\ n > 0 => totalPages(n) > 0
<1>1. totalPages(n) \in Nat
  BY PageSizeIsPositive DEF totalPages
<1>2. n <= totalPages(n) * PageSize
  BY PageSizeIsPositive DEF totalPages
<1>3. n > 0 => totalPages(n) > 0
  BY <1>1, <1>2, PageSizeIsPositive
<1> QED BY <1>1, <1>2, <1>3

LEMMA PagesInOrder ==
    ASSUME NEW p \in Nat, NEW q \in Nat, p <= q
    PROVE  p * PageSize \in Nat /\ q * PageSize \in Nat /\ p * PageSize <= q * PageSize
BY PageSizeIsPositive

LEMMA ShownIsPage ==
    ASSUME Types
    PROVE  ShownPages \in Nat \ {0} /\ get.count <= ShownPages * PageSize
BY PagesHoldRows, PageSizeIsPositive DEF Types, Get, ShownPages, totalPages

---------------------------------------------------------------------------
(* 2.  Types.                                                              *)

LEMMA NothingAsked == NoGet \in Get
BY DEF NoGet, Get

LEMMA GetAsked ==
    ASSUME get \in Get, NEW p \in Nat \ {0}, Asks(p)
    PROVE  get' \in Get
BY DEF Get, Asks

LEMMA GetCounted ==
    ASSUME get \in Get, NEW n \in Nat, get' = [get EXCEPT !.at = "counted", !.count = n]
    PROVE  get' \in Get
BY DEF Get

LEMMA GetAnswered ==
    ASSUME get \in Get, NEW items \in SUBSET Nat, NEW t \in BOOLEAN,
           get' = [get EXCEPT !.at = "answered", !.items = items, !.torn = t]
    PROVE  get' \in Get
BY DEF Get

LEMMA TypesInit == PagesInit => Types
<1> SUFFICES ASSUME PagesInit PROVE Types
  OBVIOUS
<1>1. last \in Nat
  BY CallsAreCounted DEF PagesInit
<1>2. rows \subseteq 1..last /\ wanted \subseteq rows /\ seen \subseteq Nat
  BY DEF PagesInit
<1>3. get \in Get /\ removed \in BOOLEAN /\ torn \in BOOLEAN
  BY NothingAsked DEF PagesInit
<1>4. page \in Nat /\ total \in Nat \ {0}
  BY DEF PagesInit
<1> QED BY <1>1, <1>2, <1>3, <1>4 DEF Types

LEMMA TypesStep == Types /\ [PagesNext]_pageVars => Types'
<1> SUFFICES ASSUME Types, [PagesNext]_pageVars PROVE Types'
  OBVIOUS
<1> USE DEF Types
<1>1. CASE CallBegins
  BY <1>1 DEF CallBegins
<1>2. ASSUME NEW gone \in SUBSET rows, BoxRemoved(gone) PROVE Types'
  BY <1>2 DEF BoxRemoved
<1>3. CASE FirstPage
  <2>1. get' \in Get
    BY <1>3, GetAsked DEF FirstPage
  <2>2. wanted' \subseteq rows' /\ seen' \subseteq Nat /\ removed' \in BOOLEAN
    BY <1>3 DEF FirstPage
  <2>3. UNCHANGED <<rows, last, page, total, torn>>
    BY <1>3 DEF FirstPage
  <2> QED BY <2>1, <2>2, <2>3
<1>4. CASE NextPage
  BY <1>4, GetAsked DEF NextPage
<1>5. CASE Count
  BY <1>5, RowsFinite, GetCounted DEF Count
<1>6. CASE Select
  <2>1. Limit(get.page) \in SUBSET Nat
    <3>1. Limit(get.page) \subseteq rows /\ rows \subseteq Nat
      BY DEF Limit
    <3> QED BY <3>1
  <2>2. (get.count # Cardinality(rows)) \in BOOLEAN
    OBVIOUS
  <2>3. get' \in Get
    BY <1>6, <2>1, <2>2, GetAnswered DEF Select
  <2> QED BY <1>6, <2>3 DEF Select
<1>7. CASE Show
  <2>1. get.page \in Nat \ {0} /\ get.items \in SUBSET Nat /\ get.torn \in BOOLEAN
    BY DEF Get
  <2>2. total' = ShownPages /\ page' = get.page /\ ShownPages \in Nat \ {0}
    BY <1>7, ShownIsPage DEF Show
  <2>3. CASE get.page > ShownPages
    BY <1>7, <2>1, <2>2, <2>3, GetAsked DEF Show
  <2>4. CASE ~(get.page > ShownPages)
    BY <1>7, <2>1, <2>2, <2>4, NothingAsked DEF Show
  <2> QED BY <2>3, <2>4
<1>8. CASE GetFails
  BY <1>8, NothingAsked DEF GetFails
<1>9. CASE UNCHANGED pageVars
  BY <1>9
<1> QED BY <1>1, <1>2, <1>3, <1>4, <1>5, <1>6, <1>7, <1>8, <1>9 DEF PagesNext

---------------------------------------------------------------------------
(* 2.  A walk leaves no gap.                                               *)

\* Rows that a page, or one before it, has.
UpTo(p) == {i \in wanted : Rank(i) < p * PageSize}

\* What was asked for follows on what was shown, and what was answered has the rows
\* up to its page: rows sink only, so an older answer has them as well.
GetFollows ==
    /\ get.at # "none" => UpTo(get.page - 1) \subseteq seen
    /\ get.at = "answered" =>
          /\ UpTo(get.page) \subseteq seen \cup get.items
          /\ \A i \in wanted, j \in get.items : i > j => i \in seen \cup get.items
          /\ ~get.torn /\ get.page >= ShownPages => wanted \subseteq seen \cup get.items

\* The page that is shown, unless it is of an earlier walk.
PageFollows ==
    \/ get.at # "none" /\ get.page = 1
    \/ /\ page <= total => UpTo(page) \subseteq seen
       /\ page = total /\ ~torn => wanted \subseteq seen

Walk ==
    /\ \A i \in wanted, j \in seen : i > j => i \in seen
    /\ GetFollows
    /\ PageFollows

WalkInv == Types /\ (~removed => Walk)

LEMMA WalkInit == PagesInit => WalkInv
<1> SUFFICES ASSUME PagesInit PROVE WalkInv
  OBVIOUS
<1>1. Types
  BY TypesInit
<1>2. wanted = {} /\ get.at = "none"
  BY DEF PagesInit, NoGet
<1> QED BY <1>1, <1>2 DEF WalkInv, Walk, GetFollows, PageFollows, UpTo

\* Nothing of a walk depends on ranks but by UpTo, and that shrinks.
LEMMA WalkSinks ==
    ASSUME Types, Walk, UNCHANGED walkVars,
           \A p \in Nat : UpTo(p)' \subseteq UpTo(p)
    PROVE  Walk'
<1>1. get.page \in Nat /\ get.page - 1 \in Nat /\ page \in Nat
  BY DEF Types, Get
<1>2. /\ UpTo(get.page - 1)' \subseteq UpTo(get.page - 1)
      /\ UpTo(get.page)' \subseteq UpTo(get.page)
      /\ UpTo(page)' \subseteq UpTo(page)
  BY <1>1
<1> QED BY <1>2 DEF Walk, GetFollows, PageFollows, ShownPages, totalPages

LEMMA WalkBegins == ASSUME WalkInv, CallBegins, ~removed PROVE Walk'
<1>1. Types /\ Walk /\ UNCHANGED walkVars
  BY DEF WalkInv, CallBegins
<1>2. ASSUME NEW p \in Nat PROVE UpTo(p)' \subseteq UpTo(p)
  <2> SUFFICES ASSUME NEW i \in wanted, Rank(i)' < p * PageSize PROVE Rank(i) < p * PageSize
    BY <1>1 DEF UpTo
  <2>1. i \in rows
    BY <1>1 DEF Types
  <2>2. Rank(i) \in Nat
    BY <1>1, <2>1, RankBounds
  <2>3. Rank(i)' \in Nat /\ Rank(i) <= Rank(i)'
    BY <1>1, <2>1, RankGrows DEF CallBegins
  <2>4. p * PageSize \in Nat
    BY PagesInOrder
  <2> QED BY <2>2, <2>3, <2>4
<1> QED BY <1>1, <1>2, WalkSinks

LEMMA WalkFirst == ASSUME WalkInv, FirstPage PROVE Walk'
<1>1. get'.at = "asked" /\ get'.page = 1 /\ seen' = {} /\ wanted' = rows /\ UNCHANGED rows
  BY DEF FirstPage, Asks, WalkInv, Types, Get
<1>2. UpTo(get.page - 1)' = {}
  <2> SUFFICES ASSUME NEW i \in rows PROVE ~(Rank(i)' < (get'.page - 1) * PageSize)
    BY <1>1 DEF UpTo
  <2>1. Rank(i)' = Rank(i) /\ Rank(i) \in Nat
    BY <1>1, RankBounds DEF WalkInv, Rank
  <2>2. (get'.page - 1) * PageSize = 0
    BY <1>1, PageSizeIsPositive
  <2> QED BY <2>1, <2>2
<1> QED BY <1>1, <1>2 DEF Walk, GetFollows, PageFollows

\* Steps in which no row, and so no rank, changes.
LEMMA UpToKept ==
    ASSUME UNCHANGED <<rows, wanted>>, NEW p
    PROVE  UpTo(p)' = UpTo(p)
BY DEF UpTo, Rank

LEMMA WalkNext == ASSUME WalkInv, NextPage, ~removed PROVE Walk'
<1>1. /\ get.at = "none" /\ get'.at = "asked" /\ get'.page = page + 1
      /\ page < total /\ UNCHANGED <<rows, wanted, seen, page, total, torn>>
  BY DEF NextPage, Asks, WalkInv, Types, Get
<1>2. Walk /\ page \in Nat /\ total \in Nat
  BY DEF WalkInv, Types
<1>3. UpTo(page) \subseteq seen /\ ~(page = total)
  BY <1>1, <1>2 DEF Walk, PageFollows
<1>4. UpTo(get.page - 1)' \subseteq seen'
  <2>1. get'.page - 1 = page
    BY <1>1, <1>2
  <2> QED BY <1>1, <1>3, <2>1 DEF UpTo, Rank
<1>5. UpTo(page)' \subseteq seen'
  BY <1>1, <1>3 DEF UpTo, Rank
<1> QED BY <1>1, <1>2, <1>3, <1>4, <1>5 DEF Walk, GetFollows, PageFollows

LEMMA WalkCounts == ASSUME WalkInv, Count, ~removed PROVE Walk'
<1>1. /\ get.at = "asked" /\ get'.at = "counted" /\ get'.page = get.page
      /\ UNCHANGED <<rows, wanted, seen, page, total, torn>>
  BY DEF Count, WalkInv, Types, Get
<1>2. Walk
  BY DEF WalkInv
<1>3. UpTo(get.page - 1)' = UpTo(get.page - 1) /\ UpTo(page)' = UpTo(page)
  BY <1>1 DEF UpTo, Rank
<1> QED BY <1>1, <1>2, <1>3 DEF Walk, GetFollows, PageFollows

LEMMA WalkSelects == ASSUME WalkInv, Select, ~removed PROVE Walk'
<1>1. /\ get.at = "counted" /\ get'.at = "answered"
      /\ get'.page = get.page /\ get'.count = get.count
      /\ get'.items = Limit(get.page) /\ get'.torn = (get.count # Cardinality(rows))
      /\ UNCHANGED <<rows, wanted, seen, page, total, torn>>
  BY DEF Select, WalkInv, Types, Get
<1>2. Types /\ Walk /\ get.page \in Nat \ {0} /\ wanted \subseteq rows
  BY DEF WalkInv, Types, Get
<1>3. UpTo(get.page - 1) \subseteq seen
  BY <1>1, <1>2 DEF Walk, GetFollows
<1>4. \A i \in wanted : Rank(i) < get.page * PageSize => i \in seen \cup Limit(get.page)
  <2> SUFFICES ASSUME NEW i \in wanted, Rank(i) < get.page * PageSize
               PROVE  i \in seen \cup Limit(get.page)
    OBVIOUS
  <2>1. Rank(i) \in Nat /\ i \in rows
    BY <1>2, RankBounds
  <2>2. (get.page - 1) * PageSize \in Nat
    BY <1>2, PageSizeIsPositive
  <2>3. CASE Rank(i) < (get.page - 1) * PageSize
    BY <1>3, <2>3 DEF UpTo
  <2>4. CASE Rank(i) >= (get.page - 1) * PageSize
    BY <2>1, <2>4 DEF Limit
  <2> QED BY <2>1, <2>2, <2>3, <2>4
<1>5. \A i \in wanted, j \in Limit(get.page) : i > j => i \in seen \cup Limit(get.page)
  <2> SUFFICES ASSUME NEW i \in wanted, NEW j \in Limit(get.page), i > j
               PROVE  i \in seen \cup Limit(get.page)
    OBVIOUS
  <2>1. i \in rows /\ j \in rows /\ Rank(j) < get.page * PageSize
    BY <1>2 DEF Limit
  <2>2. Rank(i) \in Nat /\ Rank(j) \in Nat /\ Rank(i) <= Rank(j)
    BY <1>2, <2>1, RankBounds
  <2>3. get.page * PageSize \in Nat
    BY <1>2, PagesInOrder
  <2> QED BY <1>4, <2>1, <2>2, <2>3
<1>6. ASSUME get.count = Cardinality(rows), get.page >= ShownPages
      PROVE  wanted \subseteq seen \cup Limit(get.page)
  <2> SUFFICES ASSUME NEW i \in wanted PROVE Rank(i) < get.page * PageSize
    BY <1>4
  <2>1. Rank(i) \in Nat /\ Rank(i) < get.count /\ get.count \in Nat
    BY <1>2, <1>6, RankBounds DEF Types, Get
  <2>2. ShownPages \in Nat \ {0} /\ get.count <= ShownPages * PageSize
    BY <1>2, ShownIsPage
  <2>3. /\ ShownPages * PageSize \in Nat /\ get.page * PageSize \in Nat
        /\ ShownPages * PageSize <= get.page * PageSize
    BY <1>2, <1>6, <2>2, PagesInOrder
  <2> QED BY <2>1, <2>2, <2>3
<1>7. /\ UpTo(get.page - 1)' = UpTo(get.page - 1) /\ UpTo(page)' = UpTo(page)
      /\ UpTo(get.page)' = UpTo(get.page) /\ ShownPages' = ShownPages
  BY <1>1 DEF UpTo, Rank, ShownPages
<1>8. UpTo(get.page)' \subseteq seen' \cup get'.items
  BY <1>1, <1>4, <1>7 DEF UpTo
<1>9. ~get'.torn /\ get'.page >= ShownPages' => wanted' \subseteq seen' \cup get'.items
  BY <1>1, <1>6, <1>7
<1>10. GetFollows'
  BY <1>1, <1>3, <1>5, <1>7, <1>8, <1>9 DEF GetFollows
<1>11. PageFollows'
  BY <1>1, <1>2, <1>7 DEF Walk, PageFollows
<1> QED BY <1>1, <1>2, <1>10, <1>11 DEF Walk

LEMMA WalkShows == ASSUME WalkInv, Show, ~removed PROVE Walk'
<1>1. /\ get.at = "answered" /\ total' = ShownPages /\ page' = get.page
      /\ UNCHANGED <<rows, wanted>>
  BY DEF Show
<1>2. /\ Walk /\ get.page \in Nat \ {0} /\ ShownPages \in Nat \ {0}
      /\ get.items \subseteq Nat /\ get.torn \in BOOLEAN
  BY ShownIsPage DEF WalkInv, Types, Get
<1>3. CASE get.page > ShownPages
  <2>1. /\ get'.at = "asked" /\ get'.page = ShownPages
        /\ UNCHANGED <<seen, torn>>
    BY <1>3 DEF Show, Asks, WalkInv, Types, Get
  <2>2. UpTo(get.page - 1) \subseteq seen
    BY <1>1, <1>2 DEF Walk, GetFollows
  <2>3. UpTo(get.page - 1)' \subseteq seen'
    <3> SUFFICES ASSUME NEW i \in wanted, Rank(i) < (ShownPages - 1) * PageSize
                 PROVE  Rank(i) < (get.page - 1) * PageSize
      BY <1>1, <2>1, <2>2 DEF UpTo, Rank
    <3>1. Rank(i) \in Nat
      BY RankBounds DEF WalkInv, Types
    <3>2. /\ (ShownPages - 1) * PageSize \in Nat /\ (get.page - 1) * PageSize \in Nat
          /\ (ShownPages - 1) * PageSize <= (get.page - 1) * PageSize
      BY <1>2, <1>3, PagesInOrder
    <3> QED BY <3>1, <3>2
  <2>4. PageFollows'
    BY <1>1, <1>2, <1>3 DEF PageFollows
  <2> QED BY <1>1, <1>2, <2>1, <2>3, <2>4 DEF Walk, GetFollows
<1>4. CASE ~(get.page > ShownPages)
  <2>1. get'.at = "none" /\ seen' = seen \cup get.items /\ torn' = get.torn
    BY <1>4 DEF Show, NoGet
  <2>2. /\ UpTo(get.page) \subseteq seen'
        /\ \A i \in wanted, j \in get.items : i > j => i \in seen'
        /\ ~get.torn /\ get.page >= ShownPages => wanted \subseteq seen'
    BY <1>1, <1>2, <2>1 DEF Walk, GetFollows
  <2>3. \A i \in wanted', j \in seen' : i > j => i \in seen'
    BY <1>1, <1>2, <2>1, <2>2 DEF Walk
  <2>4. UpTo(page)' \subseteq seen'
    BY <1>1, <2>2 DEF UpTo, Rank
  <2>5. page' = total' /\ ~torn' => wanted' \subseteq seen'
    BY <1>1, <1>2, <2>1, <2>2
  <2> QED BY <2>1, <2>3, <2>4, <2>5 DEF Walk, GetFollows, PageFollows
<1> QED BY <1>3, <1>4

LEMMA WalkFails == ASSUME WalkInv, GetFails, ~removed PROVE Walk'
<1>1. /\ get.at # "none" /\ get'.at = "none"
      /\ wanted' = IF get.page = 1 THEN {} ELSE wanted
      /\ UNCHANGED <<rows, seen, page, total, torn>>
  BY DEF GetFails, NoGet
<1>2. Walk
  BY DEF WalkInv
<1>3. CASE get.page = 1
  BY <1>1, <1>3 DEF Walk, GetFollows, PageFollows, UpTo
<1>4. CASE get.page # 1
  <2>1. UpTo(page)' = UpTo(page)
    BY <1>1, <1>4 DEF UpTo, Rank
  <2> QED BY <1>1, <1>2, <1>4, <2>1 DEF Walk, GetFollows, PageFollows
<1> QED BY <1>3, <1>4

LEMMA WalkStep == WalkInv /\ [PagesNext]_pageVars => WalkInv'
<1> SUFFICES ASSUME WalkInv, [PagesNext]_pageVars PROVE WalkInv'
  OBVIOUS
<1>1. Types'
  BY TypesStep DEF WalkInv
<1>2. CASE CallBegins
  BY <1>1, <1>2, WalkBegins DEF WalkInv, CallBegins
<1>3. ASSUME NEW gone \in SUBSET rows, BoxRemoved(gone) PROVE WalkInv'
  BY <1>1, <1>3 DEF WalkInv, BoxRemoved
<1>4. CASE FirstPage
  BY <1>1, <1>4, WalkFirst DEF WalkInv
<1>5. CASE NextPage
  BY <1>1, <1>5, WalkNext DEF WalkInv, NextPage
<1>6. CASE Count
  BY <1>1, <1>6, WalkCounts DEF WalkInv, Count
<1>7. CASE Select
  BY <1>1, <1>7, WalkSelects DEF WalkInv, Select
<1>8. CASE Show
  BY <1>1, <1>8, WalkShows DEF WalkInv, Show
<1>9. CASE GetFails
  BY <1>1, <1>9, WalkFails DEF WalkInv, GetFails
<1>10. CASE UNCHANGED pageVars
  <2>1. ASSUME NEW p \in Nat PROVE UpTo(p)' \subseteq UpTo(p)
    BY <1>10, UpToKept
  <2> QED BY <1>1, <1>10, <2>1, WalkSinks DEF WalkInv
<1> QED BY <1>2, <1>3, <1>4, <1>5, <1>6, <1>7, <1>8, <1>9, <1>10 DEF PagesNext

\* For every page size and any number of calls that begin meanwhile: of the calls
\* there were when the walk began, refreshCallLogs has shown every one newer than
\* the oldest it has shown, and all of them once it is on the last page.
THEOREM PagesLeaveNoGap == PagesSafety => []NoGap
<1>1. WalkInv => NoGap
  BY DEF WalkInv, Walk, PageFollows, NoGap
<1> QED BY <1>1, WalkInit, WalkStep, PTL DEF PagesSafety
=============================================================================
