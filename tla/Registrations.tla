---------------------------- MODULE Registrations ----------------------------
(***************************************************************************)
(* The registrar of internal/sipx/service.go over the fxo_boxes and        *)
(* fxo_registrations tables, the loops that clean up after it, and what    *)
(* relies on a registration: an INVITE of a box and a dial to one.         *)
(*                                                                         *)
(* Every REGISTER, INVITE and dial runs in a goroutine of its own and uses *)
(* several statements; the clock is read before the statement it is used   *)
(* in.  A nonce is known by the time it expires, credentials by their      *)
(* version.  A REGISTER comes from one address and names another one, its  *)
(* contact; nothing compares the two.  Calls come from the first and are   *)
(* sent to the second.                                                     *)
(***************************************************************************)
EXTENDS Naturals, FiniteSets

CONSTANTS Boxes,        \* ids of boxes, in the order they are listed
          Registers,    \* REGISTERs under way at a time
          Calls,        \* INVITEs and StartCalls under way at a time
          Hosts, Transports,
          NoHost,       \* the host of a contact that names none
          Sent,         \* what each REGISTER may come with
          Lifetimes,    \* what a REGISTER may ask for; 0 takes it back
          NonceLife,
          MaxTime,      \* bound on the clock
          MaxChange,    \* bound on the changes of a box's credentials
          MaxNonces,    \* bound on the nonces there are at a time
          None

Binding == [contact : Hosts \cup {NoHost}, source : Hosts, transport : Transports]

ASSUME BoxIds == Boxes \subseteq Nat
ASSUME SentAreBindings == Sent \in [Registers -> SUBSET Binding]
ASSUME Times == /\ Lifetimes \subseteq Nat /\ NonceLife \in Nat
                /\ MaxTime \in Nat /\ MaxChange \in Nat /\ MaxNonces \in Nat

VARIABLES
    now,
    boxes, used,  \* the rows of fxo_boxes; ids given out, never again
    creds,        \* version of each box's sip_username and sip_password
    rows,         \* fxo_registrations
    nonces,
    register,     \* each REGISTER under way, or None
    call,         \* each INVITE or StartCall under way, or None
    tick,         \* the clock as cleanupRegistrationsLoop read it, or None
    told,         \* what the last OK told each box: its row, or None
    hasty,        \* history: boxes that did not wait for the answer to a REGISTER
    proven        \* history: boxes with what REGISTERs that knew their credentials said

boxVars == <<boxes, used, creds>>
askVars == <<register, told, hasty, proven>>
regVars == <<now, boxVars, rows, nonces, askVars, call, tick>>

Row == [binding : Binding, until : Nat]
Recipient == [host : Hosts, transport : Transports]

\* Before and after the look-up; until is 0 for a REGISTER that takes back.
Asked == [at : {"nonced"}, box : Boxes, binding : Binding, cred : 0..MaxChange, life : Lifetimes]
Settled == [at : {"write", "erase", "ok", "refused"}, box : Boxes, binding : Binding, until : Nat]

Request == Asked \cup Settled

Read == [at : {"read"}, box : Boxes, source : Hosts, transport : Transports, time : Nat]
Handed == [at : {"handed"}, box : Boxes, source : Hosts, transport : Transports]
Found == [at : {"found"}, box : Boxes, time : Nat]
Inviting == [at : {"inviting"}, box : Boxes, to : Recipient]

Call == Read \cup Handed \cup Found \cup Inviting

ASSUME NoneIsNone == None \notin Row \cup Request \cup Call

RegTypeOK ==
    /\ now \in 0..MaxTime
    /\ boxes \subseteq used /\ used \subseteq Boxes
    /\ creds \in [Boxes -> 0..MaxChange]
    /\ rows \in [Boxes -> Row \cup {None}]
    /\ nonces \subseteq Nat
    /\ register \in [Registers -> Request \cup {None}]
    /\ call \in [Calls -> Call \cup {None}]
    /\ tick \in 0..MaxTime \cup {None}
    /\ told \in [Boxes -> Row \cup {None}]
    /\ hasty \subseteq Boxes
    /\ proven \subseteq Boxes \X Binding

RegInit ==
    /\ now = 0
    /\ boxes = {} /\ used = {}
    /\ creds = [b \in Boxes |-> 0]
    /\ rows = [b \in Boxes |-> None]
    /\ nonces = {}
    /\ register = [r \in Registers |-> None]
    /\ call = [k \in Calls |-> None]
    /\ tick = None
    /\ told = [b \in Boxes |-> None]
    /\ hasty = {} /\ proven = {}

Set(v, x, value) == [v EXCEPT ![x] = value]

---------------------------------------------------------------------------
(* REGISTER.                                                               *)

\* replyAuthChallenge and storeNonce.
storeNonce(kept) ==
    /\ Cardinality(kept) < MaxNonces
    /\ nonces' = kept \cup {now + NonceLife}

\* b has a REGISTER under way.
Waiting(b) == \E r \in Registers : register[r] # None /\ register[r].box = b

\* Without credentials, or with a nonce that is unknown or has expired, which
\* validateNonce forgets.
Challenge ==
    /\ \E n \in nonces \cup {None} :
          /\ n # None => now > n
          /\ storeNonce(nonces \ {n})
    /\ UNCHANGED <<now, boxVars, rows, askVars, call, tick>>

\* onRegister up to validateNonce; the credentials are those the box has or had.
onRegister(r, b, p, c, life) ==
    /\ register[r] = None
    /\ \E n \in nonces : now <= n
    /\ register' = Set(register, r, [at |-> "nonced", box |-> b, binding |-> p,
                                     cred |-> c, life |-> life])
    /\ hasty' = IF Waiting(b) THEN hasty \cup {b} ELSE hasty
    /\ UNCHANGED <<now, boxVars, rows, nonces, told, proven, call, tick>>

Knows(r) == register[r].cred = creds[register[r].box]

\* GetFXOBoxBySIPUsername finds the box and verifyDigestResponse agrees.
verifyDigestResponse(r) == register[r].box \in boxes /\ Knows(r)

Settle(q, at, until) == [at |-> at, box |-> q.box, binding |-> q.binding, until |-> until]

\* What follows is settled here: time.Now is read before UpsertRegistration.
Lookup(r) ==
    LET q == register[r] IN
    /\ q # None /\ q.at = "nonced"
    /\ verifyDigestResponse(r)
    /\ register' = Set(register, r,
           IF q.life = 0 THEN Settle(q, "erase", 0) ELSE Settle(q, "write", now + q.life))
    /\ proven' = proven \cup {x \in {<<q.box, q.binding>>} : Knows(r) /\ q.life # 0}
    /\ UNCHANGED <<now, boxVars, rows, nonces, told, hasty, call, tick>>

\* 403 for an unknown box, 400 without a contact, or another challenge.
Refuse(r) ==
    LET q == register[r] IN
    /\ q # None /\ q.at = "nonced"
    /\ register' = Set(register, r, Settle(q, "refused", 0))
    /\ \/ UNCHANGED nonces
       \/ ~verifyDigestResponse(r) /\ storeNonce(nonces)
    /\ UNCHANGED <<now, boxVars, rows, told, hasty, proven, call, tick>>

GoesOn(r, at) == register' = Set(register, r, Settle(register[r], at, register[r].until))

\* What the REGISTER writes.
Written(q) == [binding |-> q.binding, until |-> q.until]

\* Mutant: the foreign key is not enforced.
UpsertAlways(r) == rows' = Set(rows, register[r].box, Written(register[r]))

\* Mutant: ON CONFLICT leaves contact_uri as it was.
UpsertKeepsContact(r) ==
    LET q == register[r]
        old == rows[q.box]
    IN
    /\ q.box \in boxes
    /\ rows' = Set(rows, q.box, IF old = None THEN Written(q)
           ELSE [Written(q) EXCEPT !.binding.contact = old.binding.contact])

\* The foreign key wants the box to be there still.
UpsertRegistration(r) ==
    /\ register[r].box \in boxes
    /\ rows' = Set(rows, register[r].box, Written(register[r]))

\* Mutant: a failed statement is not reported.
WriteAnyway(r) ==
    /\ register[r] # None /\ register[r].at = "write"
    /\ UpsertRegistration(r) \/ UNCHANGED rows
    /\ GoesOn(r, "ok")
    /\ UNCHANGED <<now, boxVars, nonces, told, hasty, proven, call, tick>>

Write(r) ==
    /\ register[r] # None /\ register[r].at = "write"
    /\ \/ UpsertRegistration(r) /\ GoesOn(r, "ok")
       \/ UNCHANGED rows /\ GoesOn(r, "refused")
    /\ UNCHANGED <<now, boxVars, nonces, told, hasty, proven, call, tick>>

\* DeleteRegistration; OK is the answer even when it fails.
Erase(r) ==
    /\ register[r] # None /\ register[r].at = "erase"
    /\ rows' \in {rows, Set(rows, register[r].box, None)}
    /\ GoesOn(r, "ok")
    /\ UNCHANGED <<now, boxVars, nonces, told, hasty, proven, call, tick>>

\* The answer reaches the box.
Answer(r) ==
    LET q == register[r] IN
    /\ q # None /\ q.at \in {"ok", "refused"}
    /\ told' = IF q.at = "refused" THEN told
               ELSE Set(told, q.box, IF q.until = 0 THEN None ELSE Written(q))
    /\ register' = Set(register, r, None)
    /\ UNCHANGED <<now, boxVars, rows, nonces, hasty, proven, call, tick>>

RegisterStep(r) ==
    \/ \E b \in Boxes, p \in Sent[r], life \in Lifetimes :
          \E c \in 0..creds[b] : onRegister(r, b, p, c, life)
    \/ Lookup(r) \/ Refuse(r) \/ Write(r) \/ Erase(r) \/ Answer(r)

---------------------------------------------------------------------------
(* INVITE and StartCall.                                                   *)

\* onInvite up to ListFXOBoxesWithStatus reading the clock.
InviteRead(k, a, t) ==
    /\ call[k] = None
    /\ \E b \in Boxes :
          call' = Set(call, k, [at |-> "read", box |-> b, source |-> a,
                                transport |-> t, time |-> now])
    /\ UNCHANGED <<now, boxVars, rows, nonces, askVars, tick>>

\* A row that is online and came from the address the INVITE comes from.
Matching(k, b) ==
    /\ b \in boxes
    /\ rows[b] # None
    /\ rows[b].until > call[k].time
    /\ rows[b].binding.source = call[k].source

\* matchInviteRegistration: the box named in From, or the first one when From
\* names nobody.
Picked(k) ==
    LET found == {b \in Boxes : Matching(k, b)} IN
    {b \in found : b = call[k].box \/ \A c \in found : b <= c}

\* The INVITE is handed on if it came over the transport of the row picked, though
\* another row may fit better; 403 otherwise, or without a row.
matchInviteRegistration(k) ==
    /\ call[k] # None /\ call[k].at = "read"
    /\ \/ \E b \in Picked(k) :
             call' = Set(call, k,
                 IF rows[b].binding.transport = call[k].transport
                 THEN [at |-> "handed", box |-> b, source |-> call[k].source,
                       transport |-> call[k].transport]
                 ELSE None)
       \/ ~Matching(k, call[k].box) /\ call' = Set(call, k, None)
    /\ UNCHANGED <<now, boxVars, rows, nonces, askVars, tick>>

\* StartCall: GetFXOBoxByID, and GetActiveRegistration reads the clock.
GetFXOBoxByID(k, b) ==
    /\ call[k] = None
    /\ b \in boxes
    /\ call' = Set(call, k, [at |-> "found", box |-> b, time |-> now])
    /\ UNCHANGED <<now, boxVars, rows, nonces, askVars, tick>>

\* The host of the contact, or where the REGISTER came from if it names none.
recipientForDial(p) ==
    [host |-> IF p.contact = NoHost THEN p.source ELSE p.contact, transport |-> p.transport]

\* Without an active row, "fxo box is offline".
GetActiveRegistration(k) ==
    LET b == call[k].box IN
    /\ call[k] # None /\ call[k].at = "found"
    /\ call' = Set(call, k,
           IF rows[b] # None /\ rows[b].until > call[k].time
           THEN [at |-> "inviting", box |-> b, to |-> recipientForDial(rows[b].binding)]
           ELSE None)
    /\ UNCHANGED <<now, boxVars, rows, nonces, askVars, tick>>

\* The call is over.
InviteOver(k) ==
    /\ call[k] # None /\ call[k].at = "handed"
    /\ call' = Set(call, k, None)
    /\ UNCHANGED <<now, boxVars, rows, nonces, askVars, tick>>

DialOver(k) ==
    /\ call[k] # None /\ call[k].at = "inviting"
    /\ call' = Set(call, k, None)
    /\ UNCHANGED <<now, boxVars, rows, nonces, askVars, tick>>

InviteStep(k) ==
    \/ \E a \in Hosts, t \in Transports : InviteRead(k, a, t)
    \/ matchInviteRegistration(k) \/ InviteOver(k)
DialStep(k) == (\E b \in Boxes : GetFXOBoxByID(k, b)) \/ GetActiveRegistration(k) \/ DialOver(k)

---------------------------------------------------------------------------
(* Boxes, time, loops.                                                     *)

\* Mutant: an id is given out again, as without AUTOINCREMENT.
CreateAgain(b) ==
    /\ b \notin boxes
    /\ boxes' = boxes \cup {b}
    /\ UNCHANGED <<now, used, creds, rows, nonces, askVars, call, tick>>

CreateFXOBox(b) ==
    /\ b \notin used
    /\ boxes' = boxes \cup {b} /\ used' = used \cup {b}
    /\ UNCHANGED <<now, creds, rows, nonces, askVars, call, tick>>

\* The registration stays.
UpdateFXOBox(b) ==
    /\ b \in boxes
    /\ creds[b] < MaxChange
    /\ creds' = Set(creds, b, creds[b] + 1)
    /\ UNCHANGED <<now, boxes, used, rows, nonces, askVars, call, tick>>

\* The registration goes with it.
DeleteFXOBox(b) ==
    /\ b \in boxes
    /\ boxes' = boxes \ {b}
    /\ rows' = Set(rows, b, None)
    /\ UNCHANGED <<now, used, creds, nonces, askVars, call, tick>>

BoxStep(b) == CreateFXOBox(b) \/ UpdateFXOBox(b) \/ DeleteFXOBox(b)

Clock ==
    /\ now < MaxTime
    /\ now' = now + 1
    /\ UNCHANGED <<boxVars, rows, nonces, askVars, call, tick>>

\* cleanupRegistrationsLoop: CleanupExpiredRegistrations reads the clock,
CleanupTick ==
    /\ tick = None
    /\ tick' = now
    /\ UNCHANGED <<now, boxVars, rows, nonces, askVars, call>>

\* Mutant: a row is removed in the second in which it could still be used.
ExpiredEarly(row, time) == row.until <= time + 1

Expired(row, time) == row.until <= time

\* Mutant: the clock is read once, before the loop.
DeleteByFirstTick ==
    /\ tick # None
    /\ rows' = [b \in Boxes |-> IF rows[b] # None /\ Expired(rows[b], tick)
                                THEN None ELSE rows[b]]
    /\ UNCHANGED <<now, boxVars, nonces, askVars, call, tick>>

\* and deletes, unless the statement fails.
CleanupDelete ==
    /\ tick # None
    /\ rows' = [b \in Boxes |-> IF rows[b] # None /\ Expired(rows[b], tick)
                                THEN None ELSE rows[b]]
    /\ tick' = None
    /\ UNCHANGED <<now, boxVars, nonces, askVars, call>>

CleanupFails ==
    /\ tick # None
    /\ tick' = None
    /\ UNCHANGED <<now, boxVars, rows, nonces, askVars, call>>

cleanupNoncesLoop ==
    /\ nonces' = {n \in nonces : now <= n}
    /\ UNCHANGED <<now, boxVars, rows, askVars, call, tick>>

LoopStep == CleanupTick \/ CleanupDelete \/ CleanupFails \/ cleanupNoncesLoop

RegNext ==
    \/ Challenge
    \/ \E r \in Registers : RegisterStep(r)
    \/ \E k \in Calls : InviteStep(k) \/ DialStep(k)
    \/ \E b \in Boxes : BoxStep(b)
    \/ Clock \/ LoopStep

RegSafety == RegInit /\ [][RegNext]_regVars

\* The tickers go on, and a statement does not fail for ever.
RegFairness ==
    /\ WF_regVars(CleanupTick) /\ SF_regVars(CleanupDelete)
    /\ WF_regVars(cleanupNoncesLoop)

RegSpec == RegSafety /\ RegFairness

---------------------------------------------------------------------------
\* The two addresses of a row are those of one REGISTER that knew the credentials
\* of the box: a dial goes where such a REGISTER asked for it, and a call is taken
\* from where such a REGISTER came from, over its transport, whatever REGISTERs,
\* changes and clean-ups came in between.  That the address dialled has shown
\* anything itself, the code does not promise.
OnlyProven ==
    \A k \in Calls : call[k] # None =>
        /\ call[k].at = "inviting" =>
              \E p \in Binding : /\ <<call[k].box, p>> \in proven
                                /\ call[k].to = recipientForDial(p)
        /\ call[k].at = "handed" =>
              \E p \in Binding : /\ <<call[k].box, p>> \in proven
                                /\ p.source = call[k].source
                                /\ p.transport = call[k].transport

\* A box that has been removed is not registered by a REGISTER it still had under
\* way, nor found by an INVITE: ids are not used again.
RowsHaveBoxes == \A b \in Boxes : rows[b] # None => b \in boxes

\* A box that has always waited for its answers is registered for as long, and with
\* the addresses, the last OK said: no clean-up and no REGISTER of its own takes that
\* away.
RegisteredStays ==
    \A b \in boxes \ hasty :
        ~Waiting(b) /\ told[b] # None /\ told[b].until > now => rows[b] = told[b]

\* The clean-up takes no row that a dial could still use, though the clock it
\* compares with was read before.
CleanupSparesActive ==
    [][\A b \in Boxes :
          CleanupDelete /\ rows[b] # None /\ rows[b].until > now => rows'[b] = rows[b]]_regVars

\* A registration that has expired is removed, or renewed, although a clean-up may
\* fail; a nonce that has expired is forgotten, also when nobody uses it.
ExpiredGoes ==
    /\ \A b \in Boxes :
        (rows[b] # None /\ rows[b].until <= now) ~> (rows[b] = None \/ rows[b].until > now)
    /\ \A n \in 0..(MaxTime - 1) : (n \in nonces /\ n < now) ~> n \notin nonces

---------------------------------------------------------------------------
\* service.go, onRegister: "FXO unregistered".  A box that has always waited
\* for its answers and was told so is offline.
UnregisteredIsOffline ==
    \A b \in boxes \ hasty : ~Waiting(b) /\ told[b] = None => rows[b] = None

\* manager.go, StartCall: "fxo box is offline".  A box that is offline is not
\* dialled.
OfflineNotDialled ==
    \A k \in Calls : call[k] # None /\ call[k].at = "inviting" => rows[call[k].box] # None
=============================================================================
