------------------------- MODULE Registrations_proofs -------------------------
(***************************************************************************)
(* The registrar, for any boxes, addresses, REGISTERs, INVITEs and dials:  *)
(* types, no row without a box, a row that is all of one REGISTER that     *)
(* knew the credentials, a clean-up that takes nothing that can be used,   *)
(* and a box that waits for its answers stays registered as it was told.   *)
(***************************************************************************)
EXTENDS Registrations, TLAPS

USE DEF Set

LEMMA RegTypeInit == RegInit => RegTypeOK
BY Times DEF RegInit, RegTypeOK

\* What a REGISTER under way holds.
LEMMA RequestHas ==
    ASSUME RegTypeOK, NEW r \in Registers, register[r] # None
    PROVE  /\ register[r].box \in Boxes
           /\ register[r].binding \in Binding
           /\ register[r].at = "nonced" => register[r].life \in Nat
           /\ register[r].at # "nonced" => register[r].until \in Nat
<1>1. register[r] \in Asked \/ register[r] \in Settled
  BY DEF RegTypeOK, Request
<1>2. CASE register[r] \in Asked
  BY <1>2, Times DEF Asked
<1>3. CASE register[r] \in Settled
  BY <1>3 DEF Settled
<1> QED BY <1>1, <1>2, <1>3

\* What an INVITE or a StartCall under way holds.
LEMMA CallHas ==
    ASSUME RegTypeOK, NEW k \in Calls, call[k] # None
    PROVE  /\ call[k].box \in Boxes
           /\ call[k].at = "read" => call[k].source \in Hosts /\ call[k].transport \in Transports
<1>1. call[k] \in Read \/ call[k] \in Handed \/ call[k] \in Found \/ call[k] \in Inviting
  BY DEF RegTypeOK, Call
<1>2. CASE call[k] \in Read
  BY <1>2 DEF Read
<1>3. CASE call[k] \in Handed
  BY <1>3 DEF Handed
<1>4. CASE call[k] \in Found
  BY <1>4 DEF Found
<1>5. CASE call[k] \in Inviting
  BY <1>5 DEF Inviting
<1> QED BY <1>1, <1>2, <1>3, <1>4, <1>5

LEMMA SettleTyped ==
    ASSUME RegTypeOK, NEW r \in Registers, register[r] # None, NEW t \in Nat,
           NEW at \in {"write", "erase", "ok", "refused"}
    PROVE  Settle(register[r], at, t) \in Request \cup {None}
BY RequestHas DEF Settle, Settled, Request

LEMMA WrittenTyped ==
    ASSUME RegTypeOK, NEW r \in Registers, register[r] # None, register[r].at # "nonced"
    PROVE  Written(register[r]) \in Row
BY RequestHas DEF Written, Row

\* A REGISTER under way keeps its type.
LEMMA RegisterTypes ==
    ASSUME RegTypeOK, NEW r \in Registers, RegisterStep(r)
    PROVE  register' \in [Registers -> Request \cup {None}]
<1>0. register \in [Registers -> Request \cup {None}]
  BY DEF RegTypeOK
<1>1. ASSUME NEW b \in Boxes, NEW p \in Sent[r], NEW c \in 0..creds[b], NEW life \in Lifetimes,
             onRegister(r, b, p, c, life)
      PROVE  register' \in [Registers -> Request \cup {None}]
  <2>1. p \in Binding /\ c \in 0..MaxChange
    BY SentAreBindings, Times DEF RegTypeOK
  <2>2. [at |-> "nonced", box |-> b, binding |-> p, cred |-> c, life |-> life] \in Request
    BY <2>1 DEF Request, Asked
  <2> QED BY <1>0, <1>1, <2>2 DEF onRegister
<1>2. CASE Lookup(r)
  <2>1. now \in Nat
    BY Times DEF RegTypeOK
  <2>2. register[r] # None /\ register[r].life \in Nat
    BY <1>2, RequestHas DEF Lookup
  <2>3. /\ Settle(register[r], "erase", 0) \in Request \cup {None}
        /\ Settle(register[r], "write", now + register[r].life) \in Request \cup {None}
    BY <2>1, <2>2, SettleTyped
  <2> QED BY <1>0, <1>2, <2>3 DEF Lookup
<1>3. CASE Refuse(r)
  <2>1. Settle(register[r], "refused", 0) \in Request \cup {None}
    BY <1>3, SettleTyped DEF Refuse
  <2> QED BY <1>0, <1>3, <2>1 DEF Refuse
<1>4. CASE Write(r) \/ Erase(r)
  <2>1. register[r] # None /\ register[r].at # "nonced"
    BY <1>4 DEF Write, Erase
  <2>2. /\ Settle(register[r], "ok", register[r].until) \in Request \cup {None}
        /\ Settle(register[r], "refused", register[r].until) \in Request \cup {None}
    BY <2>1, RequestHas, SettleTyped
  <2>3. GoesOn(r, "ok") \/ GoesOn(r, "refused")
    BY <1>4 DEF Write, Erase
  <2> QED BY <1>0, <2>2, <2>3 DEF GoesOn
<1>5. CASE Answer(r)
  BY <1>0, <1>5 DEF Answer
<1> QED BY <1>1, <1>2, <1>3, <1>4, <1>5 DEF RegisterStep

\* What a REGISTER does to the rest.
LEMMA RegisterRest ==
    ASSUME RegTypeOK, NEW r \in Registers, RegisterStep(r)
    PROVE  /\ rows' \in [Boxes -> Row \cup {None}]
           /\ told' \in [Boxes -> Row \cup {None}]
           /\ nonces' \subseteq Nat
           /\ hasty' \subseteq Boxes /\ hasty \subseteq hasty'
           /\ proven' \subseteq Boxes \X Binding
           /\ UNCHANGED <<now, boxVars, call, tick>>
<1>0. /\ rows \in [Boxes -> Row \cup {None}] /\ told \in [Boxes -> Row \cup {None}]
      /\ nonces \subseteq Nat /\ now \in Nat
      /\ hasty \subseteq Boxes /\ proven \subseteq Boxes \X Binding
  BY Times DEF RegTypeOK
<1>1. ASSUME NEW b \in Boxes, NEW p \in Sent[r], NEW c \in 0..creds[b], NEW life \in Lifetimes,
             onRegister(r, b, p, c, life)
      PROVE  /\ UNCHANGED <<rows, told, nonces, proven, now, boxVars, call, tick>>
             /\ hasty' \subseteq Boxes /\ hasty \subseteq hasty'
  BY <1>0, <1>1 DEF onRegister
<1>2. CASE Lookup(r)
  <2>1. <<register[r].box, register[r].binding>> \in Boxes \X Binding
    BY <1>2, RequestHas DEF Lookup
  <2>2. proven' \subseteq Boxes \X Binding
    BY <1>0, <1>2, <2>1 DEF Lookup
  <2> QED BY <1>0, <1>2, <2>2 DEF Lookup
<1>3. CASE Refuse(r)
  <2>1. now + NonceLife \in Nat
    BY <1>0, Times
  <2>2. nonces' \subseteq Nat
    BY <1>0, <1>3, <2>1 DEF Refuse, storeNonce
  <2> QED BY <1>0, <1>3, <2>2 DEF Refuse
<1>4. CASE Write(r)
  <2>1. Written(register[r]) \in Row
    BY <1>4, WrittenTyped DEF Write
  <2>2. rows' \in [Boxes -> Row \cup {None}]
    BY <1>0, <1>4, <2>1 DEF Write, UpsertRegistration
  <2> QED BY <1>0, <1>4, <2>2 DEF Write
<1>5. CASE Erase(r)
  <2>1. rows' \in [Boxes -> Row \cup {None}]
    BY <1>0, <1>5 DEF Erase
  <2> QED BY <1>0, <1>5, <2>1 DEF Erase
<1>6. CASE Answer(r)
  <2>1. Written(register[r]) \in Row
    BY <1>6, WrittenTyped DEF Answer
  <2>2. told' \in [Boxes -> Row \cup {None}]
    BY <1>0, <1>6, <2>1 DEF Answer
  <2> QED BY <1>0, <1>6, <2>2 DEF Answer
<1> QED BY <1>0, <1>1, <1>2, <1>3, <1>4, <1>5, <1>6 DEF RegisterStep

LEMMA InviteTypes ==
    ASSUME RegTypeOK, NEW k \in Calls, InviteStep(k)
    PROVE  /\ call' \in [Calls -> Call \cup {None}]
           /\ UNCHANGED <<now, boxVars, rows, nonces, askVars, tick>>
<1>0. call \in [Calls -> Call \cup {None}] /\ now \in Nat
  BY Times DEF RegTypeOK
<1>1. ASSUME NEW a \in Hosts, NEW t \in Transports, InviteRead(k, a, t)
      PROVE  call' \in [Calls -> Call \cup {None}]
  <2>1. PICK b \in Boxes : call' = [call EXCEPT ![k] = [at |-> "read", box |-> b, source |-> a,
                                                      transport |-> t, time |-> now]]
    BY <1>1 DEF InviteRead
  <2>2. [at |-> "read", box |-> b, source |-> a, transport |-> t, time |-> now] \in Call
    BY <1>0 DEF Call, Read
  <2> QED BY <1>0, <2>1, <2>2
<1>2. ASSUME matchInviteRegistration(k)
      PROVE  call' \in [Calls -> Call \cup {None}]
  <2> DEFINE x(b) == [at |-> "handed", box |-> b, source |-> call[k].source,
                      transport |-> call[k].transport]
  <2>1. \A b \in Boxes : x(b) \in Call
    BY <1>2, CallHas DEF matchInviteRegistration, Call, Handed
  <2>2. call' = [call EXCEPT ![k] = None] \/ \E b \in Boxes : call' = [call EXCEPT ![k] = x(b)]
    BY <1>2 DEF matchInviteRegistration, Picked
  <2> HIDE DEF x
  <2> QED BY <1>0, <2>1, <2>2
<1>3. ASSUME InviteOver(k)
      PROVE  call' \in [Calls -> Call \cup {None}]
  BY <1>0, <1>3 DEF InviteOver
<1> QED
  BY <1>1, <1>2, <1>3 DEF InviteStep, InviteRead, matchInviteRegistration, InviteOver

LEMMA DialTypes ==
    ASSUME RegTypeOK, NEW k \in Calls, DialStep(k)
    PROVE  /\ call' \in [Calls -> Call \cup {None}]
           /\ UNCHANGED <<now, boxVars, rows, nonces, askVars, tick>>
<1>0. call \in [Calls -> Call \cup {None}] /\ now \in Nat
  BY Times DEF RegTypeOK
<1>1. ASSUME NEW b \in Boxes, GetFXOBoxByID(k, b)
      PROVE  call' \in [Calls -> Call \cup {None}]
  <2>1. [at |-> "found", box |-> b, time |-> now] \in Call
    BY <1>0 DEF Call, Found
  <2> QED BY <1>0, <1>1, <2>1 DEF GetFXOBoxByID
<1>2. CASE GetActiveRegistration(k)
  <2> DEFINE b == call[k].box
             x == [at |-> "inviting", box |-> b, to |-> recipientForDial(rows[b].binding)]
  <2>1. b \in Boxes
    BY <1>2, CallHas DEF GetActiveRegistration
  <2>2. rows[b] # None => x \in Call
    <3>1. rows[b] # None => rows[b].binding \in Binding
      BY <2>1 DEF RegTypeOK, Row
    <3>2. rows[b] # None => recipientForDial(rows[b].binding) \in Recipient
      BY <3>1 DEF recipientForDial, Recipient, Binding
    <3> QED BY <2>1, <3>2 DEF Call, Inviting
  <2>3. CASE rows[b] # None /\ rows[b].until > call[k].time
    <3>1. call' = [call EXCEPT ![k] = x]
      BY <1>2, <2>3 DEF GetActiveRegistration
    <3>2. x \in Call
      BY <2>2, <2>3
    <3>3. call' \in [Calls -> Call \cup {None}]
      <4> HIDE DEF x
      <4> QED BY <1>0, <3>1, <3>2
    <3> QED BY <1>2, <3>3 DEF GetActiveRegistration
  <2>4. CASE ~(rows[b] # None /\ rows[b].until > call[k].time)
    BY <1>0, <1>2, <2>4 DEF GetActiveRegistration
  <2> QED BY <2>3, <2>4
<1>3. CASE DialOver(k)
  BY <1>0, <1>3 DEF DialOver
<1> QED BY <1>1, <1>2, <1>3 DEF DialStep, GetFXOBoxByID, GetActiveRegistration, DialOver

LEMMA BoxTypes ==
    ASSUME RegTypeOK, NEW b \in Boxes, BoxStep(b)
    PROVE  /\ boxes' \subseteq used' /\ used' \subseteq Boxes
           /\ creds' \in [Boxes -> 0..MaxChange]
           /\ rows' \in [Boxes -> Row \cup {None}]
           /\ UNCHANGED <<now, nonces, askVars, call, tick>>
<1> USE DEF RegTypeOK, Request
<1>1. CASE CreateFXOBox(b)
  BY <1>1 DEF CreateFXOBox
<1>2. CASE UpdateFXOBox(b)
  BY <1>2, Times DEF UpdateFXOBox, Set
<1>3. CASE DeleteFXOBox(b)
  BY <1>3 DEF DeleteFXOBox, Set
<1> QED BY <1>1, <1>2, <1>3 DEF BoxStep

LEMMA LoopTypes ==
    ASSUME RegTypeOK, LoopStep
    PROVE  /\ rows' \in [Boxes -> Row \cup {None}]
           /\ nonces' \subseteq Nat
           /\ tick' \in 0..MaxTime \cup {None}
           /\ UNCHANGED <<now, boxVars, askVars, call>>
<1> USE DEF RegTypeOK, Request
<1>1. CASE CleanupTick
  BY <1>1 DEF CleanupTick
<1>2. CASE CleanupDelete
  BY <1>2 DEF CleanupDelete
<1>3. CASE CleanupFails
  BY <1>3 DEF CleanupFails
<1>4. CASE cleanupNoncesLoop
  BY <1>4 DEF cleanupNoncesLoop
<1> QED BY <1>1, <1>2, <1>3, <1>4 DEF LoopStep

LEMMA RegTypeStep == RegTypeOK /\ [RegNext]_regVars => RegTypeOK'
<1> SUFFICES ASSUME RegTypeOK, [RegNext]_regVars PROVE RegTypeOK'
  OBVIOUS
<1>1. CASE Challenge
  BY <1>1, Times DEF Challenge, storeNonce, RegTypeOK, boxVars, askVars
<1>2. ASSUME NEW r \in Registers, RegisterStep(r) PROVE RegTypeOK'
  BY <1>2, RegisterTypes, RegisterRest DEF RegTypeOK, boxVars
<1>3. ASSUME NEW k \in Calls, InviteStep(k) PROVE RegTypeOK'
  BY <1>3, InviteTypes DEF RegTypeOK, boxVars, askVars
<1>4. ASSUME NEW k \in Calls, DialStep(k) PROVE RegTypeOK'
  BY <1>4, DialTypes DEF RegTypeOK, boxVars, askVars
<1>5. ASSUME NEW b \in Boxes, BoxStep(b) PROVE RegTypeOK'
  BY <1>5, BoxTypes DEF RegTypeOK, askVars
<1>6. CASE Clock
  BY <1>6, Times DEF Clock, RegTypeOK, boxVars, askVars
<1>7. CASE LoopStep
  BY <1>7, LoopTypes DEF RegTypeOK, boxVars, askVars
<1>8. CASE UNCHANGED regVars
  BY <1>8 DEF regVars, RegTypeOK, boxVars, askVars
<1> QED BY <1>1, <1>2, <1>3, <1>4, <1>5, <1>6, <1>7, <1>8 DEF RegNext

\* The type invariant of the registrar.
THEOREM RegistrarTyped == RegSafety => []RegTypeOK
BY RegTypeInit, RegTypeStep, PTL DEF RegSafety
---------------------------------------------------------------------------
(* Rows and proofs of credentials.                                         *)

\* What a row, and a REGISTER about to write one, says is proven.
RowsProven ==
    /\ \A b \in Boxes : rows[b] # None => <<b, rows[b].binding>> \in proven
    /\ \A r \in Registers : register[r] # None /\ register[r].at = "write"
          => <<register[r].box, register[r].binding>> \in proven

ProvenInv == RowsHaveBoxes /\ RowsProven /\ OnlyProven

\* Rows only go, and what has been proven stays.
LEMMA ProvenFrame ==
    ASSUME RegTypeOK, ProvenInv,
           \A b \in Boxes : rows'[b] \in {rows[b], None},
           boxes \subseteq boxes' \/ (\E b \in Boxes : boxes' = boxes \ {b} /\ rows'[b] = None),
           proven \subseteq proven', UNCHANGED <<register, call>>
    PROVE  ProvenInv'
<1>1. RowsHaveBoxes'
  BY DEF ProvenInv, RowsHaveBoxes
<1>2. RowsProven'
  BY DEF ProvenInv, RowsProven
<1>3. OnlyProven'
  BY DEF ProvenInv, OnlyProven
<1> QED BY <1>1, <1>2, <1>3 DEF ProvenInv

LEMMA ProvenRegister ==
    ASSUME RegTypeOK, ProvenInv, NEW r \in Registers, RegisterStep(r)
    PROVE  ProvenInv'
<1>0. UNCHANGED <<boxes, call>> /\ rows \in [Boxes -> Row \cup {None}]
  BY RegisterRest DEF boxVars, RegTypeOK
<1>r. \A s \in Registers \ {r} : register'[s] = register[s]
  BY DEF RegisterStep, onRegister, Lookup, Refuse, Write, Erase, Answer, GoesOn, RegTypeOK
<1>h. register[r] # None => register[r].box \in Boxes
  BY RequestHas
<1>t. register \in [Registers -> Request \cup {None}]
  BY DEF RegTypeOK
<1>1. ASSUME proven \subseteq proven', UNCHANGED rows,
             register'[r] # None /\ register'[r].at = "write"
             => <<register'[r].box, register'[r].binding>> \in proven'
      PROVE  ProvenInv'
  BY <1>0, <1>r, <1>1 DEF ProvenInv, RowsHaveBoxes, RowsProven, OnlyProven
<1>2. ASSUME NEW b \in Boxes, NEW p \in Sent[r], NEW c \in 0..creds[b], NEW life \in Lifetimes,
             onRegister(r, b, p, c, life)
      PROVE  ProvenInv'
  <2>1. register'[r].at = "nonced" /\ UNCHANGED <<rows, proven>>
    BY <1>2, <1>t DEF onRegister
  <2> QED BY <2>1, <1>1
<1>3. CASE Lookup(r)
  <2>1. proven \subseteq proven' /\ UNCHANGED rows
    BY <1>3 DEF Lookup
  <2>2. CASE register[r].life = 0
    <3>1. register'[r] = Settle(register[r], "erase", 0)
      BY <1>3, <1>t, <2>2 DEF Lookup
    <3> QED BY <2>1, <3>1, <1>1 DEF Settle
  <2>3. CASE register[r].life # 0
    <3>1. register'[r] = Settle(register[r], "write", now + register[r].life)
      BY <1>3, <1>t, <2>3 DEF Lookup
    <3>2. <<register[r].box, register[r].binding>> \in proven'
      BY <1>3, <2>3 DEF Lookup, verifyDigestResponse
    <3> QED BY <2>1, <3>1, <3>2, <1>1 DEF Settle
  <2> QED BY <2>2, <2>3
<1>4. CASE Refuse(r)
  <2>1. register'[r].at = "refused" /\ UNCHANGED <<rows, proven>>
    BY <1>4, <1>t DEF Refuse, Settle
  <2> QED BY <2>1, <1>1
<1>5. CASE Write(r)
  <2>1. register'[r].at \in {"ok", "refused"} /\ UNCHANGED proven
    BY <1>5, <1>t DEF Write, GoesOn, Settle
  <2>2. CASE UNCHANGED rows
    BY <2>1, <2>2, <1>1
  <2>3. CASE UpsertRegistration(r)
    <3>1. /\ register[r].box \in boxes /\ register[r].box \in Boxes
          /\ rows' = [rows EXCEPT ![register[r].box] = Written(register[r])]
          /\ <<register[r].box, register[r].binding>> \in proven
      BY <1>5, <1>h, <2>3 DEF UpsertRegistration, Write, ProvenInv, RowsProven
    <3>2. /\ rows'[register[r].box].binding = register[r].binding
          /\ \A b \in Boxes \ {register[r].box} : rows'[b] = rows[b]
      BY <1>0, <3>1 DEF Written
    <3>3. RowsHaveBoxes'
      BY <1>0, <3>1, <3>2 DEF ProvenInv, RowsHaveBoxes
    <3>4. RowsProven'
      BY <1>r, <2>1, <3>1, <3>2 DEF ProvenInv, RowsProven
    <3>5. OnlyProven'
      BY <1>0, <2>1 DEF ProvenInv, OnlyProven
    <3> QED BY <3>3, <3>4, <3>5 DEF ProvenInv
  <2> QED BY <1>5, <2>2, <2>3 DEF Write
<1>6. CASE Erase(r)
  <2>1. /\ register'[r].at = "ok" /\ UNCHANGED proven
        /\ \A b \in Boxes : rows'[b] \in {rows[b], None}
    BY <1>0, <1>6, <1>t DEF Erase, GoesOn, Settle
  <2>2. RowsHaveBoxes'
    BY <1>0, <2>1 DEF ProvenInv, RowsHaveBoxes
  <2>3. RowsProven'
    BY <1>r, <2>1 DEF ProvenInv, RowsProven
  <2>4. OnlyProven'
    BY <1>0, <2>1 DEF ProvenInv, OnlyProven
  <2> QED BY <2>2, <2>3, <2>4 DEF ProvenInv
<1>7. CASE Answer(r)
  <2>1. register'[r] = None /\ UNCHANGED <<rows, proven>>
    BY <1>7, <1>t DEF Answer
  <2> QED BY <2>1, <1>1
<1> QED BY <1>2, <1>3, <1>4, <1>5, <1>6, <1>7 DEF RegisterStep

\* What OnlyProven says of one call.
CallProven(k) ==
    call[k] # None =>
        /\ call[k].at = "inviting" =>
              \E p \in Binding : /\ <<call[k].box, p>> \in proven
                                /\ call[k].to = recipientForDial(p)
        /\ call[k].at = "handed" =>
              \E p \in Binding : /\ <<call[k].box, p>> \in proven
                                /\ p.source = call[k].source
                                /\ p.transport = call[k].transport

LEMMA ProvenCall ==
    ASSUME ProvenInv, NEW k \in Calls, \A j \in Calls \ {k} : call'[j] = call[j],
           UNCHANGED <<boxes, rows, register, proven>>, CallProven(k)'
    PROVE  ProvenInv'
<1>1. OnlyProven'
  BY DEF ProvenInv, OnlyProven, CallProven
<1>2. RowsProven' /\ RowsHaveBoxes'
  BY DEF ProvenInv, RowsProven, RowsHaveBoxes
<1> QED BY <1>1, <1>2 DEF ProvenInv

LEMMA ProvenInvite ==
    ASSUME RegTypeOK, ProvenInv, NEW k \in Calls, InviteStep(k)
    PROVE  ProvenInv'
<1>0. UNCHANGED <<boxes, rows, register, proven>>
  BY InviteTypes DEF boxVars, askVars
<1>t. call \in [Calls -> Call \cup {None}]
  BY DEF RegTypeOK
<1>1. \A j \in Calls \ {k} : call'[j] = call[j]
  BY <1>t DEF InviteStep, InviteRead, matchInviteRegistration, InviteOver
<1>2. CallProven(k)'
  <2>1. CASE \E a \in Hosts, t \in Transports : InviteRead(k, a, t)
    BY <1>t, <2>1 DEF InviteRead, CallProven
  <2>2. CASE matchInviteRegistration(k)
    <3>1. CASE call'[k] = None
      BY <3>1 DEF CallProven
    <3>2. ASSUME NEW b \in Picked(k), rows[b].binding.transport = call[k].transport,
                 call' = [call EXCEPT ![k] = [at |-> "handed", box |-> b, source |-> call[k].source,
                                              transport |-> call[k].transport]]
          PROVE  CallProven(k)'
      <4>1. /\ b \in Boxes /\ rows[b] # None
            /\ rows[b].binding.source = call[k].source
            /\ rows[b].binding.transport = call[k].transport
        BY <3>2 DEF Picked, Matching
      <4>2. rows[b].binding \in Binding /\ <<b, rows[b].binding>> \in proven
        BY <4>1 DEF RegTypeOK, Row, ProvenInv, RowsProven
      <4>3. /\ call'[k].at = "handed" /\ call'[k].box = b
            /\ call'[k].source = call[k].source /\ call'[k].transport = call[k].transport
        BY <1>t, <3>2
      <4> QED BY <1>0, <4>1, <4>2, <4>3 DEF CallProven
    <3>3. CASE call' = [call EXCEPT ![k] = None]
      BY <1>t, <3>1, <3>3
    <3> QED BY <2>2, <3>2, <3>3 DEF matchInviteRegistration
  <2>3. CASE InviteOver(k)
    BY <1>t, <2>3 DEF InviteOver, CallProven
  <2> QED BY <2>1, <2>2, <2>3 DEF InviteStep
<1> QED BY <1>0, <1>1, <1>2, ProvenCall

LEMMA ProvenDial ==
    ASSUME RegTypeOK, ProvenInv, NEW k \in Calls, DialStep(k)
    PROVE  ProvenInv'
<1>0. UNCHANGED <<boxes, rows, register, proven>>
  BY DialTypes DEF boxVars, askVars
<1>t. call \in [Calls -> Call \cup {None}]
  BY DEF RegTypeOK
<1>1. \A j \in Calls \ {k} : call'[j] = call[j]
  BY <1>t DEF DialStep, GetFXOBoxByID, GetActiveRegistration, DialOver
<1>2. CallProven(k)'
  <2>1. CASE \E b \in Boxes : GetFXOBoxByID(k, b)
    BY <1>t, <2>1 DEF GetFXOBoxByID, CallProven
  <2>2. CASE GetActiveRegistration(k)
    <3> DEFINE b == call[k].box
    <3>1. b \in Boxes
      BY <2>2, CallHas DEF GetActiveRegistration
    <3>2. CASE rows[b] # None /\ rows[b].until > call[k].time
      <4>1. rows[b].binding \in Binding /\ <<b, rows[b].binding>> \in proven
        BY <3>1, <3>2 DEF RegTypeOK, Row, ProvenInv, RowsProven
      <4>2. /\ call'[k].at = "inviting" /\ call'[k].box = b
            /\ call'[k].to = recipientForDial(rows[b].binding)
        BY <1>t, <2>2, <3>2 DEF GetActiveRegistration
      <4> QED BY <1>0, <4>1, <4>2 DEF CallProven
    <3>3. CASE ~(rows[b] # None /\ rows[b].until > call[k].time)
      BY <1>t, <2>2, <3>3 DEF GetActiveRegistration, CallProven
    <3> QED BY <3>2, <3>3
  <2>3. CASE DialOver(k)
    BY <1>t, <2>3 DEF DialOver, CallProven
  <2> QED BY <2>1, <2>2, <2>3 DEF DialStep
<1> QED BY <1>0, <1>1, <1>2, ProvenCall

LEMMA ProvenStep == RegTypeOK /\ ProvenInv /\ [RegNext]_regVars => ProvenInv'
<1> SUFFICES ASSUME RegTypeOK, ProvenInv, [RegNext]_regVars PROVE ProvenInv'
  OBVIOUS
<1> USE DEF boxVars, askVars
<1>1. CASE Challenge \/ Clock \/ UNCHANGED regVars
  <2>1. UNCHANGED <<rows, boxes, proven, register, call>>
    BY <1>1 DEF Challenge, Clock, regVars
  <2> QED BY <2>1, ProvenFrame
<1>2. ASSUME NEW b \in Boxes, BoxStep(b) PROVE ProvenInv'
  <2>1. UNCHANGED <<proven, register, call>>
    BY <1>2, BoxTypes
  <2>2. \A x \in Boxes : rows'[x] \in {rows[x], None}
    BY <1>2 DEF BoxStep, CreateFXOBox, UpdateFXOBox, DeleteFXOBox, RegTypeOK
  <2>3. boxes \subseteq boxes' \/ (boxes' = boxes \ {b} /\ rows'[b] = None)
    BY <1>2 DEF BoxStep, CreateFXOBox, UpdateFXOBox, DeleteFXOBox, RegTypeOK
  <2> QED BY <2>1, <2>2, <2>3, ProvenFrame
<1>3. CASE LoopStep
  <2>1. UNCHANGED <<proven, register, call, boxes>>
    BY <1>3, LoopTypes
  <2>2. \A x \in Boxes : rows'[x] \in {rows[x], None}
    BY <1>3 DEF LoopStep, CleanupTick, CleanupDelete, CleanupFails, cleanupNoncesLoop
  <2> QED BY <2>1, <2>2, ProvenFrame
<1> QED BY <1>1, <1>2, <1>3, ProvenRegister, ProvenInvite, ProvenDial DEF RegNext

LEMMA ProvenInit == RegInit => ProvenInv
BY DEF RegInit, ProvenInv, RowsHaveBoxes, RowsProven, OnlyProven

\* No row is left without its box, or appears after its box has gone.
THEOREM RowsAlwaysHaveBoxes == RegSafety => []RowsHaveBoxes
BY ProvenInit, ProvenStep, RegTypeInit, RegTypeStep, PTL DEF RegSafety, ProvenInv

\* Dials go to, and calls come from, what one REGISTER of the box said that knew its
\* credentials.
THEOREM AlwaysProven == RegSafety => []OnlyProven
BY ProvenInit, ProvenStep, RegTypeInit, RegTypeStep, PTL DEF RegSafety, ProvenInv
---------------------------------------------------------------------------
(* The clean-up.                                                           *)

TickInv == tick # None => tick <= now

LEMMA TickStep == RegTypeOK /\ TickInv /\ [RegNext]_regVars => TickInv'
<1> SUFFICES ASSUME RegTypeOK, TickInv, [RegNext]_regVars PROVE TickInv'
  OBVIOUS
<1> USE DEF TickInv
<1>0. ASSUME UNCHANGED <<now, tick>> PROVE TickInv'
  BY <1>0
<1>1. CASE Challenge \/ UNCHANGED regVars
  BY <1>1 DEF Challenge, regVars
<1>2. CASE Clock
  BY <1>2, Times DEF Clock, RegTypeOK
<1>3. CASE LoopStep
  BY <1>3, Times DEF LoopStep, CleanupTick, CleanupDelete, CleanupFails, cleanupNoncesLoop, RegTypeOK
<1>4. ASSUME NEW r \in Registers, RegisterStep(r) PROVE TickInv'
  BY <1>4, <1>0, RegisterRest
<1>5. ASSUME NEW k \in Calls, InviteStep(k) PROVE TickInv'
  BY <1>5, <1>0, InviteTypes
<1>6. ASSUME NEW k \in Calls, DialStep(k) PROVE TickInv'
  BY <1>6, <1>0, DialTypes
<1>7. ASSUME NEW b \in Boxes, BoxStep(b) PROVE TickInv'
  BY <1>7, <1>0, BoxTypes
<1> QED BY <1>1, <1>2, <1>3, <1>4, <1>5, <1>6, <1>7 DEF RegNext

\* What the clock said when it was read, it has said before now.
LEMMA SparedByDelete ==
    ASSUME RegTypeOK, TickInv, CleanupDelete, NEW b \in Boxes,
           rows[b] # None, rows[b].until > now
    PROVE  rows'[b] = rows[b]
<1>1. tick \in Nat /\ tick <= now /\ now \in Nat /\ rows[b].until \in Nat
  BY Times DEF RegTypeOK, TickInv, CleanupDelete, Row
<1>2. ~Expired(rows[b], tick)
  BY <1>1 DEF Expired
<1> QED BY <1>2 DEF CleanupDelete

\* The clean-up takes no row that could still be used.
THEOREM CleanupAlwaysSpares == RegSafety => CleanupSparesActive
<1>1. RegInit => TickInv
  BY DEF RegInit, TickInv
<1>2. RegTypeOK /\ TickInv /\ [RegNext]_regVars
      => [\A b \in Boxes :
            CleanupDelete /\ rows[b] # None /\ rows[b].until > now => rows'[b] = rows[b]]_regVars
  BY SparedByDelete
<1> QED BY <1>1, <1>2, TickStep, RegTypeInit, RegTypeStep, PTL DEF RegSafety, CleanupSparesActive

---------------------------------------------------------------------------
(* A box that waits for its answers.                                       *)

Of(r, b) == register[r] # None /\ register[r].box = b
Done(r, b) == Of(r, b) /\ register[r].at = "ok"

\* One REGISTER at a time; what an OK says or will say is in the row, as long as
\* it is of any use.
StayOK(b) ==
    /\ \A r, q \in Registers : Of(r, b) /\ Of(q, b) => r = q
    /\ told[b] # None => b \in used
    /\ \A r \in Registers :
          Of(r, b) /\ register[r].at \in {"write", "erase", "ok"} => b \in used
    /\ \A r \in Registers : Of(r, b) /\ register[r].at = "erase" => register[r].until = 0
    /\ b \in boxes => \A r \in Registers :
          Done(r, b) /\ register[r].until > now => rows[b] = Written(register[r])
    /\ b \in boxes => (told[b] # None /\ told[b].until > now
                       /\ (\A r \in Registers : ~Done(r, b)) => rows[b] = told[b])

StayInv == \A b \in Boxes \ hasty : StayOK(b)

\* Without a REGISTER or a box being made, rows that can be used stay.
LEMMA StayFrame ==
    ASSUME RegTypeOK, NEW b \in Boxes, StayOK(b), UNCHANGED <<register, told>>,
           now' \in Nat, now <= now', used \subseteq used',
           b \in boxes' => b \in boxes \/ b \notin used,
           b \in boxes' /\ rows[b] # None /\ rows[b].until > now' => rows'[b] = rows[b]
    PROVE  StayOK(b)'
<1> USE DEF StayOK, Of, Done
<1>1. now \in Nat
  BY Times DEF RegTypeOK
<1>2. \A r \in Registers : Done(r, b) => register[r].until \in Nat
  BY RequestHas
<1>3. told[b] # None => told[b].until \in Nat
  BY DEF RegTypeOK, Row
<1>4. b \in boxes' => \A r \in Registers :
          Done(r, b) /\ register[r].until > now' => rows'[b] = Written(register[r])
  <2> SUFFICES ASSUME b \in boxes', NEW r \in Registers, Done(r, b), register[r].until > now'
               PROVE  rows'[b] = Written(register[r])
    OBVIOUS
  <2>1. b \in boxes
    OBVIOUS
  <2>2. register[r].until > now
    BY <1>1, <1>2
  <2>3. rows[b] = Written(register[r])
    BY <2>1, <2>2
  <2>4. Written(register[r]) # None
    BY WrittenTyped, NoneIsNone
  <2>5. rows[b].until > now'
    BY <2>3 DEF Written
  <2> QED BY <2>3, <2>4, <2>5
<1>5. b \in boxes' /\ told[b] # None /\ told[b].until > now' /\ (\A r \in Registers : ~Done(r, b))
      => rows'[b] = told[b]
  BY <1>1, <1>3
<1> QED BY <1>4, <1>5

\* A REGISTER for another box changes nothing for this one.
LEMMA StayOthers ==
    ASSUME RegTypeOK, NEW b \in Boxes, StayOK(b), NEW r \in Registers, RegisterStep(r),
           ~Of(r, b), ~Of(r, b)'
    PROVE  StayOK(b)'
<1>t. /\ rows \in [Boxes -> Row \cup {None}] /\ told \in [Boxes -> Row \cup {None}]
      /\ register \in [Registers -> Request \cup {None}]
  BY DEF RegTypeOK
<1>1. UNCHANGED <<now, boxes, used>>
  BY RegisterRest DEF boxVars
<1>2. \A s \in Registers \ {r} : register'[s] = register[s]
  BY <1>t DEF RegisterStep, onRegister, Lookup, Refuse, Write, Erase, Answer, GoesOn
<1>3. rows'[b] = rows[b] /\ told'[b] = told[b]
  <2>1. ASSUME NEW x \in Boxes, NEW p \in Sent[r], NEW c \in 0..creds[x], NEW life \in Lifetimes,
               onRegister(r, x, p, c, life)
        PROVE  rows'[b] = rows[b] /\ told'[b] = told[b]
    BY <2>1 DEF onRegister
  <2>2. CASE Lookup(r) \/ Refuse(r)
    BY <2>2 DEF Lookup, Refuse
  <2>3. CASE Write(r)
    <3>1. register[r].box # b /\ UNCHANGED told
      BY <2>3 DEF Write, Of
    <3>2. rows'[b] = rows[b]
      BY <1>t, <2>3, <3>1 DEF Write, UpsertRegistration
    <3> QED BY <3>1, <3>2
  <2>4. CASE Erase(r)
    BY <1>t, <2>4 DEF Erase, Of
  <2>5. CASE Answer(r)
    BY <1>t, <2>5 DEF Answer, Of
  <2> QED BY <2>1, <2>2, <2>3, <2>4, <2>5 DEF RegisterStep
<1>4. \A s \in Registers : (Of(s, b) <=> Of(s, b)') /\ (Done(s, b) <=> Done(s, b)')
  BY <1>2 DEF Of, Done
<1>5. \A s \in Registers : Of(s, b) => register'[s] = register[s]
  BY <1>2
<1> QED BY <1>1, <1>3, <1>4, <1>5 DEF StayOK, Done, Written

\* What a REGISTER of this one says, of a box that waits.
LEMMA StayOwn ==
    ASSUME RegTypeOK, NEW b \in Boxes, b \notin hasty', StayOK(b), NEW r \in Registers,
           RegisterStep(r), Of(r, b) \/ Of(r, b)'
    PROVE  StayOK(b)'
<1>t. /\ rows \in [Boxes -> Row \cup {None}] /\ told \in [Boxes -> Row \cup {None}]
      /\ register \in [Registers -> Request \cup {None}]
  BY DEF RegTypeOK
<1>1. UNCHANGED <<now, boxes, used>>
  BY RegisterRest DEF boxVars
<1>2. \A s \in Registers \ {r} : register'[s] = register[s]
  BY <1>t DEF RegisterStep, onRegister, Lookup, Refuse, Write, Erase, Answer, GoesOn
<1>3. \A s \in Registers \ {r} : ~Of(s, b)
  <2>1. CASE Of(r, b)
    BY <2>1 DEF StayOK
  <2>2. CASE ~Of(r, b)
    <3>1. ASSUME NEW x \in Boxes, NEW p \in Sent[r], NEW c \in 0..creds[x], NEW life \in Lifetimes,
                 onRegister(r, x, p, c, life)
          PROVE  \A s \in Registers \ {r} : ~Of(s, b)
      <4>1. register'[r].box = x
        BY <1>t, <3>1 DEF onRegister
      <4>2. x = b
        BY <2>2, <4>1 DEF Of
      <4>3. ~Waiting(b)
        BY <3>1, <4>2 DEF onRegister
      <4> QED BY <4>3 DEF Waiting, Of
    <3>2. CASE Lookup(r) \/ Refuse(r) \/ Write(r) \/ Erase(r) \/ Answer(r)
      <4>1. register[r] # None
        BY <3>2 DEF Lookup, Refuse, Write, Erase, Answer
      <4>2. register'[r] = None \/ register'[r].box = register[r].box
        BY <1>t, <3>2 DEF Lookup, Refuse, Write, Erase, Answer, GoesOn, Settle
      <4> QED BY <2>2, <4>1, <4>2 DEF Of
    <3> QED BY <3>1, <3>2 DEF RegisterStep
  <2> QED BY <2>1, <2>2
<1>4. \A s \in Registers \ {r} : ~Of(s, b)' /\ ~Done(s, b)'
  BY <1>2, <1>3 DEF Of, Done
<1>u. \A s, q \in Registers : Of(s, b)' /\ Of(q, b)' => s = q
  BY <1>4
<1>d. ~Done(r, b) => \A s \in Registers : ~Done(s, b)
  BY <1>3 DEF Done
\* A step that ends neither in OK nor in an answer.
<1>5. ASSUME UNCHANGED <<rows, told>>, ~Done(r, b), ~Done(r, b)',
             Of(r, b)' /\ register'[r].at \in {"write", "erase"} => b \in used,
             Of(r, b)' /\ register'[r].at = "erase" => register'[r].until = 0
      PROVE  StayOK(b)'
  BY <1>1, <1>4, <1>5, <1>u, <1>d DEF StayOK, Done, Of
<1>6. ASSUME NEW x \in Boxes, NEW p \in Sent[r], NEW c \in 0..creds[x], NEW life \in Lifetimes,
             onRegister(r, x, p, c, life)
      PROVE  StayOK(b)'
  <2>1. UNCHANGED <<rows, told>> /\ ~Done(r, b) /\ register'[r].at = "nonced"
    BY <1>t, <1>6 DEF onRegister, Done, Of
  <2> QED BY <2>1, <1>5 DEF Done
<1>7. CASE Lookup(r)
  <2>1. UNCHANGED <<rows, told>> /\ register[r] # None /\ register[r].at = "nonced"
        /\ register[r].box \in boxes
    BY <1>7 DEF Lookup, verifyDigestResponse
  <2>2. \/ register'[r] = Settle(register[r], "erase", 0)
        \/ register'[r] = Settle(register[r], "write", now + register[r].life)
    BY <1>t, <1>7 DEF Lookup
  <2>3. /\ register'[r].at \in {"write", "erase"}
        /\ register'[r].box = register[r].box
        /\ register'[r].at = "erase" => register'[r].until = 0
    BY <2>2 DEF Settle
  <2>4. register[r].box \in used
    BY <2>1 DEF RegTypeOK
  <2> QED BY <2>1, <2>3, <2>4, <1>5 DEF Done, Of
<1>8. CASE Refuse(r)
  <2>1. UNCHANGED <<rows, told>> /\ ~Done(r, b) /\ register'[r].at = "refused"
    BY <1>t, <1>8 DEF Refuse, Done, Of, Settle
  <2> QED BY <2>1, <1>5 DEF Done
<1>9. CASE Write(r)
  <2>0. register[r] # None /\ register[r].at = "write" /\ register[r].box = b /\ UNCHANGED told
    BY <1>t, <1>9 DEF Write, Of, GoesOn, Settle
  <2>1. CASE UNCHANGED rows /\ GoesOn(r, "refused")
    <3>1. register'[r].at = "refused"
      BY <1>t, <2>1 DEF GoesOn, Settle
    <3> QED BY <2>0, <2>1, <3>1, <1>5 DEF Done
  <2>2. CASE UpsertRegistration(r) /\ GoesOn(r, "ok")
    <3>1. b \in used
      BY <2>0 DEF StayOK, Of
    <3>2. rows'[b] = Written(register[r])
      BY <1>t, <2>0, <2>2 DEF UpsertRegistration
    <3>3. register'[r] = Settle(register[r], "ok", register[r].until)
      BY <1>t, <2>2 DEF GoesOn
    <3>4. /\ register'[r].at = "ok" /\ register'[r].box = b
          /\ Written(register'[r]) = Written(register[r])
      BY <2>0, <3>3 DEF Settle, Written
    <3>5. register'[r] # None
      <4>1. register[r].until \in Nat
        BY <2>0, RequestHas
      <4>2. register'[r] \in Request
        BY <2>0, <3>3, <4>1, RequestHas DEF Settle, Settled, Request
      <4> QED BY <4>2, NoneIsNone
    <3>6. Done(r, b)'
      BY <3>4, <3>5 DEF Done, Of
    <3>7. told'[b] # None => b \in used
      BY <2>0 DEF StayOK
    <3> QED BY <1>1, <1>4, <1>u, <3>1, <3>2, <3>4, <3>6, <3>7 DEF StayOK, Done, Of
  <2> QED BY <1>9, <2>1, <2>2 DEF Write
<1>10. CASE Erase(r)
  <2>0. register[r] # None /\ register[r].at = "erase" /\ register[r].box = b /\ UNCHANGED told
    BY <1>t, <1>10 DEF Erase, Of, GoesOn, Settle
  <2>1. b \in used /\ register[r].until = 0
    BY <2>0 DEF StayOK, Of
  <2>2. register'[r] = Settle(register[r], "ok", 0)
    BY <1>t, <1>10, <2>1 DEF Erase, GoesOn
  <2>3. register'[r].at = "ok" /\ register'[r].box = b /\ register'[r].until = 0
    BY <2>0, <2>2 DEF Settle
  <2>4. register'[r] # None
    <3>1. register'[r] \in Request
      BY <2>0, <2>2, RequestHas DEF Settle, Settled, Request
    <3> QED BY <3>1, NoneIsNone
  <2>5. Done(r, b)' /\ now \in Nat
    BY <2>3, <2>4, Times DEF Done, Of, RegTypeOK
  <2>6. told'[b] # None => b \in used
    BY <2>0 DEF StayOK
  <2> QED BY <1>1, <1>4, <1>u, <2>1, <2>3, <2>5, <2>6 DEF StayOK, Done, Of
<1>11. CASE Answer(r)
  <2>0. register[r] # None /\ register'[r] = None /\ UNCHANGED rows
    BY <1>t, <1>11 DEF Answer
  <2>b. register[r].box = b
    BY <2>0 DEF Of
  <2>1. CASE register[r].at = "refused"
    <3>1. UNCHANGED told /\ ~Done(r, b) /\ ~Done(r, b)'
      BY <1>11, <2>0, <2>1 DEF Answer, Done, Of
    <3> QED BY <2>0, <3>1, <1>5 DEF Of
  <2>2. CASE register[r].at = "ok"
    <3>1. Done(r, b) /\ b \in used
      BY <2>0, <2>b, <2>2 DEF StayOK, Done, Of
    <3>2. told'[b] = IF register[r].until = 0 THEN None ELSE Written(register[r])
      BY <1>t, <1>11, <2>b, <2>2 DEF Answer
    <3>3. \A s \in Registers : ~Of(s, b)' /\ ~Done(s, b)'
      BY <1>4, <2>0 DEF Done, Of
    <3>4. b \in boxes /\ told'[b] # None /\ told'[b].until > now => rows'[b] = told'[b]
      BY <2>0, <3>1, <3>2 DEF StayOK, Written
    <3> QED BY <1>1, <3>1, <3>3, <3>4 DEF StayOK
  <2> QED BY <1>11, <2>1, <2>2 DEF Answer
<1> QED BY <1>6, <1>7, <1>8, <1>9, <1>10, <1>11 DEF RegisterStep

LEMMA StayStep == RegTypeOK /\ TickInv /\ StayInv /\ [RegNext]_regVars => StayInv'
<1> SUFFICES ASSUME RegTypeOK, TickInv, StayInv, [RegNext]_regVars, NEW b \in Boxes,
                    b \notin hasty'
             PROVE  StayOK(b)'
  BY DEF StayInv
<1>h. hasty \subseteq hasty'
  <2> USE DEF boxVars, askVars
  <2>1. ASSUME NEW r \in Registers, RegisterStep(r) PROVE hasty \subseteq hasty'
    BY <2>1, RegisterRest
  <2>2. ASSUME NEW k \in Calls, InviteStep(k) \/ DialStep(k) PROVE hasty \subseteq hasty'
    BY <2>2, InviteTypes, DialTypes
  <2>3. ASSUME NEW x \in Boxes, BoxStep(x) PROVE hasty \subseteq hasty'
    BY <2>3, BoxTypes
  <2>4. CASE Challenge \/ Clock \/ LoopStep \/ UNCHANGED regVars
    BY <2>4, LoopTypes DEF Challenge, Clock, regVars
  <2> QED BY <2>1, <2>2, <2>3, <2>4 DEF RegNext
<1>b. b \in Boxes /\ StayOK(b)
  BY <1>h DEF StayInv
<1>n. now \in Nat
  BY Times DEF RegTypeOK
<1> USE DEF boxVars, askVars
<1>0. ASSUME UNCHANGED <<now, boxes, used, rows, register, told>> PROVE StayOK(b)'
  BY <1>0, <1>b, <1>n, StayFrame
<1>1. CASE Challenge \/ UNCHANGED regVars
  BY <1>0, <1>1 DEF Challenge, regVars
<1>2. ASSUME NEW r \in Registers, RegisterStep(r) PROVE StayOK(b)'
  BY <1>b, <1>2, StayOthers, StayOwn
<1>3. ASSUME NEW k \in Calls, InviteStep(k) PROVE StayOK(b)'
  BY <1>0, <1>3, InviteTypes
<1>4. ASSUME NEW k \in Calls, DialStep(k) PROVE StayOK(b)'
  BY <1>0, <1>4, DialTypes
<1>5. ASSUME NEW x \in Boxes, BoxStep(x) PROVE StayOK(b)'
  <2>1. UNCHANGED <<now, register, told>>
    BY <1>5, BoxTypes
  <2>2. used \subseteq used' /\ (b \in boxes' => b \in boxes \/ b \notin used)
    BY <1>5 DEF BoxStep, CreateFXOBox, UpdateFXOBox, DeleteFXOBox
  <2>3. b \in boxes' => rows'[b] = rows[b]
    BY <1>5, <1>b DEF BoxStep, CreateFXOBox, UpdateFXOBox, DeleteFXOBox, RegTypeOK
  <2> QED BY <1>b, <1>n, <2>1, <2>2, <2>3, StayFrame
<1>6. CASE Clock
  <2>1. now' \in Nat /\ now <= now' /\ UNCHANGED <<register, told, rows, boxes, used>>
    BY <1>6, <1>n DEF Clock
  <2> QED BY <1>b, <2>1, StayFrame
<1>7. CASE LoopStep
  <2>1. UNCHANGED <<now, boxes, used, register, told>>
    BY <1>7, LoopTypes
  <2>2. rows[b] # None /\ rows[b].until > now => rows'[b] = rows[b]
    <3>1. CASE CleanupDelete
      BY <1>b, <3>1, SparedByDelete
    <3>2. CASE UNCHANGED rows
      BY <3>2
    <3> QED BY <1>7, <3>1, <3>2 DEF LoopStep, CleanupTick, CleanupFails, cleanupNoncesLoop
  <2> QED BY <1>b, <1>n, <2>1, <2>2, StayFrame
<1> QED BY <1>1, <1>2, <1>3, <1>4, <1>5, <1>6, <1>7 DEF RegNext

\* A box that waits for its answers stays registered as it was told.
THEOREM WaitingBoxStays == RegSafety => []RegisteredStays
<1>1. RegInit => TickInv /\ StayInv
  BY DEF RegInit, TickInv, StayInv, StayOK, Of, Done
<1>2. RegTypeOK /\ StayInv => RegisteredStays
  BY DEF RegTypeOK, StayInv, StayOK, RegisteredStays, Waiting, Of, Done
<1> QED BY <1>1, <1>2, TickStep, StayStep, RegTypeInit, RegTypeStep, PTL DEF RegSafety
=============================================================================
