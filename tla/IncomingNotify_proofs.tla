------------------------ MODULE IncomingNotify_proofs ------------------------
(***************************************************************************)
(* For every set of devices, accepts and calls: no connection misses a     *)
(* ringing call, and none that was sent a call misses its answer or its    *)
(* end.                                                                    *)
(***************************************************************************)
EXTENDS IncomingNotify, TLAPS

USE DEF emitVars, socketVars, pushVars, syncVars, lifeVars

LEMMA EventTyped == \A k \in Kinds, i \in Calls : <<k, i>> \in Events
BY DEF Events

Connected == {d \in Devices : socket[d] # "down"}

\* NotifyIncomingEvent adds one announcement, due to every connection there is,
\* and leaves all earlier ones as they are.
LEMMA AnnouncedEffect ==
    ASSUME NotifyTypeOK, NEW k \in Kinds, NEW i \in Calls, NotifyIncomingEvent(k, i)
    PROVE  /\ begun' \in [Calls -> Seq(Kinds)]
           /\ left' \in [Calls -> Seq(SUBSET Devices)]
           /\ \A j \in Calls : Len(left'[j]) = Len(begun'[j])
           /\ \A j \in Calls, n \in Nat : n \in 1..Len(begun[j]) => left'[j][n] = left[j][n]
           /\ left'[i][Len(begun[i]) + 1] = Connected
           /\ \A j \in Calls, n \in Nat, l \in Kinds :
                 Is(j, n, l)' <=> Is(j, n, l) \/ (j = i /\ n = Len(begun[i]) + 1 /\ l = k)
<1>1. /\ begun \in [Calls -> Seq(Kinds)] /\ left \in [Calls -> Seq(SUBSET Devices)]
      /\ \A j \in Calls : Len(left[j]) = Len(begun[j])
  BY DEF NotifyTypeOK
<1>2. /\ begun' = [begun EXCEPT ![i] = Append(begun[i], k)]
      /\ left' = [left EXCEPT ![i] = Append(left[i], Connected)]
  BY DEF NotifyIncomingEvent, Announce, Connected
<1>3. Append(begun[i], k) \in Seq(Kinds) /\ Append(left[i], Connected) \in Seq(SUBSET Devices)
  BY <1>1 DEF Connected
<1>4. begun' \in [Calls -> Seq(Kinds)] /\ left' \in [Calls -> Seq(SUBSET Devices)]
  BY <1>1, <1>2, <1>3
<1>5. /\ begun'[i] = Append(begun[i], k) /\ left'[i] = Append(left[i], Connected)
      /\ \A j \in Calls : j # i => begun'[j] = begun[j] /\ left'[j] = left[j]
  BY <1>1, <1>2
<1>6. \A j \in Calls : Len(left'[j]) = Len(begun'[j])
  <2>1. Len(left'[i]) = Len(left[i]) + 1 /\ Len(begun'[i]) = Len(begun[i]) + 1
    BY <1>1, <1>5
  <2> QED
    BY <1>1, <1>5, <2>1
<1>7. \A j \in Calls, n \in Nat : n \in 1..Len(begun[j]) => left'[j][n] = left[j][n]
  BY <1>1, <1>5
<1>8. left'[i][Len(begun[i]) + 1] = Connected
  BY <1>1, <1>5
<1>9. ASSUME NEW j \in Calls, NEW n \in Nat, NEW l \in Kinds
      PROVE  Is(j, n, l)' <=> Is(j, n, l) \/ (j = i /\ n = Len(begun[i]) + 1 /\ l = k)
  <2>1. CASE j # i
    BY <1>5, <2>1 DEF Is
  <2>2. CASE j = i
    <3>1. Len(begun'[i]) = Len(begun[i]) + 1 /\ Len(begun[i]) \in Nat
      BY <1>1, <1>5
    <3>2. CASE n \in 1..Len(begun[i])
      <4>1. begun'[i][n] = begun[i][n]
        BY <1>1, <1>5, <3>2
      <4> QED
        BY <2>2, <3>1, <3>2, <4>1 DEF Is
    <3>3. CASE n = Len(begun[i]) + 1
      <4>1. begun'[i][n] = k
        BY <1>1, <1>5, <3>3
      <4> QED
        BY <2>2, <3>1, <3>3, <4>1 DEF Is
    <3>4. CASE n \notin 1..Len(begun'[i])
      BY <2>2, <3>1, <3>4 DEF Is
    <3> QED
      BY <3>1, <3>2, <3>3, <3>4
  <2> QED
    BY <2>1, <2>2
<1> QED
  BY <1>4, <1>6, <1>7, <1>8, <1>9

LEMMA SendMessageType ==
    ASSUME NotifyTypeOK, NEW d \in Devices, NEW k \in Kinds, NEW i \in Calls,
           SendMessage(d, k, i)
    PROVE  stream' \in [Devices -> Seq(Events)]
<1>1. Append(stream[d], <<k, i>>) \in Seq(Events)
  BY EventTyped DEF NotifyTypeOK
<1> QED
  BY <1>1 DEF NotifyTypeOK, SendMessage

\* One client.Send serves one connection of one announcement, and no other.
LEMMA ServedEffect ==
    ASSUME NotifyTypeOK, NEW d \in Devices, NEW i \in Calls, NEW n \in 1..Len(begun[i]),
           Notify(d, i, n)
    PROVE  /\ left' \in [Calls -> Seq(SUBSET Devices)]
           /\ \A j \in Calls : Len(left'[j]) = Len(left[j])
           /\ \A j \in Calls, e \in Devices : \A m \in 1..Len(begun[j]) :
                 e \in left'[j][m] <=> e \in left[j][m] /\ ~ (e = d /\ j = i /\ m = n)
           /\ begun[i][n] \in Kinds
<1>1. /\ left \in [Calls -> Seq(SUBSET Devices)] /\ begun \in [Calls -> Seq(Kinds)]
      /\ \A j \in Calls : Len(left[j]) = Len(begun[j])
  BY DEF NotifyTypeOK
<1> DEFINE served == [left[i] EXCEPT ![n] = left[i][n] \ {d}]
<1>2. left' = [left EXCEPT ![i] = served]
  BY DEF Notify
<1>3. left[i] \in Seq(SUBSET Devices) /\ n \in 1..Len(left[i])
  BY <1>1
<1>4. left[i][n] \ {d} \in SUBSET Devices
  BY <1>3
<1>5. /\ served \in Seq(SUBSET Devices) /\ Len(served) = Len(left[i])
      /\ \A m \in 1..Len(left[i]) : served[m] = IF m = n THEN left[i][n] \ {d} ELSE left[i][m]
  BY <1>3, <1>4
<1> HIDE DEF served
<1>6. left'[i] = served /\ \A j \in Calls : j # i => left'[j] = left[j]
  BY <1>1, <1>2
<1>7. left' \in [Calls -> Seq(SUBSET Devices)]
  BY <1>1, <1>2, <1>5
<1>8. \A j \in Calls : Len(left'[j]) = Len(left[j])
  BY <1>5, <1>6
<1>9. \A j \in Calls, e \in Devices : \A m \in 1..Len(begun[j]) :
        e \in left'[j][m] <=> e \in left[j][m] /\ ~ (e = d /\ j = i /\ m = n)
  BY <1>1, <1>5, <1>6
<1>10. begun[i][n] \in Kinds
  BY <1>1
<1> QED
  BY <1>7, <1>8, <1>9, <1>10

\* A connection that breaks is taken off every announcement.
LEMMA DroppedEffect ==
    ASSUME NotifyTypeOK, NEW d \in Devices, Disconnect(d)
    PROVE  /\ left' \in [Calls -> Seq(SUBSET Devices)]
           /\ \A j \in Calls : Len(left'[j]) = Len(left[j])
           /\ \A j \in Calls, e \in Devices : \A m \in 1..Len(begun[j]) :
                 e \in left'[j][m] <=> e \in left[j][m] /\ e # d
<1> DEFINE dropped(j) == [n \in 1..Len(left[j]) |-> left[j][n] \ {d}]
<1>1. /\ left \in [Calls -> Seq(SUBSET Devices)]
      /\ \A j \in Calls : Len(left[j]) = Len(begun[j])
  BY DEF NotifyTypeOK
<1>2. left' = [j \in Calls |-> dropped(j)]
  BY DEF Disconnect
<1>3. ASSUME NEW j \in Calls
      PROVE  /\ dropped(j) \in Seq(SUBSET Devices) /\ Len(dropped(j)) = Len(left[j])
             /\ \A n \in 1..Len(left[j]) : dropped(j)[n] = left[j][n] \ {d}
  <2>1. left[j] \in Seq(SUBSET Devices) /\ Len(left[j]) \in Nat
    BY <1>1
  <2>2. \A n \in 1..Len(left[j]) : left[j][n] \ {d} \in SUBSET Devices
    BY <2>1
  <2> QED
    BY <2>1, <2>2
<1>4. \A j \in Calls : left'[j] = dropped(j)
  BY <1>2
<1> HIDE DEF dropped
<1>5. left' \in [Calls -> Seq(SUBSET Devices)]
  BY <1>2, <1>3
<1>6. \A j \in Calls : Len(left'[j]) = Len(left[j])
  BY <1>3, <1>4
<1>7. \A j \in Calls, e \in Devices : \A m \in 1..Len(begun[j]) :
        e \in left'[j][m] <=> e \in left[j][m] /\ e # d
  BY <1>1, <1>3, <1>4
<1> QED
  BY <1>5, <1>6, <1>7

LEMMA NotifyTypeStep == NotifyTypeOK /\ [NotifyNext]_notifyVars => NotifyTypeOK'
<1> SUFFICES ASSUME NotifyTypeOK, [NotifyNext]_notifyVars PROVE NotifyTypeOK'
  OBVIOUS
<1> "ringing" \in Kinds /\ "answered" \in Kinds /\ "stopped" \in Kinds
  BY DEF Kinds
<1> USE PhonesAreDevices, SomeConnects
<1>1. ASSUME NEW i \in Calls, RingsOut(i) PROVE NotifyTypeOK'
  BY <1>1, AnnouncedEffect DEF RingsOut, NotifyTypeOK
<1>2. ASSUME NEW i \in Calls, NEW a \in Accepts, AnswerOut(a, i) PROVE NotifyTypeOK'
  BY <1>2, AnnouncedEffect DEF AnswerOut, NotifyTypeOK
<1>3. ASSUME NEW i \in Calls, StopOut(i) PROVE NotifyTypeOK'
  BY <1>3, AnnouncedEffect DEF StopOut, Tell, NotifyTypeOK
<1>4. ASSUME NEW i \in Calls, Withdraws(i) \/ Rings(i) \/ Stops(i)
      PROVE  NotifyTypeOK'
  BY <1>4 DEF Withdraws, Rings, Stops, Withdraw, Ring, Stop, NotifyTypeOK
<1>5. ASSUME NEW i \in Calls, NEW a \in Accepts, Answers(a, i) PROVE NotifyTypeOK'
  BY <1>5 DEF Answers, Answer, NotifyTypeOK
<1>6. ASSUME NEW d \in Devices, NEW i \in Calls, NEW n \in 1..Len(begun[i]), Notify(d, i, n)
      PROVE  NotifyTypeOK'
  <2>1. stream' \in [Devices -> Seq(Events)]
    BY <1>6, ServedEffect, SendMessageType DEF Notify
  <2>2. /\ left' \in [Calls -> Seq(SUBSET Devices)]
        /\ \A j \in Calls : Len(left'[j]) = Len(left[j])
    BY <1>6, ServedEffect
  <2> QED
    BY <1>6, <2>1, <2>2 DEF Notify, NotifyTypeOK
<1>7. ASSUME NEW d \in Devices, ReadPending(d) PROVE NotifyTypeOK'
  BY <1>7 DEF ReadPending, ListPendingIncoming, NotifyTypeOK
<1>8. ASSUME NEW d \in Devices, SendPending(d) PROVE NotifyTypeOK'
  <2>1. CASE backlog[d] = {}
    BY <1>8, <2>1 DEF SendPending, NotifyTypeOK
  <2>2. CASE backlog[d] # {}
    <3>1. PICK i \in backlog[d] : /\ backlog' = [backlog EXCEPT ![d] = @ \ {i}]
                                  /\ SendMessage(d, "ringing", i)
      BY <1>8, <2>2 DEF SendPending
    <3>2. i \in Calls
      BY DEF NotifyTypeOK
    <3>3. stream' \in [Devices -> Seq(Events)]
      BY <3>1, <3>2, SendMessageType
    <3> QED
      BY <1>8, <2>2, <3>1, <3>3 DEF SendPending, NotifyTypeOK
  <2> QED
    BY <2>1, <2>2
<1>9. ASSUME NEW d \in Devices, Connect(d) PROVE NotifyTypeOK'
  <2>1. connects[d] + 1 \in 0..MaxConnects
    BY <1>9 DEF Connect, NotifyTypeOK
  <2>2. connects' \in [Devices -> 0..MaxConnects]
    BY <1>9, <2>1 DEF Connect, NotifyTypeOK
  <2>3. sync' \in [Phones -> {"none", "asked", "replied"}]
    BY <1>9 DEF Connect, NotifyTypeOK
  <2> QED
    BY <1>9, <2>2, <2>3 DEF Connect, NotifyTypeOK
<1>10. ASSUME NEW d \in Devices, Disconnect(d) PROVE NotifyTypeOK'
  BY <1>10, DroppedEffect DEF Disconnect, NotifyTypeOK
<1>11. ASSUME NEW d \in Devices, handleMessage(d) PROVE NotifyTypeOK'
  BY <1>11 DEF handleMessage, Handled, NotifyTypeOK, Events
<1>12. ASSUME NEW d \in Phones, NEW i \in Calls, NEW n \in 1..Len(begun[i]),
              Push(d, i, n) \/ handlePushPayload(d, i, n)
       PROVE  NotifyTypeOK'
  <2>1. <<i, n>> \in Announcements
    BY DEF Announcements, NotifyTypeOK
  <2>2. CASE Push(d, i, n)
    BY <2>1, <2>2 DEF Push, NotifyTypeOK
  <2>3. CASE handlePushPayload(d, i, n)
    BY <2>3 DEF handlePushPayload, Handled, NotifyTypeOK
  <2> QED
    BY <1>12, <2>2, <2>3
<1>13. ASSUME NEW d \in Phones, ListIncomingCalls(d) \/ replaceIncoming(d) PROVE NotifyTypeOK'
  <2>1. CASE ListIncomingCalls(d)
    BY <2>1 DEF ListIncomingCalls, ListPendingIncoming, NotifyTypeOK
  <2>2. CASE replaceIncoming(d)
    BY <2>2 DEF replaceIncoming, NotifyTypeOK
  <2> QED
    BY <1>13, <2>1, <2>2
<1>14. CASE UNCHANGED notifyVars
  BY <1>14 DEF notifyVars, NotifyTypeOK
<1> QED
  BY <1>1, <1>2, <1>3, <1>4, <1>5, <1>6, <1>7, <1>8, <1>9, <1>10, <1>11, <1>12, <1>13, <1>14
  DEF NotifyNext, ManagerNext, ClientsNext

LEMMA NotifyTypeInit == NotifyInit => NotifyTypeOK
BY SomeConnects DEF NotifyInit, LifeInit, EmitInit, ClientsInit, NotifyTypeOK

\* Every variable of the notifications keeps its type.
THEOREM NotifyTyped == NotifySpec => []NotifyTypeOK
BY NotifyTypeInit, NotifyTypeStep, PTL DEF NotifySpec

---------------------------------------------------------------------------
(* What the messages do to Sent, and the steps that announce nothing.      *)

LEMMA SendEffect ==
    ASSUME NotifyTypeOK, NEW d \in Devices, NEW k \in Kinds, NEW i \in Calls,
           SendMessage(d, k, i)
    PROVE  \A e \in Devices, l \in Kinds, j \in Calls :
             Sent(e, l, j)' <=> Sent(e, l, j) \/ (e = d /\ l = k /\ j = i)
<1> SUFFICES ASSUME NEW e \in Devices, NEW l \in Kinds, NEW j \in Calls
             PROVE  Sent(e, l, j)' <=> Sent(e, l, j) \/ (e = d /\ l = k /\ j = i)
  OBVIOUS
<1>1. CASE e = d
  <2>1. stream[e] \in Seq(Events) /\ stream'[e] = Append(stream[e], <<k, i>>)
    BY <1>1 DEF NotifyTypeOK, SendMessage
  <2>2. ASSUME Sent(e, l, j) PROVE Sent(e, l, j)'
    <3>1. PICK n \in 1..Len(stream[e]) : stream[e][n] = <<l, j>>
      BY <2>2 DEF Sent
    <3>2. n \in 1..Len(stream'[e]) /\ stream'[e][n] = stream[e][n]
      BY <2>1
    <3> QED
      BY <3>1, <3>2 DEF Sent
  <2>3. ASSUME l = k, j = i PROVE Sent(e, l, j)'
    <3>1. /\ Len(stream[e]) + 1 \in 1..Len(stream'[e])
          /\ stream'[e][Len(stream[e]) + 1] = <<k, i>>
      BY <2>1
    <3> QED
      BY <2>3, <3>1 DEF Sent
  <2>4. ASSUME Sent(e, l, j)', ~ (l = k /\ j = i) PROVE Sent(e, l, j)
    BY <2>1, <2>4 DEF Sent
  <2> QED
    BY <1>1, <2>2, <2>3, <2>4
<1>2. CASE e # d
  BY <1>2 DEF NotifyTypeOK, SendMessage, Sent
<1> QED
  BY <1>1, <1>2

LEMMA SameBegun ==
    ASSUME UNCHANGED begun
    PROVE  \A k \in Kinds, i \in Calls, n \in Nat : Is(i, n, k)' <=> Is(i, n, k)
BY DEF Is

LEMMA SameSent ==
    ASSUME UNCHANGED stream
    PROVE  \A d \in Devices, k \in Kinds, i \in Calls : Sent(d, k, i)' <=> Sent(d, k, i)
BY DEF Sent

\* An announcement is one of those begun for its call.
LEMMA IsInRange ==
    \A k \in Kinds, i \in Calls, n \in Nat : Is(i, n, k) => n \in 1..Len(begun[i])
BY DEF Is

---------------------------------------------------------------------------
(* A ringing call and a connection that has its list: either the call was  *)
(* sent, or it is still to be, by the list or by the announcement.         *)

Listed(d) == socket[d] \in {"listed", "serving"}

Coming(d, i, n) ==
    \/ Sent(d, "ringing", i)
    \/ d \in left[i][n]
    \/ socket[d] = "listed" /\ i \in backlog[d]

RingInv ==
    /\ \A i \in Calls, n \in Nat : Is(i, n, "ringing") => life[i] # "none"
    /\ \A i \in Calls : life[i] = "ringing" => i \in offered
    /\ \A d \in Devices, i \in Calls, n \in Nat :
         life[i] = "ringing" /\ Is(i, n, "ringing") /\ Listed(d) => Coming(d, i, n)

LEMMA RingInit == NotifyInit => RingInv
BY DEF NotifyInit, LifeInit, EmitInit, ClientsInit, RingInv, Is

LEMMA RingStep == NotifyTypeOK /\ RingInv /\ [NotifyNext]_notifyVars => RingInv'
<1> SUFFICES ASSUME NotifyTypeOK, RingInv, [NotifyNext]_notifyVars PROVE RingInv'
  OBVIOUS
<1> USE DEF RingInv, Listed, Coming
<1> "ringing" \in Kinds /\ "answered" \in Kinds /\ "stopped" \in Kinds
  BY DEF Kinds
<1>1. ASSUME NEW i \in Calls, RingsOut(i) PROVE RingInv'
  <2>1. NotifyIncomingEvent("ringing", i) /\ life[i] # "none"
        /\ UNCHANGED <<life, offered, socket, backlog, stream>>
    BY <1>1 DEF RingsOut
  <2>2. \A j \in Calls, n \in Nat :
          Is(j, n, "ringing")' <=>
            Is(j, n, "ringing") \/ (j = i /\ n = Len(begun[i]) + 1)
    BY <2>1, AnnouncedEffect
  <2>3. ASSUME NEW d \in Devices, NEW j \in Calls, NEW n \in Nat,
               life'[j] = "ringing", Is(j, n, "ringing")', Listed(d)'
        PROVE  Coming(d, j, n)'
    <3>1. CASE Is(j, n, "ringing")
      <4>1. left'[j][n] = left[j][n]
        BY <2>1, <3>1, AnnouncedEffect, IsInRange
      <4>2. Coming(d, j, n)
        BY <2>1, <2>3, <3>1
      <4> QED
        BY <2>1, <4>1, <4>2, SameSent
    <3>2. CASE j = i /\ n = Len(begun[i]) + 1
      <4>1. left'[j][n] = Connected
        BY <2>1, <3>2, AnnouncedEffect
      <4> QED
        BY <2>1, <2>3, <4>1 DEF Connected
    <3> QED
      BY <2>2, <2>3, <3>1, <3>2
  <2> QED
    BY <2>1, <2>2, <2>3
<1>2. ASSUME NEW i \in Calls, StopOut(i) \/ \E a \in Accepts : AnswerOut(a, i) PROVE RingInv'
  <2>1. PICK k \in {"answered", "stopped"} : NotifyIncomingEvent(k, i)
    BY <1>2 DEF AnswerOut, StopOut
  <2>2. UNCHANGED <<life, offered, socket, backlog, stream>>
    BY <1>2 DEF AnswerOut, StopOut, Tell
  <2>3. \A j \in Calls, n \in Nat : Is(j, n, "ringing")' <=> Is(j, n, "ringing")
    BY <2>1, AnnouncedEffect
  <2>4. \A j \in Calls, n \in Nat : Is(j, n, "ringing") => left'[j][n] = left[j][n]
    BY <2>1, AnnouncedEffect, IsInRange
  <2> QED
    BY <2>2, <2>3, <2>4, SameSent
<1>3. ASSUME NEW i \in Calls, Rings(i) \/ Stops(i) \/ Withdraws(i) \/ \E a \in Accepts : Answers(a, i)
      PROVE  RingInv'
  <2>1. UNCHANGED <<begun, left, socket, backlog, stream>>
    BY <1>3 DEF Rings, Stops, Withdraws, Answers
  <2>2. \A j \in Calls :
          /\ life'[j] = "none" => life[j] = "none"
          /\ life'[j] = "ringing" =>
               \/ life[j] = "ringing" /\ (j \in offered => j \in offered')
               \/ life[j] = "none" /\ j \in offered'
    <3>1. CASE Rings(i)
      BY <3>1 DEF Rings, Ring, NotifyTypeOK
    <3>2. CASE Stops(i)
      BY <3>2 DEF Stops, Stop, NotifyTypeOK
    <3>3. CASE Withdraws(i)
      BY <3>3 DEF Withdraws, Withdraw
    <3>4. CASE \E a \in Accepts : Answers(a, i)
      BY <3>4 DEF Answers, Answer, NotifyTypeOK
    <3> QED
      BY <1>3, <3>1, <3>2, <3>3, <3>4
  <2> QED
    BY <2>1, <2>2, SameBegun, SameSent
<1>4. ASSUME NEW d \in Devices, NEW i \in Calls, NEW n \in 1..Len(begun[i]), Notify(d, i, n)
      PROVE  RingInv'
  <2>1. /\ begun[i][n] \in Kinds /\ n \in Nat
        /\ \A j \in Calls, e \in Devices, m \in Nat : Is(j, m, "ringing") =>
             (e \in left'[j][m] <=> e \in left[j][m] /\ ~ (e = d /\ j = i /\ m = n))
    BY <1>4, ServedEffect, IsInRange
  <2>2. \A e \in Devices, j \in Calls :
          Sent(e, "ringing", j)' <=>
            Sent(e, "ringing", j) \/ (e = d /\ begun[i][n] = "ringing" /\ j = i)
    BY <1>4, <2>1, SendEffect DEF Notify
  <2>3. Is(i, n, "ringing") => begun[i][n] = "ringing"
    BY DEF Is
  <2> QED
    BY <1>4, <2>1, <2>2, <2>3, SameBegun DEF Notify
<1>5. ASSUME NEW d \in Devices, ReadPending(d) PROVE RingInv'
  BY <1>5, SameBegun, SameSent DEF ReadPending, ListPendingIncoming, NotifyTypeOK
<1>6. ASSUME NEW d \in Devices, SendPending(d) PROVE RingInv'
  <2>1. CASE backlog[d] = {}
    BY <1>6, <2>1, SameBegun, SameSent DEF SendPending, NotifyTypeOK
  <2>2. CASE backlog[d] # {}
    <3>1. PICK i \in backlog[d] : /\ backlog' = [backlog EXCEPT ![d] = @ \ {i}]
                                  /\ SendMessage(d, "ringing", i)
      BY <1>6, <2>2 DEF SendPending
    <3>2. i \in Calls
      BY DEF NotifyTypeOK
    <3>3. \A e \in Devices, j \in Calls :
            j \in backlog[e] => j \in backlog'[e] \/ (e = d /\ j = i)
      BY <3>1 DEF NotifyTypeOK
    <3>4. \A e \in Devices, j \in Calls :
            Sent(e, "ringing", j)' <=> Sent(e, "ringing", j) \/ (e = d /\ j = i)
      BY <3>1, <3>2, SendEffect
    <3> QED
      BY <1>6, <2>2, <3>3, <3>4, SameBegun DEF SendPending
  <2> QED
    BY <2>1, <2>2
<1>7. ASSUME NEW d \in Devices, Connect(d) PROVE RingInv'
  BY <1>7, SameBegun, SameSent DEF Connect, NotifyTypeOK
<1>8. ASSUME NEW d \in Devices, Disconnect(d) PROVE RingInv'
  <2>1. \A e \in Devices, j \in Calls : e # d =>
          /\ Sent(e, "ringing", j)' <=> Sent(e, "ringing", j)
          /\ backlog'[e] = backlog[e]
          /\ socket'[e] = socket[e]
    BY <1>8 DEF Disconnect, Sent, NotifyTypeOK
  <2>2. \A e \in Devices, j \in Calls, m \in Nat : e # d /\ Is(j, m, "ringing") =>
          (e \in left'[j][m] <=> e \in left[j][m])
    BY <1>8, DroppedEffect, IsInRange
  <2>3. socket'[d] = "down"
    BY <1>8 DEF Disconnect, NotifyTypeOK
  <2> QED
    BY <1>8, <2>1, <2>2, <2>3, SameBegun DEF Disconnect
<1>9. ASSUME NEW d \in Devices, handleMessage(d) PROVE RingInv'
  BY <1>9, SameBegun, SameSent DEF handleMessage
<1>10. ASSUME NEW d \in Phones, NEW i \in Calls, NEW n \in 1..Len(begun[i]),
              Push(d, i, n) \/ handlePushPayload(d, i, n)
       PROVE  RingInv'
  BY <1>10, SameBegun, SameSent DEF Push, handlePushPayload
<1>11. ASSUME NEW d \in Phones, ListIncomingCalls(d) \/ replaceIncoming(d) PROVE RingInv'
  BY <1>11, SameBegun, SameSent DEF ListIncomingCalls, replaceIncoming
<1>12. CASE UNCHANGED notifyVars
  BY <1>12, SameBegun, SameSent DEF notifyVars
<1> QED
  BY <1>1, <1>2, <1>3, <1>4, <1>5, <1>6, <1>7, <1>8, <1>9, <1>10, <1>11, <1>12
  DEF NotifyNext, ManagerNext, ClientsNext

\* Whichever way a connect and a ringing call interleave, the pending list and
\* the announcement together miss no connection.
THEOREM NoRingMissed == NotifySpec => []RingReachesAll
<1>1. NotifyTypeOK /\ RingInv => RingReachesAll
  BY DEF RingInv, Listed, Coming, RingReachesAll, Delivered, Is
<1> QED
  BY <1>1, NotifyTypeInit, NotifyTypeStep, RingInit, RingStep, PTL DEF NotifySpec

---------------------------------------------------------------------------
(* A call whose answer or end was announced is off the list for good, and  *)
(* every connection that was sent the call, or still will be, hears of it. *)

\* The announcement that the call rings is still due to the connection.
Due(d, i) == \E m \in Nat : Is(i, m, "ringing") /\ d \in left[i][m]

Hearing(d, i) == Sent(d, "ringing", i) \/ i \in backlog[d] \/ Due(d, i)

\* Each announcement of an answer or an end that came after the ringing one.
Heard(d, i, k, n) == Sent(d, k, i) \/ d \in left[i][n]

Follows(i, k, m, n) == m < n /\ Is(i, m, "ringing") /\ Is(i, n, k)

Overs == {"answered", "stopped"}

OverInv ==
    /\ \A a \in Accepts, i \in Calls : answer[<<a, i>>] = "due" => life[i] # "none"
    /\ \A i \in Calls, n \in Nat, k \in Overs : Is(i, n, k) => i \notin offered /\ life[i] # "none"

DownInv ==
    \A d \in Devices : socket[d] = "down" =>
      /\ backlog[d] = {}
      /\ \A k \in Kinds, i \in Calls : ~Sent(d, k, i)
      /\ \A k \in Kinds, i \in Calls, n \in Nat : Is(i, n, k) => d \notin left[i][n]

HeardInv ==
    \A d \in Devices, i \in Calls, k \in Overs, m, n \in Nat :
      Follows(i, k, m, n) /\ Hearing(d, i) => Heard(d, i, k, n)

EndInv == OverInv /\ DownInv /\ HeardInv

LEMMA EndInit == NotifyInit => EndInv
BY DEF NotifyInit, LifeInit, EmitInit, ClientsInit, EndInv, OverInv, DownInv, HeardInv, Follows, Is, Sent

LEMMA OverStep == NotifyTypeOK /\ OverInv /\ [NotifyNext]_notifyVars => OverInv'
<1> SUFFICES ASSUME NotifyTypeOK, OverInv, [NotifyNext]_notifyVars PROVE OverInv'
  OBVIOUS
<1> USE DEF OverInv
<1> Kinds = {"ringing", "answered", "stopped"} /\ Overs \subseteq Kinds \ {"ringing"}
  BY DEF Kinds, Overs
<1>1. ASSUME NEW i \in Calls, RingsOut(i) PROVE OverInv'
  <2>1. NotifyIncomingEvent("ringing", i) /\ UNCHANGED <<life, offered, answer>>
    BY <1>1 DEF RingsOut
  <2>2. \A j \in Calls, n \in Nat, k \in Overs : Is(j, n, k)' => Is(j, n, k)
    BY <2>1, AnnouncedEffect
  <2> QED
    BY <2>1, <2>2
<1>2. ASSUME NEW i \in Calls, StopOut(i) \/ \E a \in Accepts : AnswerOut(a, i) PROVE OverInv'
  <2>1. PICK k \in Overs : NotifyIncomingEvent(k, i)
    BY <1>2 DEF AnswerOut, StopOut, Overs
  <2>2. UNCHANGED <<life, offered>>
    BY <1>2 DEF AnswerOut, StopOut, Tell
  <2>3. \A a \in Accepts, j \in Calls : answer'[<<a, j>>] = "due" => answer[<<a, j>>] = "due"
    BY <1>2 DEF AnswerOut, StopOut, NotifyTypeOK
  <2>4. i \notin offered /\ life[i] # "none"
    BY <1>2 DEF AnswerOut, StopOut, Tell
  <2>5. \A j \in Calls, n \in Nat, l \in Overs : Is(j, n, l)' => Is(j, n, l) \/ j = i
    BY <2>1, AnnouncedEffect
  <2> QED
    BY <2>2, <2>3, <2>4, <2>5
<1>3. ASSUME NEW i \in Calls, Rings(i) \/ Stops(i) \/ Withdraws(i) PROVE OverInv'
  <2>1. UNCHANGED <<begun, answer>>
    BY <1>3 DEF Rings, Stops, Withdraws
  <2>2. \A j \in Calls : /\ life[j] # "none" => life'[j] # "none"
                         /\ j \in offered' => j \in offered \/ life[j] = "none"
    BY <1>3 DEF Rings, Stops, Withdraws, Ring, Stop, Withdraw, NotifyTypeOK
  <2> QED
    BY <2>1, <2>2, SameBegun
<1>4. ASSUME NEW i \in Calls, NEW a \in Accepts, Answers(a, i) PROVE OverInv'
  <2>1. UNCHANGED <<begun, offered>> /\ life[i] # "none"
    BY <1>4 DEF Answers, Answer
  <2>2. \A j \in Calls : life[j] # "none" => life'[j] # "none"
    BY <1>4 DEF Answers, Answer, NotifyTypeOK
  <2>3. \A b \in Accepts, j \in Calls :
          answer'[<<b, j>>] = "due" => answer[<<b, j>>] = "due" \/ j = i
    BY <1>4 DEF Answers, NotifyTypeOK
  <2> QED
    BY <2>1, <2>2, <2>3, SameBegun
<1>5. CASE ClientsNext \/ UNCHANGED notifyVars
  <2>1. UNCHANGED <<life, offered, answer, begun>>
    BY <1>5 DEF ClientsNext, Notify, Connect, ReadPending, SendPending, Disconnect, handleMessage,
         ListIncomingCalls, replaceIncoming, Push, handlePushPayload, notifyVars
  <2> QED
    BY <2>1, SameBegun
<1> QED
  BY <1>1, <1>2, <1>3, <1>4, <1>5 DEF NotifyNext, ManagerNext

\* What is due to a connection and what was sent on it, after each step.
LEMMA HeardStep ==
    NotifyTypeOK /\ EndInv /\ [NotifyNext]_notifyVars => (DownInv /\ HeardInv)'
<1> SUFFICES ASSUME NotifyTypeOK, EndInv, [NotifyNext]_notifyVars PROVE (DownInv /\ HeardInv)'
  OBVIOUS
<1> Kinds = {"ringing", "answered", "stopped"} /\ Overs \subseteq Kinds \ {"ringing"}
  BY DEF Kinds, Overs
<1>0. OverInv /\ DownInv /\ HeardInv
  BY DEF EndInv
<1>1. ASSUME NEW i \in Calls, RingsOut(i) PROVE (DownInv /\ HeardInv)'
  <2>1. /\ NotifyIncomingEvent("ringing", i) /\ UNCHANGED <<socket, backlog, stream>>
        /\ \A n \in Nat : ~Is(i, n, "ringing")
    BY <1>1, IsInRange DEF RingsOut, Begun
  <2> DEFINE last == Len(begun[i]) + 1
  <2>0. \A j \in Calls, n \in Nat, k \in Kinds :
          Is(j, n, k)' <=> Is(j, n, k) \/ (j = i /\ n = last /\ k = "ringing")
    BY <2>1, AnnouncedEffect
  <2> HIDE DEF last
  <2>2. /\ \A k \in Overs, j \in Calls, n \in Nat : Is(j, n, k)' <=> Is(j, n, k)
        /\ \A j \in Calls, n \in Nat : Is(j, n, "ringing")' =>
             Is(j, n, "ringing") \/ (j = i /\ n = last)
    BY <2>0
  <2>3. \A k \in Kinds, j \in Calls, n \in Nat : Is(j, n, k) => left'[j][n] = left[j][n]
    BY <2>1, AnnouncedEffect, IsInRange
  <2>4. left'[i][last] = Connected
    BY <2>1, AnnouncedEffect DEF last
  <2>5. DownInv'
    <3> SUFFICES ASSUME NEW d \in Devices, socket[d] = "down"
                 PROVE  /\ backlog[d] = {}
                        /\ \A k \in Kinds, j \in Calls : ~Sent(d, k, j)
                        /\ \A k \in Kinds, j \in Calls, n \in Nat :
                             Is(j, n, k)' => d \notin left'[j][n]
      BY <2>1, SameSent DEF DownInv
    <3>1. \A k \in Kinds, j \in Calls, n \in Nat : Is(j, n, k) => d \notin left'[j][n]
      BY <1>0, <2>3 DEF DownInv
    <3>2. d \notin left'[i][last]
      BY <2>4 DEF Connected
    <3> QED
      BY <1>0, <2>0, <3>1, <3>2 DEF DownInv
  <2>6. ASSUME NEW d \in Devices, NEW j \in Calls, NEW k \in Overs, NEW m \in Nat, NEW n \in Nat,
               Follows(j, k, m, n)', Hearing(d, j)'
        PROVE  Heard(d, j, k, n)'
    <3>1. Is(j, n, k) /\ m < n
      BY <2>2, <2>6 DEF Follows
    <3>2. j # i
      <4>1. n \in 1..Len(begun[j])
        BY <3>1, IsInRange
      <4>2. begun[j] \in Seq(Kinds)
        BY DEF NotifyTypeOK
      <4>3. CASE j = i
        <5>1. m = Len(begun[j]) + 1
          BY <2>1, <2>2, <2>6, <4>3 DEF Follows, last
        <5> QED
          BY <3>1, <4>1, <4>2, <5>1
      <4> QED
        BY <4>3
    <3>3. Follows(j, k, m, n)
      BY <2>2, <2>6, <3>1, <3>2 DEF Follows
    <3>4. Hearing(d, j)
      BY <2>1, <2>2, <2>3, <2>6, <3>2, SameSent DEF Hearing, Due
    <3>5. Heard(d, j, k, n)
      BY <1>0, <3>3, <3>4 DEF HeardInv
    <3> QED
      BY <2>1, <2>3, <3>1, <3>5, SameSent DEF Heard
  <2> QED
    BY <2>5, <2>6 DEF HeardInv
<1>2. ASSUME NEW i \in Calls, StopOut(i) \/ \E a \in Accepts : AnswerOut(a, i)
      PROVE  (DownInv /\ HeardInv)'
  <2>1. PICK k \in Overs : NotifyIncomingEvent(k, i)
    BY <1>2 DEF AnswerOut, StopOut, Overs
  <2>2. UNCHANGED <<socket, backlog, stream>>
    BY <1>2 DEF AnswerOut, StopOut
  <2> DEFINE last == Len(begun[i]) + 1
  <2>0. \A j \in Calls, n \in Nat, l \in Kinds :
          Is(j, n, l)' <=> Is(j, n, l) \/ (j = i /\ n = last /\ l = k)
    BY <2>1, AnnouncedEffect
  <2> HIDE DEF last
  <2>3. /\ \A j \in Calls, n \in Nat : Is(j, n, "ringing")' <=> Is(j, n, "ringing")
        /\ \A l \in Overs, j \in Calls, n \in Nat : Is(j, n, l)' =>
             Is(j, n, l) \/ (j = i /\ n = last)
    BY <2>0
  <2>4. \A l \in Kinds, j \in Calls, n \in Nat : Is(j, n, l) => left'[j][n] = left[j][n]
    BY <2>1, AnnouncedEffect, IsInRange
  <2>5. left'[i][last] = Connected
    BY <2>1, AnnouncedEffect DEF last
  <2>6. DownInv'
    <3> SUFFICES ASSUME NEW d \in Devices, socket[d] = "down"
                 PROVE  /\ backlog[d] = {}
                        /\ \A l \in Kinds, j \in Calls : ~Sent(d, l, j)
                        /\ \A l \in Kinds, j \in Calls, n \in Nat :
                             Is(j, n, l)' => d \notin left'[j][n]
      BY <2>2, SameSent DEF DownInv
    <3>1. \A l \in Kinds, j \in Calls, n \in Nat : Is(j, n, l) => d \notin left'[j][n]
      BY <1>0, <2>4 DEF DownInv
    <3>2. d \notin left'[i][last]
      BY <2>5 DEF Connected
    <3> QED
      BY <1>0, <2>0, <3>1, <3>2 DEF DownInv
  <2>7. ASSUME NEW d \in Devices, NEW j \in Calls, NEW l \in Overs, NEW m \in Nat, NEW n \in Nat,
               Follows(j, l, m, n)', Hearing(d, j)'
        PROVE  Heard(d, j, l, n)'
    <3>1. Hearing(d, j)
      BY <2>2, <2>3, <2>4, <2>7, SameSent DEF Hearing, Due
    <3>2. socket[d] # "down"
      BY <1>0, <3>1 DEF DownInv, Hearing, Due
    <3>3. CASE Is(j, n, l)
      <4>1. Follows(j, l, m, n)
        BY <2>3, <2>7, <3>3 DEF Follows
      <4>2. Heard(d, j, l, n)
        BY <1>0, <3>1, <4>1 DEF HeardInv
      <4> QED
        BY <2>2, <2>4, <3>3, <4>2, SameSent DEF Heard
    <3>4. CASE j = i /\ n = last
      BY <2>5, <3>2, <3>4 DEF Heard, Connected
    <3> QED
      BY <2>3, <2>7, <3>3, <3>4 DEF Follows
  <2> QED
    BY <2>6, <2>7 DEF HeardInv
<1>3. CASE UNCHANGED <<begun, left, socket, backlog, stream>>
  BY <1>0, <1>3, SameBegun, SameSent DEF DownInv, HeardInv, Follows, Hearing, Due, Heard
<1>4. ASSUME NEW d \in Devices, NEW i \in Calls, NEW p \in 1..Len(begun[i]), Notify(d, i, p)
      PROVE  (DownInv /\ HeardInv)'
  <2> DEFINE kind == begun[i][p]
  <2>1. /\ kind \in Kinds /\ p \in Nat /\ Is(i, p, kind)
        /\ \A l \in Kinds : Is(i, p, l) => l = kind
        /\ \A j \in Calls, e \in Devices, l \in Kinds, n \in Nat : Is(j, n, l) =>
             (e \in left'[j][n] <=> e \in left[j][n] /\ ~ (e = d /\ j = i /\ n = p))
    BY <1>4, ServedEffect, IsInRange DEF Is
  <2>2. UNCHANGED <<begun, socket, backlog>> /\ SendMessage(d, kind, i) /\ d \in left[i][p]
    BY <1>4 DEF Notify
  <2> HIDE DEF kind
  <2>3. \A e \in Devices, l \in Kinds, j \in Calls :
          Sent(e, l, j)' <=> Sent(e, l, j) \/ (e = d /\ l = kind /\ j = i)
    BY <2>1, <2>2, SendEffect
  <2>4. socket[d] # "down"
    BY <1>0, <2>1, <2>2 DEF DownInv
  <2>5. DownInv'
    BY <1>0, <2>1, <2>2, <2>3, <2>4, SameBegun DEF DownInv
  <2>6. ASSUME NEW e \in Devices, NEW j \in Calls, NEW k \in Overs, NEW m \in Nat, NEW n \in Nat,
               Follows(j, k, m, n)', Hearing(e, j)'
        PROVE  Heard(e, j, k, n)'
    <3>1. Follows(j, k, m, n)
      BY <2>2, <2>6, SameBegun DEF Follows
    <3>2. Due(e, j)' => Due(e, j)
      BY <2>1, <2>2, SameBegun DEF Due
    <3>3. Hearing(e, j)
      BY <2>1, <2>2, <2>3, <2>6, <3>2 DEF Hearing, Due
    <3>4. Heard(e, j, k, n)
      BY <1>0, <3>1, <3>3 DEF HeardInv
    <3> QED
      BY <2>1, <2>3, <3>1, <3>4 DEF Heard, Follows
  <2> QED
    BY <2>5, <2>6 DEF HeardInv
<1>5. ASSUME NEW d \in Devices, ReadPending(d) PROVE (DownInv /\ HeardInv)'
  <2>1. /\ socket[d] = "added" /\ socket'[d] = "listed"
        /\ backlog'[d] \subseteq offered
        /\ \A e \in Devices : e # d => backlog'[e] = backlog[e] /\ socket'[e] = socket[e]
        /\ UNCHANGED <<begun, left, stream>>
    BY <1>5 DEF ReadPending, ListPendingIncoming, NotifyTypeOK
  <2>2. DownInv'
    BY <1>0, <2>1, SameBegun, SameSent DEF DownInv
  <2>3. ASSUME NEW e \in Devices, NEW j \in Calls, NEW k \in Overs, NEW m \in Nat, NEW n \in Nat,
               Follows(j, k, m, n)', Hearing(e, j)'
        PROVE  Heard(e, j, k, n)'
    <3>1. Follows(j, k, m, n) /\ j \notin offered
      BY <1>0, <2>1, <2>3, SameBegun DEF Follows, OverInv
    <3>2. Hearing(e, j)
      BY <2>1, <2>3, <3>1, SameBegun, SameSent DEF Hearing, Due
    <3> QED
      BY <1>0, <2>1, <3>1, <3>2, SameSent DEF HeardInv, Heard
  <2> QED
    BY <2>2, <2>3 DEF HeardInv
<1>6. ASSUME NEW d \in Devices, SendPending(d) PROVE (DownInv /\ HeardInv)'
  <2>1. CASE backlog[d] = {}
    <3>1. /\ UNCHANGED <<begun, left, backlog, stream>>
          /\ \A e \in Devices : socket'[e] = "down" => socket[e] = "down"
      BY <1>6, <2>1 DEF SendPending, NotifyTypeOK
    <3> QED
      BY <1>0, <3>1, SameBegun, SameSent DEF DownInv, HeardInv, Follows, Hearing, Due, Heard
  <2>2. CASE backlog[d] # {}
    <3>1. PICK i \in backlog[d] : /\ backlog' = [backlog EXCEPT ![d] = @ \ {i}]
                                  /\ SendMessage(d, "ringing", i)
      BY <1>6, <2>2 DEF SendPending
    <3>2. i \in Calls /\ socket[d] # "down" /\ UNCHANGED <<begun, left, socket>>
      BY <1>6, <2>2 DEF NotifyTypeOK, SendPending
    <3>3. \A e \in Devices, j \in Calls :
            j \in backlog'[e] <=> j \in backlog[e] /\ ~ (e = d /\ j = i)
      BY <3>1 DEF NotifyTypeOK
    <3>4. \A e \in Devices, l \in Kinds, j \in Calls :
            Sent(e, l, j)' <=> Sent(e, l, j) \/ (e = d /\ l = "ringing" /\ j = i)
      BY <3>1, <3>2, SendEffect
    <3>5. \A e \in Devices : e # d => backlog'[e] = backlog[e]
      BY <3>1 DEF NotifyTypeOK
    <3>6. DownInv'
      BY <1>0, <3>2, <3>4, <3>5, SameBegun DEF DownInv
    <3>7. ASSUME NEW e \in Devices, NEW j \in Calls, NEW k \in Overs, NEW m \in Nat, NEW n \in Nat,
                 Follows(j, k, m, n)', Hearing(e, j)'
          PROVE  Heard(e, j, k, n)'
      <4>1. Follows(j, k, m, n)
        BY <3>2, <3>7, SameBegun DEF Follows
      <4>2. Due(e, j)' => Due(e, j)
        BY <3>2, SameBegun DEF Due
      <4>3. Hearing(e, j)
        BY <3>1, <3>3, <3>4, <3>7, <4>2 DEF Hearing
      <4>4. Heard(e, j, k, n)
        BY <1>0, <4>1, <4>3 DEF HeardInv
      <4> QED
        BY <3>2, <3>4, <4>4 DEF Heard
    <3> QED
      BY <3>6, <3>7 DEF HeardInv
  <2> QED
    BY <2>1, <2>2
<1>7. ASSUME NEW d \in Devices, Connect(d) PROVE (DownInv /\ HeardInv)'
  <2>1. /\ UNCHANGED <<begun, left, backlog, stream>>
        /\ \A e \in Devices : socket'[e] = "down" => socket[e] = "down"
    BY <1>7 DEF Connect, NotifyTypeOK
  <2> QED
    BY <1>0, <2>1, SameBegun, SameSent DEF DownInv, HeardInv, Follows, Hearing, Due, Heard
<1>8. ASSUME NEW d \in Devices, Disconnect(d) PROVE (DownInv /\ HeardInv)'
  <2>1. /\ UNCHANGED begun /\ backlog'[d] = {} /\ stream'[d] = << >>
        /\ \A e \in Devices : e # d =>
             /\ backlog'[e] = backlog[e] /\ socket'[e] = socket[e]
             /\ \A k \in Kinds, j \in Calls : Sent(e, k, j)' <=> Sent(e, k, j)
    BY <1>8 DEF Disconnect, Sent, NotifyTypeOK
  <2>2. \A j \in Calls, e \in Devices, k \in Kinds, n \in Nat : Is(j, n, k) =>
          (e \in left'[j][n] <=> e \in left[j][n] /\ e # d)
    BY <1>8, DroppedEffect, IsInRange
  <2>3. \A k \in Kinds, j \in Calls : ~Sent(d, k, j)'
    BY <2>1 DEF Sent
  <2>4. DownInv'
    BY <1>0, <2>1, <2>2, <2>3, SameBegun DEF DownInv
  <2>5. ASSUME NEW e \in Devices, NEW j \in Calls, NEW k \in Overs, NEW m \in Nat, NEW n \in Nat,
               Follows(j, k, m, n)', Hearing(e, j)'
        PROVE  Heard(e, j, k, n)'
    <3>1. Follows(j, k, m, n)
      BY <2>1, <2>5, SameBegun DEF Follows
    <3>2. e # d /\ (Due(e, j)' => Due(e, j))
      BY <2>1, <2>2, <2>3, <2>5, SameBegun DEF Hearing, Due
    <3>3. Hearing(e, j)
      BY <2>1, <2>5, <3>2 DEF Hearing
    <3>4. Heard(e, j, k, n)
      BY <1>0, <3>1, <3>3 DEF HeardInv
    <3> QED
      BY <2>1, <2>2, <3>1, <3>2, <3>4 DEF Heard, Follows
  <2> QED
    BY <2>4, <2>5 DEF HeardInv
<1>9. \/ UNCHANGED <<begun, left, socket, backlog, stream>>
      \/ \E i \in Calls : RingsOut(i) \/ StopOut(i) \/ \E a \in Accepts : AnswerOut(a, i)
      \/ \E d \in Devices, i \in Calls : \E n \in 1..Len(begun[i]) : Notify(d, i, n)
      \/ \E d \in Devices : ReadPending(d) \/ SendPending(d) \/ Connect(d) \/ Disconnect(d)
  <2>1. CASE ManagerNext
    <3>1. PICK i \in Calls :
            \/ Rings(i) \/ RingsOut(i) \/ Stops(i) \/ Withdraws(i) \/ StopOut(i)
            \/ \E a \in Accepts : Answers(a, i) \/ AnswerOut(a, i)
      BY <2>1 DEF ManagerNext
    <3>2. Rings(i) \/ Stops(i) \/ Withdraws(i) \/ (\E a \in Accepts : Answers(a, i)) =>
            UNCHANGED <<begun, left, socket, backlog, stream>>
      BY DEF Rings, Answers, Stops, Withdraws
    <3> QED
      BY <3>1, <3>2
  <2>2. CASE ClientsNext
    <3>1. ASSUME NEW d \in Devices, handleMessage(d)
          PROVE  UNCHANGED <<begun, left, socket, backlog, stream>>
      BY <3>1 DEF handleMessage
    <3>2. ASSUME NEW d \in Phones, ListIncomingCalls(d) \/ replaceIncoming(d)
          PROVE  UNCHANGED <<begun, left, socket, backlog, stream>>
      BY <3>2 DEF ListIncomingCalls, replaceIncoming
    <3>3. ASSUME NEW d \in Phones, NEW i \in Calls, NEW n, Push(d, i, n) \/ handlePushPayload(d, i, n)
          PROVE  UNCHANGED <<begun, left, socket, backlog, stream>>
      BY <3>3 DEF Push, handlePushPayload
    <3> QED
      BY <2>2, <3>1, <3>2, <3>3 DEF ClientsNext
  <2>3. CASE UNCHANGED notifyVars
    BY <2>3 DEF notifyVars
  <2> QED
    BY <2>1, <2>2, <2>3 DEF NotifyNext
<1> QED
  BY <1>1, <1>2, <1>3, <1>4, <1>5, <1>6, <1>7, <1>8, <1>9

LEMMA EndStep == NotifyTypeOK /\ EndInv /\ [NotifyNext]_notifyVars => EndInv'
BY OverStep, HeardStep DEF EndInv

\* A connection that was sent a ringing call is sent its answer and its end.
THEOREM NoEndMissed == NotifySpec => []EndReachesAll
<1>1. NotifyTypeOK /\ EndInv => EndReachesAll
  <2> SUFFICES ASSUME NotifyTypeOK, EndInv, NEW d \in Devices, NEW i \in Calls, NEW k \in Overs,
                      Sent(d, "ringing", i), DeliveredAfter("ringing", k, i)
               PROVE  Sent(d, k, i)
    BY DEF EndReachesAll, Overs
  <2>1. PICK m, n \in 1..Len(begun[i]) :
          m < n /\ Is(i, m, "ringing") /\ Is(i, n, k) /\ left[i][n] = {}
    BY DEF DeliveredAfter
  <2>2. Follows(i, k, m, n) /\ Hearing(d, i) /\ m \in Nat /\ n \in Nat
    BY <2>1 DEF Follows, Hearing
  <2>3. Heard(d, i, k, n)
    BY <2>2 DEF EndInv, HeardInv
  <2> QED
    BY <2>1, <2>3 DEF Heard
<1> QED
  BY <1>1, NotifyTypeInit, NotifyTypeStep, EndInit, EndStep, PTL DEF NotifySpec

\* No list read after the answer or the end of a call was announced has it.
THEOREM ListsNeverStale == NotifySpec => NeverListedAgain
<1> DEFINE Over(i) == Begun("answered", i) \/ Begun("stopped", i)
           NoneBack == \A i \in Calls : Over(i) =>
                         /\ \A d \in Devices : i \in backlog'[d] => i \in backlog[d]
                         /\ \A d \in Phones : i \in snapshot'[d] => i \in snapshot[d]
<1>1. NotifyTypeOK /\ EndInv /\ [NotifyNext]_notifyVars => NoneBack
  <2> SUFFICES ASSUME NotifyTypeOK, EndInv, [NotifyNext]_notifyVars, NEW i \in Calls, Over(i)
               PROVE  /\ \A d \in Devices : i \in backlog'[d] => i \in backlog[d]
                      /\ \A d \in Phones : i \in snapshot'[d] => i \in snapshot[d]
    OBVIOUS
  <2>1. i \notin ListPendingIncoming
    <3>1. PICK k \in Overs, n \in Nat : Is(i, n, k)
      BY DEF Begun, Overs
    <3> QED
      BY <3>1 DEF EndInv, OverInv, ListPendingIncoming
  <2>2. CASE \E d \in Devices : ReadPending(d)
    BY <2>1, <2>2 DEF ReadPending, NotifyTypeOK
  <2>3. CASE \E d \in Devices : SendPending(d)
    <3>1. PICK d \in Devices : SendPending(d)
      BY <2>3
    <3>2. CASE backlog[d] = {}
      BY <3>1, <3>2 DEF SendPending
    <3>3. CASE backlog[d] # {}
      <4>1. \E j \in backlog[d] : backlog' = [backlog EXCEPT ![d] = @ \ {j}]
        BY <3>1, <3>3 DEF SendPending
      <4> QED
        BY <3>1, <4>1 DEF SendPending, NotifyTypeOK
    <3> QED
      BY <3>2, <3>3
  <2>4. CASE \E d \in Devices : Disconnect(d)
    BY <2>4 DEF Disconnect, NotifyTypeOK
  <2>5. CASE \E d \in Phones : ListIncomingCalls(d)
    BY <2>1, <2>5 DEF ListIncomingCalls, NotifyTypeOK
  <2>6. CASE UNCHANGED <<backlog, snapshot>>
    BY <2>6
  <2>7. \/ UNCHANGED <<backlog, snapshot>>
        \/ \E d \in Devices : ReadPending(d) \/ SendPending(d) \/ Disconnect(d)
        \/ \E d \in Phones : ListIncomingCalls(d)
    BY DEF NotifyNext, ManagerNext, ClientsNext, notifyVars, RingsOut, AnswerOut, Withdraws, StopOut, Notify,
           Rings, Answers, Stops, Push, handlePushPayload, Connect, handleMessage, replaceIncoming
  <2> QED
    BY <2>2, <2>3, <2>4, <2>5, <2>6, <2>7
<1> QED
  BY <1>1, NotifyTypeInit, NotifyTypeStep, EndInit, EndStep, PTL DEF NotifySpec, NeverListedAgain
=============================================================================
