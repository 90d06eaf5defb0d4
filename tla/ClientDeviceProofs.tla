-------------------------- MODULE ClientDeviceProofs --------------------------
(***************************************************************************)
(* Proofs about devices, for every number of them, of messages and pings.  *)
(***************************************************************************)
EXTENDS ClientDevice, TLAPS

-----------------------------------------------------------------------------
(* The lists of pings. *)

PingLists == UNION {[ids -> 0 .. MaxPings] : ids \in SUBSET (1 .. MaxSeq + 1)}

LEMMA PingListShape ==
  \A p : p \in PingLists <=> /\ p \in [DOMAIN p -> 0 .. MaxPings]
                             /\ DOMAIN p \subseteq 1 .. MaxSeq + 1
BY DEF PingLists

LEMMA NoPingsList == noPings \in PingLists /\ DOMAIN noPings = {}
BY PingListShape DEF noPings

LEMMA AddPingList ==
  ASSUME NEW p \in PingLists, NEW id \in 1 .. MaxSeq + 1, NEW c \in 0 .. MaxPings
  PROVE  /\ addPing(p, id, c) \in PingLists
         /\ DOMAIN addPing(p, id, c) = DOMAIN p \cup {id}
         /\ \A i \in DOMAIN p : addPing(p, id, c)[i] = p[i]
         /\ id \notin DOMAIN p => addPing(p, id, c)[id] = c
<1> DEFINE new == addPing(p, id, c)
<1>1. p \in [DOMAIN p -> 0 .. MaxPings] /\ DOMAIN p \subseteq 1 .. MaxSeq + 1
  BY PingListShape
<1>2. CASE id \in DOMAIN p
  BY <1>2 DEF addPing
<1>3. CASE id \notin DOMAIN p
  <2>1. new = [i \in DOMAIN p \cup {id} |-> IF i = id THEN c ELSE p[i]]
    BY <1>3 DEF addPing
  <2> HIDE DEF new
  <2>2. /\ DOMAIN new = DOMAIN p \cup {id}
        /\ \A i \in DOMAIN p : new[i] = p[i]
        /\ new[id] = c
    BY <1>3, <2>1
  <2>3. new \in [DOMAIN new -> 0 .. MaxPings]
    BY <1>1, <2>1, <2>2
  <2>4. new \in PingLists
    BY <1>1, <2>2, <2>3, PingListShape
  <2> QED
    BY <2>2, <2>4 DEF new
<1> QED
  BY <1>2, <1>3

LEMMA RemovePingList ==
  ASSUME NEW p \in PingLists, NEW id
  PROVE  /\ removePing(p, id) \in PingLists
         /\ DOMAIN removePing(p, id) = DOMAIN p \ {id}
         /\ \A i \in DOMAIN p \ {id} : removePing(p, id)[i] = p[i]
<1> DEFINE new == removePing(p, id)
<1>1. p \in [DOMAIN p -> 0 .. MaxPings] /\ DOMAIN p \subseteq 1 .. MaxSeq + 1
  BY PingListShape
<1>2. new = [i \in DOMAIN p \ {id} |-> p[i]]
  BY DEF removePing, Restrict
<1> HIDE DEF new
<1>3. DOMAIN new = DOMAIN p \ {id} /\ \A i \in DOMAIN p \ {id} : new[i] = p[i]
  BY <1>2
<1>4. new \in [DOMAIN new -> 0 .. MaxPings]
  BY <1>1, <1>2, <1>3
<1>5. new \in PingLists
  BY <1>1, <1>3, <1>4, PingListShape
<1> QED
  BY <1>3, <1>5 DEF new

-----------------------------------------------------------------------------
(* Types. *)

LEMMA FieldsShape ==
  DeviceFields = [uid : 0 .. MaxUid, recheck : BOOLEAN, mySeqNum : 1 .. MaxSeq + 1,
                  pingList : PingLists, interval : BOOLEAN, connected : BOOLEAN,
                  mode : {"open", "closed", "crashed", "exhausted"}]
BY DEF DeviceFields, PingLists

LEMMA SendingType ==
  ASSUME NEW dv \in DeviceFields, mayCount(dv), NEW type
  PROVE  /\ sending(dv, type) \in DeviceFields
         /\ sending(dv, type).mySeqNum >= dv.mySeqNum
         /\ \A d \in Client : \A m \in messages(d, dv, type) :
              m.from = d /\ m.seq \in 1 .. sending(dv, type).mySeqNum - 1
BY DeviceBounds, FieldsShape DEF sending, mayCount, messages, Message

LEMMA RegisteringType ==
  ASSUME NEW dv \in DeviceFields, mayCount(dv)
  PROVE  /\ registering(dv) \in DeviceFields
         /\ registering(dv).mySeqNum >= dv.mySeqNum
         /\ \A d \in Client : \A m \in registerMessages(d, dv) :
              m.from = d /\ m.seq \in 1 .. registering(dv).mySeqNum - 1
<1> DEFINE counted == sending(dv, "register")
           armed == [counted EXCEPT !.recheck = TRUE]
<1>1. /\ counted \in DeviceFields
      /\ counted.mySeqNum >= dv.mySeqNum
      /\ \A d \in Client : \A m \in messages(d, dv, "register") :
           m.from = d /\ m.seq \in 1 .. counted.mySeqNum - 1
  BY SendingType
<1> HIDE DEF counted
<1>2. armed \in DeviceFields /\ armed.mySeqNum = counted.mySeqNum
  BY <1>1, FieldsShape
<1>3. dv.mySeqNum >= dv.mySeqNum
  BY DeviceBounds, FieldsShape
<1>4. CASE dv.recheck
  BY <1>3, <1>4 DEF registering, registerMessages
<1>5. CASE ~dv.recheck
  <2>1. registering(dv) = armed /\ \A d : registerMessages(d, dv) = messages(d, dv, "register")
    BY <1>5 DEF registering, registerMessages, counted
  <2> HIDE DEF armed
  <2> QED
    BY <1>1, <1>2, <2>1
<1> QED
  BY <1>4, <1>5

LEMMA ClosingType ==
  ASSUME NEW dv \in DeviceFields
  PROVE  closing(dv) \in DeviceFields /\ closing(dv).mySeqNum = dv.mySeqNum
<1>1. NoUid \in 0 .. MaxUid /\ noPings \in PingLists /\ dv.mySeqNum \in 1 .. MaxSeq + 1
  BY NoPingsList, FieldsShape, DeviceBounds DEF NoUid
<1> QED
  BY <1>1, FieldsShape DEF closing

\* close() that never comes to an end
exhausting(dv) == [closing(dv) EXCEPT !.mode = "exhausted"]

LEMMA ExhaustingType ==
  ASSUME NEW dv \in DeviceFields
  PROVE  /\ exhausting(dv) \in DeviceFields /\ exhausting(dv).mySeqNum = dv.mySeqNum
         /\ exhausting(dv).mode = "exhausted" /\ exhausting(dv).pingList = noPings
<1>1. /\ closing(dv) \in DeviceFields /\ closing(dv).mySeqNum = dv.mySeqNum
      /\ closing(dv).pingList = noPings
  BY ClosingType DEF closing
<1> QED
  BY <1>1, FieldsShape DEF exhausting

LEMMA RaisingType ==
  ASSUME NEW dv \in DeviceFields, NEW d
  PROVE  raising(d, dv) \in DeviceFields /\ raising(d, dv).mySeqNum = dv.mySeqNum
<1>1. closing(dv) \in DeviceFields /\ closing(dv).mySeqNum = dv.mySeqNum
  BY ClosingType
<1> QED
  BY <1>1, FieldsShape DEF raising

LEMMA CallingType ==
  ASSUME NEW counts \in Seq(Nat), NEW called
  PROVE  calling(counts, called) \in Seq(Nat) /\ Len(calling(counts, called)) = Len(counts)
BY DEF calling

\* A step of device d is well typed when the device and what it sends are.
LEMMA OneDevice ==
  ASSUME DeviceTypeOK, NEW d \in Client,
         dev' = [dev EXCEPT ![d] = dev'[d]],
         dev'[d] \in DeviceFields, dev'[d].mySeqNum >= dev[d].mySeqNum,
         \A m \in sent' \ sent : m.from = d /\ m.seq \in 1 .. dev'[d].mySeqNum - 1,
         answered' \in [Client -> Seq(Nat)]
  PROVE  DeviceTypeOK'
<1>1. dev' \in [Client -> DeviceFields]
  BY DEF DeviceTypeOK
<1>2. ASSUME NEW m \in sent' PROVE m.from \in Client /\ m.seq \in 1 .. dev'[m.from].mySeqNum - 1
  <2>1. CASE m \notin sent
    BY <2>1
  <2>2. CASE m \in sent /\ m.from = d
    <3>1. m.seq \in 1 .. dev[d].mySeqNum - 1 /\ dev[d] \in DeviceFields
      BY <2>2 DEF DeviceTypeOK
    <3>2. dev[d].mySeqNum \in Nat /\ dev'[d].mySeqNum \in Nat
      BY <3>1, FieldsShape, DeviceBounds
    <3> QED
      BY <2>2, <3>1, <3>2
  <2>3. CASE m \in sent /\ m.from # d
    BY <2>3 DEF DeviceTypeOK
  <2> QED
    BY <2>1, <2>2, <2>3
<1> QED
  BY <1>1, <1>2 DEF DeviceTypeOK

\* The number of a device never goes back.
LEMMA SameNumber ==
  ASSUME NEW dv \in DeviceFields, NEW new \in DeviceFields, new.mySeqNum = dv.mySeqNum
  PROVE  new.mySeqNum >= dv.mySeqNum
BY FieldsShape, DeviceBounds

LEMMA InitType == Init => DeviceTypeOK
<1> SUFFICES ASSUME Init PROVE DeviceTypeOK
  OBVIOUS
<1>1. ASSUME NEW d \in Client PROVE newDevice(d) \in DeviceFields
  BY NoPingsList, FieldsShape, DeviceBounds DEF newDevice, NoUid
<1>2. \A d \in Client : newDevice(d).mySeqNum = 2
  BY DEF newDevice
<1>3. dev \in [Client -> DeviceFields] /\ \A d \in Client : dev[d].mySeqNum = 2
  BY <1>1, <1>2 DEF Init
<1> QED
  BY <1>3 DEF Init, DeviceTypeOK

LEMMA SendType ==
  ASSUME DeviceTypeOK, NEW d \in Client, NEW type, Send(d, type)
  PROVE  DeviceTypeOK'
<1>1. dev[d] \in DeviceFields /\ mayCount(dev[d])
  BY DEF DeviceTypeOK, Send
<1>2. /\ dev'[d] = sending(dev[d], type)
      /\ dev' = [dev EXCEPT ![d] = dev'[d]]
      /\ sent' = sent \cup messages(d, dev[d], type)
      /\ answered' \in [Client -> Seq(Nat)]
  BY DEF DeviceTypeOK, Send
<1>3. /\ dev'[d] \in DeviceFields
      /\ dev'[d].mySeqNum >= dev[d].mySeqNum
      /\ \A m \in messages(d, dev[d], type) : m.from = d /\ m.seq \in 1 .. dev'[d].mySeqNum - 1
  BY <1>1, <1>2, SendingType
<1> QED
  BY <1>2, <1>3, OneDevice

\* A device with one ping more, under its next number
LEMMA WaitingType ==
  ASSUME NEW dv \in DeviceFields, mayCount(dv), NEW c \in 0 .. MaxPings
  PROVE  LET listed == [dv EXCEPT !.pingList = addPing(@, dv.mySeqNum, c)]
         IN  /\ listed \in DeviceFields
             /\ listed.mySeqNum = dv.mySeqNum /\ mayCount(listed)
             /\ listed.pingList = addPing(dv.pingList, dv.mySeqNum, c)
             /\ \A d : messages(d, dv, "ping") = messages(d, listed, "ping")
<1>1. dv.pingList \in PingLists /\ dv.mySeqNum \in 1 .. MaxSeq + 1
  BY FieldsShape
<1> DEFINE p == addPing(dv.pingList, dv.mySeqNum, c)
           listed == [dv EXCEPT !.pingList = p]
<1>2. p \in PingLists
  BY <1>1, AddPingList
<1> HIDE DEF p
<1>3. listed \in DeviceFields /\ listed.pingList = p
  BY <1>2, FieldsShape
<1>4. /\ listed.mySeqNum = dv.mySeqNum
      /\ listed.uid = dv.uid /\ listed.connected = dv.connected
  BY FieldsShape
<1>5. listed = [dv EXCEPT !.pingList = addPing(@, dv.mySeqNum, c)]
  BY FieldsShape DEF p
<1> HIDE DEF listed
<1>6. \A d : messages(d, dv, "ping") = messages(d, listed, "ping")
  BY <1>4 DEF messages, maySend, Message
<1> QED
  BY <1>3, <1>4, <1>5, <1>6 DEF mayCount, p

\* The step of a ping, with or without a callback
LEMMA PingingType ==
  ASSUME DeviceTypeOK, NEW d \in Client, mayCount(dev[d]), NEW c \in 0 .. MaxPings,
         sent' = sent \cup messages(d, dev[d], "ping"),
         dev' = [dev EXCEPT ![d] = sending(
           [dev[d] EXCEPT !.pingList = addPing(@, dev[d].mySeqNum, c)], "ping")],
         answered' \in [Client -> Seq(Nat)]
  PROVE  DeviceTypeOK'
<1> DEFINE listed == [dev[d] EXCEPT !.pingList = addPing(@, dev[d].mySeqNum, c)]
<1>1. dev[d] \in DeviceFields
  BY DEF DeviceTypeOK
<1>2. /\ listed \in DeviceFields
      /\ listed.mySeqNum = dev[d].mySeqNum /\ mayCount(listed)
      /\ messages(d, dev[d], "ping") = messages(d, listed, "ping")
  BY <1>1, WaitingType
<1>3. dev'[d] = sending(listed, "ping") /\ dev' = [dev EXCEPT ![d] = dev'[d]]
  BY DEF DeviceTypeOK
<1> HIDE DEF listed
<1>4. /\ sending(listed, "ping") \in DeviceFields
      /\ sending(listed, "ping").mySeqNum >= listed.mySeqNum
      /\ \A m \in messages(d, listed, "ping") :
           m.from = d /\ m.seq \in 1 .. sending(listed, "ping").mySeqNum - 1
  BY <1>2, SendingType
<1>5. /\ dev'[d] \in DeviceFields
      /\ dev'[d].mySeqNum >= dev[d].mySeqNum
      /\ \A m \in messages(d, dev[d], "ping") : m.from = d /\ m.seq \in 1 .. dev'[d].mySeqNum - 1
  BY <1>2, <1>3, <1>4
<1>6. \A m \in sent' \ sent : m.from = d /\ m.seq \in 1 .. dev'[d].mySeqNum - 1
  BY <1>5
<1> QED
  BY <1>3, <1>5, <1>6, OneDevice

LEMMA AppendType ==
  ASSUME DeviceTypeOK, NEW d \in Client, NEW n \in Nat
  PROVE  [answered EXCEPT ![d] = Append(@, n)] \in [Client -> Seq(Nat)]
<1>1. answered \in [Client -> Seq(Nat)] /\ answered[d] \in Seq(Nat)
  BY DEF DeviceTypeOK
<1>2. Append(answered[d], n) \in Seq(Nat)
  BY <1>1
<1> QED
  BY <1>1, <1>2

LEMMA PingType ==
  ASSUME DeviceTypeOK, NEW d \in Client, Ping(d)
  PROVE  DeviceTypeOK'
<1>1. CASE dev[d].uid = NoUid
  <2>1. answered' = [answered EXCEPT ![d] = Append(@, 1)] /\ UNCHANGED <<sent, dev>>
    BY <1>1 DEF Ping
  <2>2. answered' \in [Client -> Seq(Nat)]
    BY <2>1, AppendType
  <2> QED
    BY <2>1, <2>2 DEF DeviceTypeOK
<1>2. CASE dev[d].uid # NoUid
  <2> DEFINE callback == Len(answered[d]) + 1
  <2>1. callback \in 0 .. MaxPings
    BY DeviceBounds DEF Ping, DeviceTypeOK
  <2>2. /\ mayCount(dev[d])
        /\ answered' = [answered EXCEPT ![d] = Append(@, 0)]
        /\ sent' = sent \cup messages(d, dev[d], "ping")
        /\ dev' = [dev EXCEPT ![d] = sending(
             [dev[d] EXCEPT !.pingList = addPing(@, dev[d].mySeqNum, callback)], "ping")]
    BY <1>2 DEF Ping
  <2>3. answered' \in [Client -> Seq(Nat)]
    BY <2>2, AppendType
  <2> HIDE DEF callback
  <2> QED
    BY <2>1, <2>2, <2>3, PingingType
<1> QED
  BY <1>1, <1>2

LEMMA PingUnheardType ==
  ASSUME DeviceTypeOK, NEW d \in Client, PingUnheard(d)
  PROVE  DeviceTypeOK'
<1>1. NoCallback \in 0 .. MaxPings
  BY DeviceBounds DEF NoCallback
<1>2. answered' \in [Client -> Seq(Nat)]
  BY DEF PingUnheard, DeviceTypeOK
<1>3. /\ mayCount(dev[d])
      /\ sent' = sent \cup messages(d, dev[d], "ping")
      /\ dev' = [dev EXCEPT ![d] = sending(
           [dev[d] EXCEPT !.pingList = addPing(@, dev[d].mySeqNum, NoCallback)], "ping")]
  BY DEF PingUnheard
<1> QED
  BY <1>1, <1>2, <1>3, PingingType

LEMMA CalledType ==
  ASSUME DeviceTypeOK, NEW d \in Client, NEW called
  PROVE  [answered EXCEPT ![d] = calling(@, called)] \in [Client -> Seq(Nat)]
<1>1. answered \in [Client -> Seq(Nat)] /\ answered[d] \in Seq(Nat)
  BY DEF DeviceTypeOK
<1>2. calling(answered[d], called) \in Seq(Nat)
  BY <1>1, CallingType
<1> QED
  BY <1>1, <1>2

\* What a callback that calls close() does, and what callbacks that do not do
ClosedByCallback(d) ==
  /\ d \in closers /\ waiting(dev[d]) # {}
  /\ sent' = sent
  /\ dev' = [dev EXCEPT ![d] = dev'[d]]
  /\ \E run, again \in SUBSET waiting(dev[d]) :
       /\ answered' = [answered EXCEPT ![d] = calling(calling(@, run), again)]
       /\ \/ run = waiting(dev[d]) /\ dev'[d] = closing(dev[d])
          \/ dev'[d] = exhausting(dev[d])

AllReturn(d) ==
  /\ dev' = [dev EXCEPT ![d] = closing(@)]
  /\ answered' = [answered EXCEPT ![d] = calling(@, waiting(dev[d]))]
  /\ sent' = sent

Returns(d, pingId) ==
  /\ answered' = [answered EXCEPT ![d] = calling(@, callbacks(dev[d].pingList, {pingId}))]
  /\ dev' = [dev EXCEPT ![d].pingList = removePing(@, pingId)]
  /\ sent' = sent

LEMMA CallbackClosesCase ==
  ASSUME DeviceTypeOK, NEW d \in Client, NEW callback, CallbackCloses(d, callback)
  PROVE  ClosedByCallback(d)
<1>1. dev \in [Client -> DeviceFields]
  BY DEF DeviceTypeOK
<1>2. PICK run \in SUBSET waiting(dev[d]), again \in SUBSET waiting(dev[d]) :
        /\ callback \in again
        /\ answered' = [answered EXCEPT ![d] = calling(calling(@, run), again)]
        /\ \/ run = waiting(dev[d]) /\ dev' = [dev EXCEPT ![d] = closing(@)]
           \/ dev' = [dev EXCEPT ![d] = [closing(@) EXCEPT !.mode = "exhausted"]]
  BY DEF CallbackCloses
<1>3. /\ d \in closers /\ sent' = sent
      /\ again \in SUBSET waiting(dev[d]) /\ waiting(dev[d]) # {}
  BY <1>2 DEF CallbackCloses
<1>4. dev' = [dev EXCEPT ![d] = dev'[d]]
  BY <1>1, <1>2
<1>5. \/ run = waiting(dev[d]) /\ dev'[d] = closing(dev[d])
      \/ dev'[d] = exhausting(dev[d])
  BY <1>1, <1>2 DEF exhausting
<1> QED
  BY <1>2, <1>3, <1>4, <1>5 DEF ClosedByCallback

LEMMA CloseCases ==
  ASSUME DeviceTypeOK, NEW d \in Client, Close(d)
  PROVE  AllReturn(d) \/ ClosedByCallback(d)
BY CallbackClosesCase DEF Close, AllReturn

LEMMA EndPingCases ==
  ASSUME DeviceTypeOK, NEW d \in Client, NEW pingId, endPing(d, pingId)
  PROVE  Returns(d, pingId) \/ ClosedByCallback(d)
BY CallbackClosesCase DEF endPing, Returns

LEMMA ClosedByCallbackType ==
  ASSUME DeviceTypeOK, NEW d \in Client, ClosedByCallback(d)
  PROVE  DeviceTypeOK'
<1>1. dev[d] \in DeviceFields
  BY DEF DeviceTypeOK
<1>2. dev'[d] \in DeviceFields /\ dev'[d].mySeqNum = dev[d].mySeqNum
  BY <1>1, ClosingType, ExhaustingType DEF ClosedByCallback
<1>3. answered' \in [Client -> Seq(Nat)]
  <2>1. PICK run, again :
          answered' = [answered EXCEPT ![d] = calling(calling(@, run), again)]
    BY DEF ClosedByCallback
  <2>2. answered \in [Client -> Seq(Nat)] /\ calling(answered[d], run) \in Seq(Nat)
    BY CallingType DEF DeviceTypeOK
  <2>3. calling(calling(answered[d], run), again) \in Seq(Nat)
    BY <2>2, CallingType
  <2> QED
    BY <2>1, <2>2, <2>3
<1> QED
  BY <1>1, <1>2, <1>3, SameNumber, OneDevice DEF ClosedByCallback

LEMMA CloseType ==
  ASSUME DeviceTypeOK, NEW d \in Client, AllReturn(d)
  PROVE  DeviceTypeOK'
<1>1. dev[d] \in DeviceFields
  BY DEF DeviceTypeOK
<1>2. answered' \in [Client -> Seq(Nat)]
  BY CalledType DEF AllReturn
<1>3. dev'[d] = closing(dev[d]) /\ dev' = [dev EXCEPT ![d] = dev'[d]] /\ sent' = sent
  BY DEF AllReturn, DeviceTypeOK
<1>4. dev'[d] \in DeviceFields /\ dev'[d].mySeqNum >= dev[d].mySeqNum
  BY <1>1, <1>3, ClosingType, SameNumber
<1> QED
  BY <1>2, <1>3, <1>4, OneDevice

LEMMA RecheckType ==
  ASSUME DeviceTypeOK, NEW d \in Client, RecheckTimer(d)
  PROVE  DeviceTypeOK'
<1> DEFINE cleared == [dev[d] EXCEPT !.recheck = FALSE]
<1>1. dev[d] \in DeviceFields
  BY DEF DeviceTypeOK
<1>2. cleared \in DeviceFields /\ cleared.mySeqNum = dev[d].mySeqNum
  BY <1>1, FieldsShape
<1>3. /\ mayCount(cleared)
      /\ sent' = sent \cup registerMessages(d, cleared)
      /\ dev'[d] = registering(cleared)
      /\ dev' = [dev EXCEPT ![d] = dev'[d]]
      /\ answered' \in [Client -> Seq(Nat)]
  BY DEF RecheckTimer, DeviceTypeOK
<1> HIDE DEF cleared
<1>4. /\ dev'[d] \in DeviceFields
      /\ dev'[d].mySeqNum >= dev[d].mySeqNum
      /\ \A m \in registerMessages(d, cleared) : m.from = d /\ m.seq \in 1 .. dev'[d].mySeqNum - 1
  BY <1>2, <1>3, RegisteringType
<1> QED
  BY <1>3, <1>4, OneDevice

\* What the end of a ping does to the fields when its callback returns
LEMMA ReturnsFields ==
  ASSUME DeviceTypeOK, NEW d \in Client, NEW pingId, Returns(d, pingId)
  PROVE  /\ dev'[d] = [dev[d] EXCEPT !.pingList = removePing(@, pingId)]
         /\ dev'[d].pingList = removePing(dev[d].pingList, pingId)
         /\ dev' = [dev EXCEPT ![d] = dev'[d]]
         /\ sent' = sent
<1>1. dev[d] \in DeviceFields
  BY DEF DeviceTypeOK
<1>2. /\ dev'[d] = [dev[d] EXCEPT !.pingList = removePing(@, pingId)]
      /\ dev' = [dev EXCEPT ![d] = dev'[d]]
      /\ sent' = sent
  BY DEF Returns, DeviceTypeOK
<1> QED
  BY <1>1, <1>2, FieldsShape

LEMMA ReturnsType ==
  ASSUME DeviceTypeOK, NEW d \in Client, NEW pingId, Returns(d, pingId)
  PROVE  DeviceTypeOK'
<1> DEFINE p == removePing(dev[d].pingList, pingId)
           dv == [dev[d] EXCEPT !.pingList = p]
<1>1. dev[d] \in DeviceFields
  BY DEF DeviceTypeOK
<1>2. p \in PingLists
  BY <1>1, FieldsShape, RemovePingList
<1>3. dev'[d] = dv /\ dev' = [dev EXCEPT ![d] = dev'[d]] /\ sent' = sent
  BY ReturnsFields
<1> HIDE DEF p
<1>4. dv \in DeviceFields /\ dv.mySeqNum = dev[d].mySeqNum
  BY <1>1, <1>2, FieldsShape
<1> HIDE DEF dv
<1>5. dev'[d] \in DeviceFields /\ dev'[d].mySeqNum >= dev[d].mySeqNum
  BY <1>1, <1>3, <1>4, SameNumber
<1>6. answered' \in [Client -> Seq(Nat)]
  BY CalledType DEF Returns
<1> QED
  BY <1>3, <1>5, <1>6, OneDevice

LEMMA ReceiveRegisterType ==
  ASSUME DeviceTypeOK, NEW d \in Client, NEW uid \in 1 .. MaxUid, ReceiveRegister(d, uid)
  PROVE  DeviceTypeOK'
<1> DEFINE newUid == IF dev[d].uid = NoUid THEN uid ELSE dev[d].uid
           known == [dev[d] EXCEPT !.uid = newUid]
           dv == [known EXCEPT !.recheck = FALSE]
<1>1. dev[d] \in DeviceFields /\ newUid \in 0 .. MaxUid
  BY FieldsShape DEF DeviceTypeOK
<1>2. dev'[d] = dv /\ dev' = [dev EXCEPT ![d] = dev'[d]] /\ sent' = sent
      /\ answered' \in [Client -> Seq(Nat)]
  BY DEF ReceiveRegister, DeviceTypeOK
<1> HIDE DEF newUid
<1>3. known \in DeviceFields /\ known.mySeqNum = dev[d].mySeqNum
  BY <1>1, FieldsShape
<1> HIDE DEF known
<1>4. dv \in DeviceFields /\ dv.mySeqNum = dev[d].mySeqNum
  BY <1>3, FieldsShape
<1> HIDE DEF dv
<1>5. dev'[d] \in DeviceFields /\ dev'[d].mySeqNum >= dev[d].mySeqNum
  BY <1>1, <1>2, <1>4, SameNumber
<1> QED
  BY <1>2, <1>5, OneDevice

LEMMA ReceiveNotRegisteredType ==
  ASSUME DeviceTypeOK, NEW d \in Client, ReceiveNotRegistered(d)
  PROVE  DeviceTypeOK'
<1> DEFINE lost == [dev[d] EXCEPT !.uid = NoUid]
<1>1. dev[d] \in DeviceFields
  BY DEF DeviceTypeOK
<1>2. lost \in DeviceFields /\ lost.mySeqNum = dev[d].mySeqNum
  BY <1>1, FieldsShape, DeviceBounds DEF NoUid
<1>3. /\ mayCount(lost)
      /\ sent' = sent \cup registerMessages(d, lost)
      /\ dev'[d] = raising(d, registering(lost))
      /\ dev' = [dev EXCEPT ![d] = dev'[d]]
      /\ answered' \in [Client -> Seq(Nat)]
  BY DEF ReceiveNotRegistered, DeviceTypeOK
<1> HIDE DEF lost
<1>4. /\ registering(lost) \in DeviceFields
      /\ registering(lost).mySeqNum >= dev[d].mySeqNum
      /\ \A m \in registerMessages(d, lost) :
           m.from = d /\ m.seq \in 1 .. registering(lost).mySeqNum - 1
  BY <1>2, <1>3, RegisteringType
<1>5. dev'[d] \in DeviceFields /\ dev'[d].mySeqNum = registering(lost).mySeqNum
  BY <1>3, <1>4, RaisingType
<1> QED
  BY <1>3, <1>4, <1>5, OneDevice

LEMMA ReceiveOtherErrorType ==
  ASSUME DeviceTypeOK, NEW d \in Client, ReceiveOtherError(d)
  PROVE  DeviceTypeOK'
<1>1. dev[d] \in DeviceFields
  BY DEF DeviceTypeOK
<1>2. /\ dev'[d] = raising(d, dev[d])
      /\ dev' = [dev EXCEPT ![d] = dev'[d]]
      /\ sent' = sent /\ answered' \in [Client -> Seq(Nat)]
  BY DEF ReceiveOtherError, DeviceTypeOK
<1>3. dev'[d] \in DeviceFields /\ dev'[d].mySeqNum >= dev[d].mySeqNum
  BY <1>1, <1>2, RaisingType, SameNumber
<1> QED
  BY <1>2, <1>3, OneDevice

LEMMA ConnectionLostType ==
  ASSUME DeviceTypeOK, NEW d \in Client, ConnectionLost(d)
  PROVE  DeviceTypeOK'
<1> DEFINE dv == [dev[d] EXCEPT !.connected = FALSE]
<1>1. dev[d] \in DeviceFields
  BY DEF DeviceTypeOK
<1>2. dv \in DeviceFields /\ dv.mySeqNum = dev[d].mySeqNum
  BY <1>1, FieldsShape
<1>3. /\ dev'[d] = dv
      /\ dev' = [dev EXCEPT ![d] = dev'[d]]
      /\ sent' = sent /\ answered' \in [Client -> Seq(Nat)]
  BY DEF ConnectionLost, DeviceTypeOK
<1> HIDE DEF dv
<1>4. dev'[d] \in DeviceFields /\ dev'[d].mySeqNum >= dev[d].mySeqNum
  BY <1>1, <1>2, <1>3, SameNumber
<1> QED
  BY <1>3, <1>4, OneDevice

LEMMA StepType == DeviceTypeOK /\ [Next]_vars => DeviceTypeOK'
<1> SUFFICES ASSUME DeviceTypeOK, [Next]_vars PROVE DeviceTypeOK'
  OBVIOUS
<1>1. CASE UNCHANGED vars
  BY <1>1 DEF vars, DeviceTypeOK
<1>2. ASSUME NEW d \in Client, NEW pingId, StalePing(d, pingId) \/ ReceivePing(d, pingId)
      PROVE  DeviceTypeOK'
  BY <1>2, EndPingCases, ReturnsType, ClosedByCallbackType DEF StalePing, ReceivePing
<1>3. ASSUME NEW d \in Client, Close(d) PROVE DeviceTypeOK'
  BY <1>3, CloseCases, CloseType, ClosedByCallbackType
<1>4. ASSUME NEW d \in Client, KeepaliveTimer(d) PROVE PingUnheard(d)
  BY <1>4 DEF KeepaliveTimer
<1> QED
  BY <1>1, <1>2, <1>3, <1>4, SendType, PingType, PingUnheardType, RecheckType,
     ReceiveRegisterType, ReceiveNotRegisteredType, ReceiveOtherErrorType,
     ConnectionLostType DEF Next

\* Every device keeps its shape, and no message carries a future number.
THEOREM DeviceTypeCorrect == Spec => []DeviceTypeOK
BY InitType, StepType, PTL DEF Spec

-----------------------------------------------------------------------------
(* Registration. *)

\* What sending does not touch
LEMMA SendingKeeps ==
  ASSUME NEW dv \in DeviceFields, NEW type
  PROVE  LET new == sending(dv, type)
         IN  /\ new.uid = dv.uid /\ new.recheck = dv.recheck /\ new.mode = dv.mode
             /\ new.interval = dv.interval /\ new.connected = dv.connected
             /\ new.pingList = dv.pingList
BY FieldsShape DEF sending

LEMMA RegisteringKeeps ==
  ASSUME NEW dv \in DeviceFields, mayCount(dv)
  PROVE  LET new == registering(dv)
         IN  /\ new.recheck /\ new.uid = dv.uid /\ new.mode = dv.mode
             /\ new.pingList = dv.pingList
<1> DEFINE counted == sending(dv, "register")
           armed == [counted EXCEPT !.recheck = TRUE]
<1>1. /\ counted \in DeviceFields
      /\ counted.uid = dv.uid /\ counted.mode = dv.mode /\ counted.pingList = dv.pingList
  BY SendingType, SendingKeeps
<1> HIDE DEF counted
<1>2. /\ armed.recheck /\ armed.uid = dv.uid /\ armed.mode = dv.mode
      /\ armed.pingList = dv.pingList
  BY <1>1, FieldsShape
<1>3. registering(dv) = IF dv.recheck THEN dv ELSE armed
  BY DEF registering, counted
<1> HIDE DEF armed
<1> QED
  BY <1>2, <1>3

Trying(dv) == dv.mode \in {"open", "crashed"} /\ dv.uid = NoUid => dv.recheck

LEMMA OneTrying ==
  ASSUME DeviceTypeOK, NeverStuck, NEW d \in Client,
         dev' = [dev EXCEPT ![d] = dev'[d]], Trying(dev'[d])
  PROVE  NeverStuck'
BY DEF NeverStuck, Trying, DeviceTypeOK

LEMMA PingTrying ==
  ASSUME DeviceTypeOK, NEW d \in Client, Trying(dev[d]), NEW c \in 0 .. MaxPings, mayCount(dev[d])
  PROVE  Trying(sending([dev[d] EXCEPT !.pingList = addPing(@, dev[d].mySeqNum, c)], "ping"))
<1> DEFINE listed == [dev[d] EXCEPT !.pingList = addPing(@, dev[d].mySeqNum, c)]
<1>1. dev[d] \in DeviceFields
  BY DEF DeviceTypeOK
<1>2. listed \in DeviceFields
  BY <1>1, WaitingType
<1>3. listed.uid = dev[d].uid /\ listed.mode = dev[d].mode /\ listed.recheck = dev[d].recheck
  BY <1>1, FieldsShape
<1> HIDE DEF listed
<1>4. Trying(sending(listed, "ping"))
  BY <1>2, <1>3, SendingKeeps DEF Trying
<1> QED
  BY <1>4 DEF listed

LEMMA StepNeverStuck ==
  ASSUME errorListener = Client, DeviceTypeOK, NeverStuck, [Next]_vars
  PROVE  NeverStuck'
<1>1. \A d \in Client : dev[d] \in DeviceFields /\ Trying(dev[d])
  BY DEF DeviceTypeOK, NeverStuck, Trying
<1>2. CASE UNCHANGED vars
  BY <1>2 DEF vars, NeverStuck
<1>3. ASSUME NEW d \in Client, NEW type, Send(d, type) PROVE NeverStuck'
  <2>1. dev'[d] = sending(dev[d], type) /\ dev' = [dev EXCEPT ![d] = dev'[d]]
    BY <1>3 DEF Send, DeviceTypeOK
  <2>2. Trying(dev'[d])
    BY <1>1, <2>1, SendingKeeps DEF Trying
  <2> QED
    BY <2>1, <2>2, OneTrying
<1>4. ASSUME NEW d \in Client, Ping(d) PROVE NeverStuck'
  <2>1. CASE dev[d].uid = NoUid
    BY <1>4, <2>1 DEF Ping, NeverStuck
  <2>2. CASE dev[d].uid # NoUid
    <3> DEFINE callback == Len(answered[d]) + 1
               new == sending([dev[d] EXCEPT
                        !.pingList = addPing(@, dev[d].mySeqNum, callback)], "ping")
    <3>1. callback \in 0 .. MaxPings /\ mayCount(dev[d])
      BY <1>4, DeviceBounds DEF Ping, DeviceTypeOK
    <3>2. dev'[d] = new /\ dev' = [dev EXCEPT ![d] = dev'[d]]
      BY <1>4, <2>2 DEF Ping, DeviceTypeOK
    <3> HIDE DEF callback
    <3>3. Trying(new)
      BY <1>1, <3>1, PingTrying
    <3> QED
      BY <3>2, <3>3, OneTrying
  <2> QED
    BY <2>1, <2>2
<1>5. ASSUME NEW d \in Client, PingUnheard(d) PROVE NeverStuck'
  <2> DEFINE new == sending([dev[d] EXCEPT
                      !.pingList = addPing(@, dev[d].mySeqNum, NoCallback)], "ping")
  <2>1. NoCallback \in 0 .. MaxPings /\ mayCount(dev[d])
    BY <1>5, DeviceBounds DEF PingUnheard, NoCallback
  <2>2. dev'[d] = new /\ dev' = [dev EXCEPT ![d] = dev'[d]]
    BY <1>5 DEF PingUnheard, DeviceTypeOK
  <2>3. Trying(new)
    BY <1>1, <2>1, PingTrying
  <2> QED
    BY <2>2, <2>3, OneTrying
<1>6. ASSUME NEW d \in Client, AllReturn(d) \/ ClosedByCallback(d) PROVE NeverStuck'
  <2>1. /\ dev'[d] = closing(dev[d]) \/ dev'[d] = exhausting(dev[d])
        /\ dev' = [dev EXCEPT ![d] = dev'[d]]
    BY <1>6 DEF AllReturn, ClosedByCallback, DeviceTypeOK
  <2>2. dev'[d].mode \in {"closed", "exhausted"}
    BY <1>1, <2>1, ExhaustingType DEF closing
  <2> QED
    BY <2>1, <2>2, OneTrying DEF Trying
<1>7. ASSUME NEW d \in Client, RecheckTimer(d) PROVE NeverStuck'
  <2> DEFINE cleared == [dev[d] EXCEPT !.recheck = FALSE]
  <2>1. cleared \in DeviceFields
    BY <1>1, FieldsShape
  <2>2. mayCount(cleared) /\ dev'[d] = registering(cleared) /\ dev' = [dev EXCEPT ![d] = dev'[d]]
    BY <1>7 DEF RecheckTimer, DeviceTypeOK
  <2> HIDE DEF cleared
  <2>3. dev'[d].recheck
    BY <2>1, <2>2, RegisteringKeeps
  <2> QED
    BY <2>2, <2>3, OneTrying DEF Trying
<1>8. ASSUME NEW d \in Client, NEW pingId, Returns(d, pingId) PROVE NeverStuck'
  <2> DEFINE p == removePing(dev[d].pingList, pingId)
             dv == [dev[d] EXCEPT !.pingList = p]
  <2>1. dev'[d] = dv /\ dev' = [dev EXCEPT ![d] = dev'[d]]
    BY <1>8, ReturnsFields
  <2> HIDE DEF p
  <2>2. dv.uid = dev[d].uid /\ dv.mode = dev[d].mode /\ dv.recheck = dev[d].recheck
    BY <1>1, FieldsShape
  <2> HIDE DEF dv
  <2>3. Trying(dev'[d])
    BY <1>1, <2>1, <2>2 DEF Trying
  <2> QED
    BY <2>1, <2>3, OneTrying
<1>9. ASSUME NEW d \in Client, NEW uid \in 1 .. MaxUid, ReceiveRegister(d, uid) PROVE NeverStuck'
  <2>1. /\ dev'[d].uid = IF dev[d].uid = NoUid THEN uid ELSE dev[d].uid
        /\ dev' = [dev EXCEPT ![d] = dev'[d]]
    BY <1>1, <1>9, FieldsShape DEF ReceiveRegister, DeviceTypeOK
  <2>2. dev'[d].uid # NoUid
    BY <2>1 DEF NoUid
  <2> QED
    BY <2>1, <2>2, OneTrying DEF Trying
<1>10. ASSUME NEW d \in Client, ReceiveNotRegistered(d) PROVE NeverStuck'
  <2> DEFINE lost == [dev[d] EXCEPT !.uid = NoUid]
  <2>1. lost \in DeviceFields
    BY <1>1, FieldsShape, DeviceBounds DEF NoUid
  <2>2. mayCount(lost) /\ dev'[d] = registering(lost) /\ dev' = [dev EXCEPT ![d] = dev'[d]]
    BY <1>10 DEF ReceiveNotRegistered, raising, DeviceTypeOK
  <2> HIDE DEF lost
  <2>3. dev'[d].recheck
    BY <2>1, <2>2, RegisteringKeeps
  <2> QED
    BY <2>2, <2>3, OneTrying DEF Trying
<1>11. ASSUME NEW d \in Client, ReceiveOtherError(d) PROVE NeverStuck'
  BY <1>1, <1>11, OneTrying DEF ReceiveOtherError, raising, DeviceTypeOK
<1>12. ASSUME NEW d \in Client, ConnectionLost(d) PROVE NeverStuck'
  <2> DEFINE dv == [dev[d] EXCEPT !.connected = FALSE]
  <2>1. dev'[d] = dv /\ dev' = [dev EXCEPT ![d] = dev'[d]]
    BY <1>12 DEF ConnectionLost, DeviceTypeOK
  <2>2. dv.uid = dev[d].uid /\ dv.mode = dev[d].mode /\ dv.recheck = dev[d].recheck
    BY <1>1, FieldsShape
  <2> HIDE DEF dv
  <2>3. Trying(dev'[d])
    BY <1>1, <2>1, <2>2 DEF Trying
  <2> QED
    BY <2>1, <2>3, OneTrying
<1>13. ASSUME NEW d \in Client, NEW pingId, StalePing(d, pingId) \/ ReceivePing(d, pingId)
       PROVE  NeverStuck'
  BY <1>6, <1>8, <1>13, EndPingCases DEF StalePing, ReceivePing
<1>14. ASSUME NEW d \in Client, Close(d) \/ KeepaliveTimer(d) PROVE NeverStuck'
  BY <1>5, <1>6, <1>14, CloseCases DEF KeepaliveTimer
<1> QED
  BY <1>2, <1>3, <1>4, <1>5, <1>7, <1>9, <1>10, <1>11, <1>12, <1>13, <1>14 DEF Next

\* In programs that listen for 'error', a device that is not registered always
\* has its registration timer armed, whatever answers and errors it has met.
THEOREM RegistrationNeverStuck ==
  ASSUME errorListener = Client
  PROVE  Spec => []NeverStuck
<1>1. Init => NeverStuck
  BY DEF Init, newDevice, NeverStuck
<1>2. DeviceTypeOK /\ NeverStuck /\ [Next]_vars => NeverStuck'
  BY StepNeverStuck
<1> QED
  BY <1>1, <1>2, DeviceTypeCorrect, PTL DEF Spec

-----------------------------------------------------------------------------
(* Closed devices. *)

\* A step of device d
Acts(d) ==
  \/ \E type \in {"status", "command"} : Send(d, type)
  \/ Ping(d)
  \/ PingUnheard(d)
  \/ AllReturn(d)
  \/ ClosedByCallback(d)
  \/ RecheckTimer(d)
  \/ \E pingId : Returns(d, pingId) /\ (pingId \in DOMAIN dev[d].pingList \/ Listening(d))
  \/ \E uid \in 1 .. MaxUid : ReceiveRegister(d, uid)
  \/ ReceiveNotRegistered(d)
  \/ ReceiveOtherError(d)
  \/ ConnectionLost(d)

LEMMA NextActs == DeviceTypeOK /\ Next => \E d \in Client : Acts(d)
<1> SUFFICES ASSUME DeviceTypeOK, Next PROVE \E d \in Client : Acts(d)
  OBVIOUS
<1>1. ASSUME NEW d \in Client, NEW pingId, StalePing(d, pingId) \/ ReceivePing(d, pingId)
      PROVE  Acts(d)
  BY <1>1, EndPingCases DEF StalePing, ReceivePing, Acts
<1>2. ASSUME NEW d \in Client, Close(d) \/ KeepaliveTimer(d) PROVE Acts(d)
  BY <1>2, CloseCases DEF KeepaliveTimer, Acts
<1>3. ASSUME NEW d \in Client,
             \/ \E type \in {"status", "command"} : Send(d, type)
             \/ Ping(d) \/ PingUnheard(d) \/ RecheckTimer(d)
             \/ \E uid \in 1 .. MaxUid : ReceiveRegister(d, uid)
             \/ ReceiveNotRegistered(d) \/ ReceiveOtherError(d) \/ ConnectionLost(d)
      PROVE  Acts(d)
  BY <1>3 DEF Acts
<1> QED
  BY <1>1, <1>2, <1>3 DEF Next

\* No callback waits in a list.
NoneWaiting(p) == \A id \in DOMAIN p : p[id] = NoCallback

LEMMA NoneWaitingShape ==
  ASSUME NEW dv, NoneWaiting(dv.pingList)
  PROVE  waiting(dv) = {} /\ \A ids : callbacks(dv.pingList, ids) = {}
BY DEF NoneWaiting, waiting, callbacks

\* close() leaves nothing that could act: no uid, no timer but those of pings
\* without a callback, no connection.
Silent(dv) ==
  dv.mode = "closed" =>
    /\ dv.uid = NoUid
    /\ ~dv.recheck /\ ~dv.interval /\ ~dv.connected
    /\ NoneWaiting(dv.pingList)

\* A step that leaves a closed device silent
StaysSilent(d) ==
  /\ dev'[d] = [dev[d] EXCEPT !.pingList = dev'[d].pingList]
  /\ sent' = sent
  /\ Silent(dev'[d])

LEMMA OnlyPings ==
  ASSUME NEW d \in Client, dev[d] \in DeviceFields, dev[d].mode = "closed", Silent(dev[d]),
         NEW q, dev'[d] = [dev[d] EXCEPT !.pingList = q], NoneWaiting(q), sent' = sent
  PROVE  StaysSilent(d)
<1> DEFINE dv == [dev[d] EXCEPT !.pingList = q]
<1>1. /\ dv.uid = dev[d].uid /\ dv.recheck = dev[d].recheck /\ dv.interval = dev[d].interval
      /\ dv.connected = dev[d].connected /\ dv.mode = dev[d].mode /\ dv.pingList = q
  BY FieldsShape
<1>2. dev'[d].pingList = q
  BY <1>1
<1> HIDE DEF dv
<1>3. Silent(dv)
  BY <1>1 DEF Silent
<1> QED
  BY <1>2, <1>3 DEF StaysSilent, dv

LEMMA SilentActs ==
  ASSUME DeviceTypeOK, NEW d \in Client, Acts(d), dev[d].mode = "closed", Silent(dev[d])
  PROVE  StaysSilent(d)
<1> DEFINE p == dev[d].pingList
<1>1. /\ dev[d] \in DeviceFields
      /\ dev[d].uid = NoUid
      /\ ~dev[d].recheck /\ ~dev[d].interval /\ ~dev[d].connected
      /\ NoneWaiting(p)
      /\ ~Listening(d)
  BY DEF DeviceTypeOK, Silent, Listening
<1>2. p \in PingLists /\ dev[d] = [dev[d] EXCEPT !.pingList = p]
  BY <1>1, FieldsShape
<1>3. \A type \in {"ping", "status", "command"} : ~maySend(dev[d], type)
  BY <1>1 DEF maySend
<1>4. ASSUME NEW type \in {"status", "command"}, Send(d, type) PROVE StaysSilent(d)
  <2>1. sending(dev[d], type) = dev[d] /\ messages(d, dev[d], type) = {}
    BY <1>3 DEF sending, messages
  <2>2. dev'[d] = dev[d] /\ sent' = sent
    BY <1>4, <2>1 DEF Send, DeviceTypeOK
  <2> HIDE DEF p
  <2> QED
    BY <1>1, <1>2, <2>2, OnlyPings
<1>5. ASSUME Ping(d) PROVE StaysSilent(d)
  <2>1. dev' = dev /\ sent' = sent
    BY <1>1, <1>5 DEF Ping
  <2> HIDE DEF p
  <2> QED
    BY <1>1, <1>2, <2>1, OnlyPings
<1>6. ASSUME PingUnheard(d) PROVE StaysSilent(d)
  <2> DEFINE q == addPing(p, dev[d].mySeqNum, NoCallback)
             dv == [dev[d] EXCEPT !.pingList = q]
  <2>1. dv.uid = NoUid
    BY <1>1, FieldsShape
  <2>2. sending(dv, "ping") = dv /\ messages(d, dev[d], "ping") = {}
    <3> HIDE DEF dv
    <3> QED
      BY <1>3, <2>1 DEF sending, messages, maySend
  <2>3. dev' = [dev EXCEPT ![d] = sending(dv, "ping")]
    BY <1>6 DEF PingUnheard
  <2>4. sent' = sent \cup messages(d, dev[d], "ping")
    BY <1>6 DEF PingUnheard
  <2>5. NoneWaiting(q)
    BY <1>1 DEF NoneWaiting, addPing
  <2>6. dev'[d] = dv /\ sent' = sent
    BY <2>2, <2>3, <2>4 DEF DeviceTypeOK
  <2> HIDE DEF q
  <2> QED
    BY <1>1, <2>5, <2>6, OnlyPings
<1>7. ASSUME AllReturn(d) PROVE StaysSilent(d)
  <2>1. dev'[d] = closing(dev[d]) /\ sent' = sent
    BY <1>7 DEF AllReturn, DeviceTypeOK
  <2>2. closing(dev[d]) = [dev[d] EXCEPT !.pingList = noPings]
    <3> DEFINE dv == dev[d]
    <3>1. /\ dv.recheck = FALSE /\ dv.interval = FALSE /\ dv.connected = FALSE
          /\ dv.uid = NoUid /\ dv.mode = "closed"
      BY <1>1, FieldsShape
    <3>2. dv \in DeviceFields
      BY <1>1
    <3> HIDE DEF dv
    <3> DEFINE new == [dv EXCEPT !.pingList = noPings]
    <3>3. /\ new \in DeviceFields /\ new.pingList = noPings
          /\ new.recheck = FALSE /\ new.interval = FALSE /\ new.connected = FALSE
          /\ new.uid = NoUid /\ new.mode = "closed" /\ new.mySeqNum = dv.mySeqNum
      BY <3>1, <3>2, NoPingsList, FieldsShape
    <3> HIDE DEF new
    <3>4. new = closing(dv)
      BY <3>3, FieldsShape DEF closing
    <3> QED
      BY <3>4 DEF dv, new
  <2>3. NoneWaiting(noPings)
    BY NoPingsList DEF NoneWaiting
  <2> QED
    BY <1>1, <2>1, <2>2, <2>3, OnlyPings
<1>8. ~ClosedByCallback(d)
  BY <1>1, NoneWaitingShape DEF ClosedByCallback
<1>9. ASSUME NEW pingId, Returns(d, pingId) PROVE StaysSilent(d)
  <2> DEFINE q == removePing(p, pingId)
  <2>1. dev'[d] = [dev[d] EXCEPT !.pingList = q] /\ sent' = sent
    BY <1>9, ReturnsFields
  <2> HIDE DEF p
  <2>2. NoneWaiting(q)
    <3>1. /\ DOMAIN q = DOMAIN p \ {pingId}
          /\ \A i \in DOMAIN p \ {pingId} : q[i] = p[i]
      BY <1>2, RemovePingList
    <3>2. NoneWaiting(p)
      BY <1>1
    <3> HIDE DEF q
    <3> QED
      BY <3>1, <3>2 DEF NoneWaiting
  <2> HIDE DEF q
  <2> QED
    BY <1>1, <2>1, <2>2, OnlyPings
<1>10. ~RecheckTimer(d) /\ ~ConnectionLost(d)
  BY <1>1 DEF RecheckTimer, ConnectionLost
<1>11. ~ReceiveNotRegistered(d) /\ ~ReceiveOtherError(d) /\ \A uid : ~ReceiveRegister(d, uid)
  BY <1>1 DEF ReceiveNotRegistered, ReceiveOtherError, ReceiveRegister
<1> QED
  BY <1>4, <1>5, <1>6, <1>7, <1>8, <1>9, <1>10, <1>11 DEF Acts

\* A step of a device is its own: no other changes, and it sends as itself.
LEMMA OwnStep ==
  ASSUME DeviceTypeOK, NEW d \in Client, Acts(d)
  PROVE  /\ \A e \in Client \ {d} : dev'[e] = dev[e]
         /\ \A m \in sent' \ sent : m.from = d
<1> USE DEF DeviceTypeOK
<1>1. \A dv, type : \A m \in messages(d, dv, type) \cup registerMessages(d, dv) : m.from = d
  BY DEF registerMessages, messages, Message
<1>2. ASSUME NEW type, Send(d, type)
      PROVE  /\ \A e \in Client \ {d} : dev'[e] = dev[e]
             /\ \A m \in sent' \ sent : m.from = d
  BY <1>1, <1>2 DEF Send
<1>3. ASSUME Ping(d) \/ PingUnheard(d)
      PROVE  /\ \A e \in Client \ {d} : dev'[e] = dev[e]
             /\ \A m \in sent' \ sent : m.from = d
  <2>1. sent' \subseteq sent \cup messages(d, dev[d], "ping")
    BY <1>3 DEF Ping, PingUnheard
  <2>2. \A e \in Client \ {d} : dev'[e] = dev[e]
    BY <1>3 DEF Ping, PingUnheard
  <2> QED
    BY <1>1, <2>1, <2>2
<1>4. ASSUME AllReturn(d) \/ ClosedByCallback(d) \/ ReceiveOtherError(d) \/ ConnectionLost(d)
      PROVE  /\ \A e \in Client \ {d} : dev'[e] = dev[e]
             /\ \A m \in sent' \ sent : m.from = d
  BY <1>4 DEF AllReturn, ClosedByCallback, ReceiveOtherError, ConnectionLost
<1>5. ASSUME RecheckTimer(d) \/ ReceiveNotRegistered(d)
      PROVE  /\ \A e \in Client \ {d} : dev'[e] = dev[e]
             /\ \A m \in sent' \ sent : m.from = d
  <2>1. \E dv : sent' = sent \cup registerMessages(d, dv)
    BY <1>5 DEF RecheckTimer, ReceiveNotRegistered
  <2>2. \A e \in Client \ {d} : dev'[e] = dev[e]
    BY <1>5 DEF RecheckTimer, ReceiveNotRegistered
  <2> QED
    BY <1>1, <2>1, <2>2
<1>6. ASSUME NEW pingId, Returns(d, pingId)
      PROVE  /\ \A e \in Client \ {d} : dev'[e] = dev[e]
             /\ \A m \in sent' \ sent : m.from = d
  BY <1>6 DEF Returns
<1>7. ASSUME NEW uid, ReceiveRegister(d, uid)
      PROVE  /\ \A e \in Client \ {d} : dev'[e] = dev[e]
             /\ \A m \in sent' \ sent : m.from = d
  BY <1>7 DEF ReceiveRegister
<1> QED
  BY <1>2, <1>3, <1>4, <1>5, <1>6, <1>7 DEF Acts

\* Only close() closes a device, and its process may end.
LEMMA ModeSteps ==
  ASSUME DeviceTypeOK, NEW d \in Client, Acts(d)
  PROVE  \/ dev'[d].mode = dev[d].mode
         \/ dev'[d] = closing(dev[d])
         \/ dev'[d].mode \in {"crashed", "exhausted"}
<1>1. dev[d] \in DeviceFields
  BY DEF DeviceTypeOK
<1>2. ASSUME NEW type, Send(d, type) PROVE dev'[d].mode = dev[d].mode
  <2>1. dev'[d] = sending(dev[d], type)
    BY <1>2 DEF Send, DeviceTypeOK
  <2> QED
    BY <1>1, <2>1, SendingKeeps
<1>3. ASSUME NEW c \in 0 .. MaxPings, mayCount(dev[d]),
             dev'[d] = sending(
               [dev[d] EXCEPT !.pingList = addPing(@, dev[d].mySeqNum, c)], "ping")
      PROVE  dev'[d].mode = dev[d].mode
  <2> DEFINE listed == [dev[d] EXCEPT !.pingList = addPing(@, dev[d].mySeqNum, c)]
  <2>1. listed \in DeviceFields
    BY <1>1, <1>3, WaitingType
  <2>2. listed.mode = dev[d].mode /\ dev'[d] = sending(listed, "ping")
    BY <1>1, <1>3, FieldsShape
  <2> HIDE DEF listed
  <2> QED
    BY <2>1, <2>2, SendingKeeps
<1>4. ASSUME Ping(d) PROVE dev'[d].mode = dev[d].mode
  <2>1. CASE dev[d].uid = NoUid
    BY <1>4, <2>1 DEF Ping
  <2>2. CASE dev[d].uid # NoUid
    <3> DEFINE callback == Len(answered[d]) + 1
    <3>1. callback \in 0 .. MaxPings /\ mayCount(dev[d])
      BY <1>4, DeviceBounds DEF Ping, DeviceTypeOK
    <3>2. dev'[d] = sending(
            [dev[d] EXCEPT !.pingList = addPing(@, dev[d].mySeqNum, callback)], "ping")
      BY <1>4, <2>2 DEF Ping, DeviceTypeOK
    <3> HIDE DEF callback
    <3> QED
      BY <1>3, <3>1, <3>2
  <2> QED
    BY <2>1, <2>2
<1>5. ASSUME PingUnheard(d) PROVE dev'[d].mode = dev[d].mode
  <2>1. NoCallback \in 0 .. MaxPings /\ mayCount(dev[d])
    BY <1>5, DeviceBounds DEF PingUnheard, NoCallback
  <2>2. dev'[d] = sending(
          [dev[d] EXCEPT !.pingList = addPing(@, dev[d].mySeqNum, NoCallback)], "ping")
    BY <1>5 DEF PingUnheard, DeviceTypeOK
  <2> QED
    BY <1>3, <2>1, <2>2
<1>6. ASSUME AllReturn(d) \/ ClosedByCallback(d)
      PROVE  dev'[d].mode = "exhausted" \/ dev'[d] = closing(dev[d])
  BY <1>1, <1>6, ExhaustingType DEF AllReturn, ClosedByCallback, DeviceTypeOK
<1>7. ASSUME RecheckTimer(d) PROVE dev'[d].mode = dev[d].mode
  <2> DEFINE cleared == [dev[d] EXCEPT !.recheck = FALSE]
  <2>1. cleared \in DeviceFields /\ cleared.mode = dev[d].mode
    BY <1>1, FieldsShape
  <2>2. mayCount(cleared) /\ dev'[d] = registering(cleared)
    BY <1>7 DEF RecheckTimer, DeviceTypeOK
  <2> HIDE DEF cleared
  <2> QED
    BY <2>1, <2>2, RegisteringKeeps
<1>8. ASSUME NEW pingId, Returns(d, pingId) PROVE dev'[d].mode = dev[d].mode
  <2>1. dev'[d] = [dev[d] EXCEPT !.pingList = removePing(@, pingId)]
    BY <1>8, ReturnsFields
  <2> QED
    BY <1>1, <2>1, FieldsShape
<1>9. ASSUME NEW uid, ReceiveRegister(d, uid) PROVE dev'[d].mode = dev[d].mode
  BY <1>1, <1>9, FieldsShape DEF ReceiveRegister, DeviceTypeOK
<1>10. ASSUME NEW dv \in DeviceFields
       PROVE  raising(d, dv).mode \in {dv.mode, "crashed"}
  BY <1>10, ClosingType, FieldsShape DEF raising, closing
<1>11. ASSUME ReceiveNotRegistered(d) PROVE dev'[d].mode \in {dev[d].mode, "crashed"}
  <2> DEFINE lost == [dev[d] EXCEPT !.uid = NoUid]
  <2>1. lost \in DeviceFields /\ lost.mode = dev[d].mode
    BY <1>1, FieldsShape, DeviceBounds DEF NoUid
  <2>2. mayCount(lost) /\ dev'[d] = raising(d, registering(lost))
    BY <1>11 DEF ReceiveNotRegistered, DeviceTypeOK
  <2> HIDE DEF lost
  <2>3. registering(lost) \in DeviceFields /\ registering(lost).mode = lost.mode
    BY <2>1, <2>2, RegisteringType, RegisteringKeeps
  <2> QED
    BY <1>10, <2>1, <2>2, <2>3
<1>12. ASSUME ReceiveOtherError(d) PROVE dev'[d].mode \in {dev[d].mode, "crashed"}
  BY <1>1, <1>10, <1>12 DEF ReceiveOtherError, DeviceTypeOK
<1>13. ASSUME ConnectionLost(d) PROVE dev'[d].mode = dev[d].mode
  <2>1. dev'[d] = [dev[d] EXCEPT !.connected = FALSE]
    BY <1>13 DEF ConnectionLost, DeviceTypeOK
  <2> QED
    BY <1>1, <2>1, FieldsShape
<1> QED
  BY <1>2, <1>4, <1>5, <1>6, <1>7, <1>8, <1>9, <1>11, <1>12, <1>13
     DEF Acts

ClosedSilent == \A d \in Client : Silent(dev[d])

LEMMA StepSilent ==
  ASSUME DeviceTypeOK, ClosedSilent, [Next]_vars
  PROVE  ClosedSilent'
<1>1. CASE UNCHANGED vars
  BY <1>1 DEF vars, ClosedSilent
<1>2. ASSUME NEW d \in Client, Acts(d) PROVE ClosedSilent'
  <2>1. Silent(dev'[d])
    <3>1. CASE dev[d].mode = "closed"
      BY <1>2, <3>1, SilentActs DEF ClosedSilent, StaysSilent
    <3>2. CASE dev[d].mode # "closed"
      <4>1. Silent(closing(dev[d]))
        BY NoPingsList DEF Silent, closing, NoneWaiting
      <4>2. dev'[d].mode # "closed" \/ dev'[d] = closing(dev[d])
        BY <1>2, <3>2, ModeSteps
      <4> QED
        BY <4>1, <4>2 DEF Silent
    <3> QED
      BY <3>1, <3>2
  <2> QED
    BY <1>2, <2>1, OwnStep DEF ClosedSilent
<1> QED
  BY <1>1, <1>2, NextActs

\* A closed device sends nothing, has run all callbacks, and nothing but its
\* list of pings without a callback ever changes again.
THEOREM ClosedStaysClosed == Spec => ClosedForGood
<1>1. Init => ClosedSilent
  BY DEF Init, newDevice, ClosedSilent, Silent
<1>2. DeviceTypeOK /\ ClosedSilent /\ [Next]_vars => ClosedSilent'
  BY StepSilent
<1>3. DeviceTypeOK /\ ClosedSilent /\ [Next]_vars =>
        [\A d \in Client : dev[d].mode = "closed" =>
           /\ \A m \in sent' \ sent : m.from # d
           /\ ~dev[d].recheck /\ ~dev[d].interval /\ waiting(dev[d]) = {}
           /\ dev'[d] = [dev[d] EXCEPT !.pingList = dev'[d].pingList]]_vars
  <2> SUFFICES ASSUME DeviceTypeOK, ClosedSilent, Next,
                      NEW d \in Client, dev[d].mode = "closed"
               PROVE  /\ \A m \in sent' \ sent : m.from # d
                      /\ ~dev[d].recheck /\ ~dev[d].interval /\ waiting(dev[d]) = {}
                      /\ dev'[d] = [dev[d] EXCEPT !.pingList = dev'[d].pingList]
    OBVIOUS
  <2>1. PICK e \in Client : Acts(e)
    BY NextActs
  <2>2. Silent(dev[d]) /\ dev[d] \in DeviceFields
    BY DEF ClosedSilent, DeviceTypeOK
  <2>3. ~dev[d].recheck /\ ~dev[d].interval /\ waiting(dev[d]) = {}
    BY <2>2, NoneWaitingShape DEF Silent
  <2>4. CASE e = d
    BY <2>1, <2>2, <2>3, <2>4, SilentActs DEF StaysSilent
  <2>5. CASE e # d
    <3>1. dev'[d] = dev[d] /\ \A m \in sent' \ sent : m.from = e
      BY <2>1, <2>5, OwnStep
    <3>2. dev[d] = [dev[d] EXCEPT !.pingList = dev[d].pingList]
      BY <2>2, FieldsShape
    <3> QED
      BY <2>3, <2>5, <3>1, <3>2
  <2> QED
    BY <2>4, <2>5
<1> QED
  BY <1>1, <1>2, <1>3, DeviceTypeCorrect, PTL DEF Spec, ClosedForGood

-----------------------------------------------------------------------------
(* Callbacks.  What a step of a device does to its pings: nothing, or one   *)
(* of the following.                                                       *)

PingsUntouched(d) ==
  /\ answered'[d] = answered[d]
  /\ dev'[d].pingList = dev[d].pingList
  /\ dev'[d].mySeqNum >= dev[d].mySeqNum

Unregistered(d) ==
  /\ answered'[d] = Append(answered[d], 1)
  /\ dev'[d] = dev[d]

Asked(d) ==
  /\ answered'[d] = Append(answered[d], 0)
  /\ dev'[d].pingList = addPing(dev[d].pingList, dev[d].mySeqNum, Len(answered[d]) + 1)
  /\ dev'[d].mySeqNum = dev[d].mySeqNum + 1

Unheard(d) ==
  /\ answered'[d] = answered[d]
  /\ dev'[d].pingList = addPing(dev[d].pingList, dev[d].mySeqNum, NoCallback)
  /\ dev'[d].mySeqNum >= dev[d].mySeqNum

Ended(d, pingId) ==
  /\ answered'[d] = calling(answered[d], callbacks(dev[d].pingList, {pingId}))
  /\ dev'[d].pingList = removePing(dev[d].pingList, pingId)
  /\ dev'[d].mySeqNum = dev[d].mySeqNum

AllEnded(d) ==
  /\ answered'[d] = calling(answered[d], waiting(dev[d]))
  /\ dev'[d].pingList = noPings

Reentered(d) ==
  /\ d \in closers
  /\ dev'[d].pingList = noPings
  /\ \E run, again \in SUBSET waiting(dev[d]) :
       /\ answered'[d] = calling(calling(answered[d], run), again)
       /\ run = waiting(dev[d]) \/ ~running(dev'[d])
  /\ dev'[d].mode # "open"

Crashed(d) ==
  /\ answered'[d] = answered[d]
  /\ dev'[d].pingList = noPings
  /\ ~running(dev'[d])

LEMMA RaisingPings ==
  ASSUME DeviceTypeOK, NEW d \in Client, NEW dv \in DeviceFields,
         dev'[d] = raising(d, dv), answered' = answered,
         dv.pingList = dev[d].pingList, dv.mySeqNum >= dev[d].mySeqNum
  PROVE  PingsUntouched(d) \/ Crashed(d)
<1>1. CASE d \in errorListener
  BY <1>1 DEF raising, PingsUntouched
<1>2. CASE d \notin errorListener
  <2>1. closing(dv) \in DeviceFields /\ closing(dv).pingList = noPings
    BY ClosingType DEF closing
  <2>2. dev'[d] = [closing(dv) EXCEPT !.mode = "crashed"]
    BY <1>2 DEF raising
  <2>3. dev'[d].pingList = noPings /\ dev'[d].mode = "crashed"
    BY <2>1, <2>2, FieldsShape
  <2> QED
    BY <2>3 DEF Crashed, running
<1> QED
  BY <1>1, <1>2

\* register() touches no ping.
LEMMA RegisteringPings ==
  ASSUME NEW dv \in DeviceFields, mayCount(dv)
  PROVE  /\ registering(dv).pingList = dv.pingList
         /\ registering(dv).mySeqNum >= dv.mySeqNum
         /\ registering(dv) \in DeviceFields
BY RegisteringType, RegisteringKeeps

\* The fields after a ping
LEMMA PingingFields ==
  ASSUME NEW dv \in DeviceFields, mayCount(dv), NEW c \in 0 .. MaxPings
  PROVE  LET new == sending([dv EXCEPT !.pingList = addPing(@, dv.mySeqNum, c)], "ping")
         IN  /\ new.pingList = addPing(dv.pingList, dv.mySeqNum, c)
             /\ new.mySeqNum >= dv.mySeqNum
             /\ dv.uid # NoUid => new.mySeqNum = dv.mySeqNum + 1
<1> DEFINE listed == [dv EXCEPT !.pingList = addPing(@, dv.mySeqNum, c)]
<1>1. /\ listed \in DeviceFields
      /\ listed.mySeqNum = dv.mySeqNum
      /\ listed.pingList = addPing(dv.pingList, dv.mySeqNum, c)
  BY WaitingType
<1>2. listed.uid = dv.uid /\ mayCount(listed)
  BY <1>1, FieldsShape DEF mayCount
<1> HIDE DEF listed
<1>3. /\ sending(listed, "ping").pingList = addPing(dv.pingList, dv.mySeqNum, c)
      /\ sending(listed, "ping").mySeqNum >= dv.mySeqNum
  BY <1>1, <1>2, SendingKeeps, SendingType
<1>4. ASSUME dv.uid # NoUid PROVE sending(listed, "ping").mySeqNum = dv.mySeqNum + 1
  <2>1. sending(listed, "ping") = [listed EXCEPT !.mySeqNum = listed.mySeqNum + 1]
    BY <1>2, <1>4 DEF sending, maySend
  <2> QED
    BY <1>1, <2>1, FieldsShape
<1> QED
  BY <1>3, <1>4 DEF listed

LEMMA PingSteps ==
  ASSUME DeviceTypeOK, NEW d \in Client, Acts(d)
  PROVE  \/ PingsUntouched(d) \/ Unregistered(d) \/ Asked(d) \/ Unheard(d)
         \/ \E pingId : Ended(d, pingId)
         \/ AllEnded(d) \/ Reentered(d) \/ Crashed(d)
<1>1. /\ dev[d] \in DeviceFields /\ answered[d] \in Seq(Nat)
      /\ dev[d].mySeqNum >= dev[d].mySeqNum
  BY FieldsShape, DeviceBounds DEF DeviceTypeOK
<1>2. ASSUME NEW type, Send(d, type) PROVE PingsUntouched(d)
  <2>1. dev'[d] = sending(dev[d], type) /\ answered' = answered /\ mayCount(dev[d])
    BY <1>2 DEF Send, DeviceTypeOK
  <2> QED
    BY <1>1, <2>1, SendingType, SendingKeeps DEF PingsUntouched
<1>3. ASSUME Ping(d) PROVE Unregistered(d) \/ Asked(d)
  <2>1. CASE dev[d].uid = NoUid
    BY <1>3, <2>1 DEF Ping, Unregistered, DeviceTypeOK
  <2>2. CASE dev[d].uid # NoUid
    <3> DEFINE callback == Len(answered[d]) + 1
    <3>1. callback \in 0 .. MaxPings /\ mayCount(dev[d])
      BY <1>1, <1>3, DeviceBounds DEF Ping
    <3>2. /\ answered'[d] = Append(answered[d], 0)
          /\ dev'[d] = sending(
               [dev[d] EXCEPT !.pingList = addPing(@, dev[d].mySeqNum, callback)], "ping")
      BY <1>3, <2>2 DEF Ping, DeviceTypeOK
    <3> HIDE DEF callback
    <3>3. /\ dev'[d].pingList = addPing(dev[d].pingList, dev[d].mySeqNum, callback)
          /\ dev'[d].mySeqNum = dev[d].mySeqNum + 1
      BY <1>1, <2>2, <3>1, <3>2, PingingFields
    <3> QED
      BY <3>2, <3>3 DEF Asked, callback
  <2> QED
    BY <2>1, <2>2
<1>4. ASSUME PingUnheard(d) PROVE Unheard(d)
  <2> DEFINE none == NoCallback
             new == sending([dev[d] EXCEPT !.pingList = addPing(@, dev[d].mySeqNum, none)],
                            "ping")
  <2>1. none \in 0 .. MaxPings /\ mayCount(dev[d])
    BY <1>4, DeviceBounds DEF PingUnheard, NoCallback
  <2>2. answered' = answered /\ dev'[d] = new
    BY <1>4 DEF PingUnheard, DeviceTypeOK
  <2> HIDE DEF none
  <2>3. /\ new.pingList = addPing(dev[d].pingList, dev[d].mySeqNum, none)
        /\ new.mySeqNum >= dev[d].mySeqNum
    BY <1>1, <2>1, PingingFields
  <2> HIDE DEF new
  <2> QED
    BY <2>2, <2>3 DEF Unheard, none
<1>5. ASSUME AllReturn(d) PROVE AllEnded(d)
  BY <1>5 DEF AllReturn, closing, AllEnded, DeviceTypeOK
<1>6. ASSUME ClosedByCallback(d) PROVE Reentered(d)
  <2>1. /\ closing(dev[d]).pingList = noPings /\ closing(dev[d]).mode = "closed"
        /\ exhausting(dev[d]).pingList = noPings
        /\ exhausting(dev[d]).mode = "exhausted"
    BY DEF closing, exhausting
  <2>2. PICK run, again \in SUBSET waiting(dev[d]) :
          /\ answered' = [answered EXCEPT ![d] = calling(calling(@, run), again)]
          /\ \/ run = waiting(dev[d]) /\ dev'[d] = closing(dev[d])
             \/ dev'[d] = exhausting(dev[d])
    BY <1>6 DEF ClosedByCallback
  <2>3. answered'[d] = calling(calling(answered[d], run), again)
    BY <2>2 DEF DeviceTypeOK
  <2>4. /\ dev'[d].pingList = noPings /\ dev'[d].mode \in {"closed", "exhausted"}
        /\ run = waiting(dev[d]) \/ ~running(dev'[d])
    BY <2>1, <2>2 DEF running
  <2>5. d \in closers
    BY <1>6 DEF ClosedByCallback
  <2>6. dev'[d].mode # "open"
    BY <2>4
  <2> QED
    BY <2>3, <2>4, <2>5, <2>6 DEF Reentered
<1>7. ASSUME RecheckTimer(d) PROVE PingsUntouched(d)
  <2> DEFINE cleared == [dev[d] EXCEPT !.recheck = FALSE]
  <2>1. /\ cleared \in DeviceFields /\ cleared.mySeqNum = dev[d].mySeqNum
        /\ cleared.pingList = dev[d].pingList
    BY <1>1, FieldsShape
  <2>2. mayCount(cleared) /\ dev'[d] = registering(cleared) /\ answered' = answered
    BY <1>7 DEF RecheckTimer, DeviceTypeOK
  <2> HIDE DEF cleared
  <2> QED
    BY <2>1, <2>2, RegisteringPings DEF PingsUntouched
<1>8. ASSUME NEW pingId, Returns(d, pingId) PROVE Ended(d, pingId)
  <2>1. /\ dev'[d] = [dev[d] EXCEPT !.pingList = removePing(@, pingId)]
        /\ dev'[d].pingList = removePing(dev[d].pingList, pingId)
    BY <1>8, ReturnsFields
  <2>2. dev'[d].mySeqNum = dev[d].mySeqNum
    BY <1>1, <2>1, FieldsShape
  <2>3. answered'[d] = calling(answered[d], callbacks(dev[d].pingList, {pingId}))
    BY <1>8 DEF Returns, DeviceTypeOK
  <2> QED
    BY <2>1, <2>2, <2>3 DEF Ended
<1>9. ASSUME NEW uid, ReceiveRegister(d, uid) PROVE PingsUntouched(d)
  BY <1>1, <1>9, FieldsShape DEF ReceiveRegister, DeviceTypeOK, PingsUntouched
<1>10. ASSUME ReceiveNotRegistered(d) PROVE PingsUntouched(d) \/ Crashed(d)
  <2> DEFINE lost == [dev[d] EXCEPT !.uid = NoUid]
  <2>1. lost \in DeviceFields /\ lost.mySeqNum = dev[d].mySeqNum
    <3>1. dev[d] \in DeviceFields
      BY <1>1
    <3> QED
      BY <3>1, FieldsShape, DeviceBounds DEF NoUid
  <2>2. lost.pingList = dev[d].pingList
    BY <1>1, FieldsShape
  <2>3. mayCount(lost) /\ dev'[d] = raising(d, registering(lost)) /\ answered' = answered
    BY <1>10 DEF ReceiveNotRegistered, DeviceTypeOK
  <2> HIDE DEF lost
  <2>4. /\ registering(lost) \in DeviceFields
        /\ registering(lost).pingList = dev[d].pingList
        /\ registering(lost).mySeqNum >= dev[d].mySeqNum
    BY <2>1, <2>2, <2>3, RegisteringPings
  <2> QED
    BY <2>3, <2>4, RaisingPings
<1>11. ASSUME ReceiveOtherError(d) PROVE PingsUntouched(d) \/ Crashed(d)
  <2>1. dev'[d] = raising(d, dev[d]) /\ answered' = answered
    BY <1>11 DEF ReceiveOtherError, DeviceTypeOK
  <2> QED
    BY <1>1, <2>1, RaisingPings
<1>12. ASSUME ConnectionLost(d) PROVE PingsUntouched(d)
  <2>1. dev'[d] = [dev[d] EXCEPT !.connected = FALSE] /\ answered' = answered
    BY <1>12 DEF ConnectionLost, DeviceTypeOK
  <2> QED
    BY <1>1, <2>1, FieldsShape DEF PingsUntouched
<1> QED
  BY <1>2, <1>3, <1>4, <1>5, <1>6, <1>7, <1>8, <1>9, <1>10, <1>11, <1>12 DEF Acts

LEMMA OwnAnswers ==
  ASSUME DeviceTypeOK, NEW d \in Client, Acts(d), NEW e \in Client \ {d}
  PROVE  answered'[e] = answered[e]
<1> USE DEF DeviceTypeOK
<1>1. ASSUME Ping(d) \/ PingUnheard(d) \/ (\E type : Send(d, type))
      PROVE  answered'[e] = answered[e]
  BY <1>1 DEF Ping, PingUnheard, Send
<1>2. ASSUME AllReturn(d) \/ ClosedByCallback(d) \/ (\E pingId : Returns(d, pingId))
      PROVE  answered'[e] = answered[e]
  BY <1>2 DEF AllReturn, ClosedByCallback, Returns
<1>3. ASSUME \/ RecheckTimer(d) \/ ReceiveNotRegistered(d) \/ ReceiveOtherError(d)
             \/ ConnectionLost(d) \/ \E uid : ReceiveRegister(d, uid)
      PROVE  answered'[e] = answered[e]
  BY <1>3 DEF RecheckTimer, ReceiveNotRegistered, ReceiveOtherError, ConnectionLost,
              ReceiveRegister
<1> QED
  BY <1>1, <1>2, <1>3 DEF Acts

-----------------------------------------------------------------------------
(* A callback waits for one ping at most, and only while it has not run.   *)

Fair(counts, p) ==
  /\ \A i \in DOMAIN p : p[i] # NoCallback => p[i] \in 1 .. Len(counts) /\ counts[p[i]] = 0
  /\ \A i, j \in DOMAIN p : p[i] = p[j] /\ p[i] # NoCallback => i = j

AllFair == \A d \in Client : Fair(answered[d], dev[d].pingList)

LEMMA CallingCounts ==
  ASSUME NEW counts \in Seq(Nat), NEW called
  PROVE  /\ calling(counts, called) \in Seq(Nat)
         /\ Len(calling(counts, called)) = Len(counts) /\ Len(counts) \in Nat
         /\ \A n \in 1 .. Len(counts) :
              /\ counts[n] \in Nat
              /\ calling(counts, called)[n] =
                   IF n \in called THEN counts[n] + 1 ELSE counts[n]
BY CallingType DEF calling

\* Only callbacks that have not run are called.
LEMMA FairCallbacks ==
  ASSUME NEW counts, NEW p, Fair(counts, p), NEW ids
  PROVE  \A n \in callbacks(p, ids) : n \in 1 .. Len(counts) /\ counts[n] = 0
BY DEF Fair, callbacks

LEMMA AppendFair ==
  ASSUME NEW counts \in Seq(Nat), NEW p, Fair(counts, p), NEW n \in {0, 1}
  PROVE  Fair(Append(counts, n), p)
<1> DEFINE new == Append(counts, n)
<1>1. /\ Len(new) = Len(counts) + 1 /\ Len(counts) \in Nat
      /\ \A k \in 1 .. Len(counts) : new[k] = counts[k]
  OBVIOUS
<1> HIDE DEF new
<1>2. \A i \in DOMAIN p : p[i] # NoCallback => p[i] \in 1 .. Len(new) /\ new[p[i]] = 0
  BY <1>1 DEF Fair
<1> QED
  BY <1>2 DEF Fair, new

\* A new callback waits for a new ping.
LEMMA AskedFair ==
  ASSUME NEW counts \in Seq(Nat), NEW p, Fair(counts, p), NEW id
  PROVE  Fair(Append(counts, 0), addPing(p, id, Len(counts) + 1))
<1> DEFINE new == Append(counts, 0)
           callback == Len(counts) + 1
           q == addPing(p, id, callback)
<1>1. Fair(new, p)
  BY AppendFair
<1>2. /\ Len(new) = callback /\ Len(counts) \in Nat /\ new[callback] = 0
      /\ callback \in 1 .. Len(new)
  OBVIOUS
<1>3. \A i \in DOMAIN p : p[i] # callback
  BY <1>2 DEF Fair, NoCallback
<1>4. CASE id \in DOMAIN p
  BY <1>1, <1>4 DEF addPing
<1>5. CASE id \notin DOMAIN p
  <2> HIDE DEF callback
  <2>1. /\ DOMAIN q = DOMAIN p \cup {id}
        /\ \A i \in DOMAIN p : q[i] = p[i]
        /\ q[id] = callback
    BY <1>5 DEF addPing
  <2> HIDE DEF new, q
  <2>2. \A i \in DOMAIN q : q[i] # NoCallback => q[i] \in 1 .. Len(new) /\ new[q[i]] = 0
    BY <1>1, <1>2, <2>1 DEF Fair
  <2>3. \A i, j \in DOMAIN q : q[i] = q[j] /\ q[i] # NoCallback => i = j
    BY <1>1, <1>3, <2>1 DEF Fair
  <2> QED
    BY <2>2, <2>3 DEF Fair, new, q, callback
<1> QED
  BY <1>4, <1>5

LEMMA UnheardFair ==
  ASSUME NEW counts, NEW p, Fair(counts, p), NEW id
  PROVE  Fair(counts, addPing(p, id, NoCallback))
<1>1. CASE id \in DOMAIN p
  BY <1>1 DEF addPing
<1>2. CASE id \notin DOMAIN p
  <2> DEFINE none == NoCallback
             q == addPing(p, id, none)
  <2> HIDE DEF none
  <2>1. /\ DOMAIN q = DOMAIN p \cup {id}
        /\ \A i \in DOMAIN p : q[i] = p[i]
        /\ q[id] = none
    BY <1>2 DEF addPing
  <2> HIDE DEF q
  <2>2. Fair(counts, q)
    BY <2>1 DEF Fair, none
  <2> QED
    BY <2>2 DEF q, none
<1> QED
  BY <1>1, <1>2

\* The ping that ends leaves the list, and its callback runs.
LEMMA EndedFair ==
  ASSUME NEW counts \in Seq(Nat), NEW p \in PingLists, Fair(counts, p), NEW id
  PROVE  Fair(calling(counts, callbacks(p, {id})), removePing(p, id))
<1> DEFINE called == callbacks(p, {id})
           new == calling(counts, called)
           q == removePing(p, id)
<1>1. /\ Len(new) = Len(counts) /\ Len(counts) \in Nat
      /\ \A n \in 1 .. Len(counts) :
           new[n] = IF n \in called THEN counts[n] + 1 ELSE counts[n]
  BY CallingCounts
<1>2. \A n \in called : id \in DOMAIN p /\ n = p[id] /\ n # NoCallback
  BY DEF callbacks
<1>3. DOMAIN q = DOMAIN p \ {id} /\ \A i \in DOMAIN q : q[i] = p[i]
  BY RemovePingList
<1> HIDE DEF called, new, q
<1>4. ASSUME NEW i \in DOMAIN q, q[i] # NoCallback PROVE q[i] \notin called
  BY <1>2, <1>3, <1>4 DEF Fair
<1>5. \A i \in DOMAIN q : q[i] # NoCallback => q[i] \in 1 .. Len(new) /\ new[q[i]] = 0
  BY <1>1, <1>3, <1>4 DEF Fair
<1>6. \A i, j \in DOMAIN q : q[i] = q[j] /\ q[i] # NoCallback => i = j
  BY <1>3 DEF Fair
<1> QED
  BY <1>5, <1>6 DEF Fair, new, q, called

LEMMA OwnFair ==
  ASSUME DeviceTypeOK, AllFair, NEW d \in Client, Acts(d)
  PROVE  Fair(answered'[d], dev'[d].pingList)
<1> DEFINE counts == answered[d]
           p == dev[d].pingList
<1>1. Fair(counts, p) /\ counts \in Seq(Nat) /\ p \in PingLists
  BY FieldsShape DEF AllFair, DeviceTypeOK
<1>2. \A new : Fair(new, noPings)
  BY NoPingsList DEF Fair
<1>3. CASE PingsUntouched(d)
  BY <1>1, <1>3 DEF PingsUntouched
<1>4. CASE Unregistered(d)
  BY <1>1, <1>4, AppendFair DEF Unregistered
<1>5. CASE Asked(d)
  BY <1>1, <1>5, AskedFair DEF Asked
<1>6. CASE Unheard(d)
  BY <1>1, <1>6, UnheardFair DEF Unheard
<1>7. ASSUME NEW pingId, Ended(d, pingId) PROVE Fair(answered'[d], dev'[d].pingList)
  BY <1>1, <1>7, EndedFair DEF Ended
<1>8. CASE AllEnded(d) \/ Reentered(d) \/ Crashed(d)
  BY <1>2, <1>8 DEF AllEnded, Reentered, Crashed
<1> QED
  BY <1>3, <1>4, <1>5, <1>6, <1>7, <1>8, PingSteps

LEMMA InitFair == Init => AllFair
BY NoPingsList DEF Init, newDevice, AllFair, Fair

LEMMA StepFair == DeviceTypeOK /\ AllFair /\ [Next]_vars => AllFair'
<1> SUFFICES ASSUME DeviceTypeOK, AllFair, [Next]_vars PROVE AllFair'
  OBVIOUS
<1>1. CASE UNCHANGED vars
  BY <1>1 DEF vars, AllFair, Fair
<1>2. ASSUME NEW d \in Client, Acts(d), NEW e \in Client
      PROVE  Fair(answered'[e], dev'[e].pingList)
  <2>1. CASE e = d
    BY <1>2, <2>1, OwnFair
  <2>2. CASE e # d
    BY <1>2, <2>2, OwnAnswers, OwnStep DEF AllFair
  <2> QED
    BY <2>1, <2>2
<1> QED
  BY <1>1, <1>2, NextActs DEF AllFair

\* Nothing is called again.
LEMMA StaysCalled ==
  ASSUME DeviceTypeOK, AllFair, NEW d \in Client, Acts(d),
         NEW n \in 1 .. Len(answered[d]), answered[d][n] > 0
  PROVE  answered'[d][n] = answered[d][n]
<1> DEFINE counts == answered[d]
           p == dev[d].pingList
<1>1. Fair(counts, p) /\ counts \in Seq(Nat)
  BY DEF AllFair, DeviceTypeOK
<1>2. \A ids : n \notin callbacks(p, ids)
  BY <1>1, FairCallbacks
<1>3. n \notin waiting(dev[d])
  BY <1>2 DEF waiting
<1>4. CASE PingsUntouched(d) \/ Unheard(d) \/ Crashed(d)
  BY <1>4 DEF PingsUntouched, Unheard, Crashed
<1>5. CASE Unregistered(d) \/ Asked(d)
  <2>1. PICK m \in {0, 1} : answered'[d] = Append(counts, m)
    BY <1>5 DEF Unregistered, Asked
  <2>2. n \in 1 .. Len(counts)
    OBVIOUS
  <2> HIDE DEF counts
  <2>3. Append(counts, m)[n] = counts[n]
    BY <1>1, <2>2
  <2> QED
    BY <2>1, <2>3 DEF counts
<1>6. ASSUME NEW pingId, Ended(d, pingId) PROVE answered'[d][n] = answered[d][n]
  BY <1>1, <1>2, <1>6, CallingCounts DEF Ended
<1>7. CASE AllEnded(d)
  BY <1>1, <1>3, <1>7, CallingCounts DEF AllEnded
<1>8. CASE Reentered(d)
  <2>1. PICK run, again \in SUBSET waiting(dev[d]) :
          answered'[d] = calling(calling(counts, run), again)
    BY <1>8 DEF Reentered
  <2>2. n \notin run /\ n \notin again
    BY <1>3
  <2> HIDE DEF counts
  <2>3. /\ calling(counts, run)[n] = counts[n]
        /\ calling(counts, run) \in Seq(Nat) /\ n \in 1 .. Len(calling(counts, run))
    BY <1>1, <2>2, CallingCounts DEF counts
  <2>4. calling(calling(counts, run), again)[n] = counts[n]
    BY <2>2, <2>3, CallingCounts
  <2> QED
    BY <2>1, <2>4 DEF counts
<1> QED
  BY <1>4, <1>5, <1>6, <1>7, <1>8, PingSteps

\* No later answer, timer or close() runs a callback again that has been run,
\* callbacks that call close() or none.
THEOREM CallbacksRunForGood == Spec => CalledForGood
<1>1. DeviceTypeOK /\ AllFair /\ [Next]_vars =>
        [\A d \in Client : \A n \in 1 .. Len(answered[d]) :
           answered[d][n] > 0 => answered'[d][n] = answered[d][n]]_vars
  <2> SUFFICES ASSUME DeviceTypeOK, AllFair, Next,
                      NEW d \in Client, NEW n \in 1 .. Len(answered[d]), answered[d][n] > 0
               PROVE  answered'[d][n] = answered[d][n]
    OBVIOUS
  <2>1. PICK e \in Client : Acts(e)
    BY NextActs
  <2>2. CASE e = d
    BY <2>1, <2>2, StaysCalled
  <2>3. CASE e # d
    BY <2>1, <2>3, OwnAnswers
  <2> QED
    BY <2>2, <2>3
<1> QED
  BY <1>1, InitFair, StepFair, DeviceTypeCorrect, PTL DEF Spec, CalledForGood

\* No callback runs twice, not by a repeated answer, nor by an answer after the
\* timer, nor by close(), but for a close() that a callback has called.
THEOREM CallbacksRunOnce == Spec => []CalledOnce
<1>1. Init => CalledOnce
  BY DEF Init, CalledOnce
<1>2. DeviceTypeOK /\ AllFair /\ CalledOnce /\ [Next]_vars => CalledOnce'
  <2> SUFFICES ASSUME DeviceTypeOK, AllFair, CalledOnce, [Next]_vars PROVE CalledOnce'
    OBVIOUS
  <2>1. CASE UNCHANGED vars
    BY <2>1 DEF vars, CalledOnce
  <2>2. ASSUME NEW d \in Client, Acts(d), NEW n \in 1 .. Len(answered'[d]), answered'[d][n] > 1
        PROVE  d \in closers /\ dev'[d].mode # "open"
    <3> DEFINE counts == answered[d]
               p == dev[d].pingList
    <3>1. Fair(counts, p) /\ counts \in Seq(Nat)
      BY DEF AllFair, DeviceTypeOK
    <3>2. \A k \in 1 .. Len(counts) : counts[k] > 1 => d \in closers /\ dev'[d].mode # "open"
      <4>1. closing(dev[d]).mode # "open"
        BY DEF closing
      <4>2. dev'[d].mode = "open" => dev[d].mode = "open"
        BY <2>2, <4>1, ModeSteps
      <4> QED
        BY <4>2 DEF CalledOnce
    <3>3. ASSUME NEW ids, answered'[d] = calling(counts, callbacks(p, ids))
          PROVE  n \in 1 .. Len(counts) /\ counts[n] > 1
      <4>1. n \in 1 .. Len(counts)
        BY <3>1, <3>3, CallingCounts
      <4>2. answered'[d][n] = IF n \in callbacks(p, ids) THEN counts[n] + 1 ELSE counts[n]
        BY <3>1, <3>3, <4>1, CallingCounts
      <4>3. n \in callbacks(p, ids) => counts[n] = 0
        BY <3>1, FairCallbacks
      <4> QED
        BY <2>2, <4>1, <4>2, <4>3
    <3>4. CASE PingsUntouched(d) \/ Unheard(d) \/ Crashed(d)
      BY <2>2, <3>2, <3>4 DEF PingsUntouched, Unheard, Crashed
    <3>5. CASE Unregistered(d) \/ Asked(d)
      <4>1. PICK m \in {0, 1} : answered'[d] = Append(counts, m)
        BY <3>5 DEF Unregistered, Asked
      <4> HIDE DEF counts
      <4>2. n \in 1 .. Len(counts) /\ counts[n] > 1
        BY <2>2, <3>1, <4>1
      <4> QED
        BY <3>2, <4>2
    <3>6. CASE AllEnded(d) \/ \E pingId : Ended(d, pingId)
      BY <3>2, <3>3, <3>6 DEF AllEnded, Ended, waiting
    <3>7. CASE Reentered(d)
      BY <3>7 DEF Reentered
    <3> QED
      BY <2>2, <3>4, <3>5, <3>6, <3>7, PingSteps
  <2>3. ASSUME NEW d \in Client, Acts(d), NEW e \in Client \ {d},
               NEW n \in 1 .. Len(answered'[e]), answered'[e][n] > 1
        PROVE  e \in closers /\ dev'[e].mode # "open"
    BY <2>3, OwnAnswers, OwnStep DEF CalledOnce
  <2> QED
    BY <2>1, <2>2, <2>3, NextActs DEF CalledOnce
<1> QED
  BY <1>1, <1>2, InitFair, StepFair, DeviceTypeCorrect, PTL DEF Spec

-----------------------------------------------------------------------------
(* No callback is forgotten: the number the next ping takes is free, or     *)
(* taken by a ping without a callback.                                     *)

Fresh(dv) ==
  \A i \in DOMAIN dv.pingList :
    i <= dv.mySeqNum /\ (dv.pingList[i] # NoCallback => i < dv.mySeqNum)

AllFresh == \A d \in Client : Fresh(dev[d])

LEMMA OwnFresh ==
  ASSUME DeviceTypeOK, DeviceTypeOK', NEW d \in Client, Acts(d), Fresh(dev[d])
  PROVE  Fresh(dev'[d])
<1> DEFINE p == dev[d].pingList
           q == dev'[d].pingList
           old == dev[d].mySeqNum
           new == dev'[d].mySeqNum
<1>1. p \in PingLists /\ old \in Nat /\ new \in Nat /\ DOMAIN p \subseteq Nat
  BY FieldsShape, PingListShape, DeviceBounds DEF DeviceTypeOK
<1>2. \A i \in DOMAIN p : i <= old /\ (p[i] # NoCallback => i < old)
  BY DEF Fresh
<1> HIDE DEF p, q, old, new
<1>3. CASE DOMAIN q \subseteq DOMAIN p /\ (\A i \in DOMAIN q : q[i] = p[i]) /\ new >= old
  BY <1>1, <1>2, <1>3 DEF Fresh, q, new
<1>4. ASSUME NEW c, q = addPing(p, old, c), \/ new = old + 1
                                            \/ new >= old /\ c = NoCallback
      PROVE  Fresh(dev'[d])
  <2>1. /\ DOMAIN q = DOMAIN p \cup {old}
        /\ \A i \in DOMAIN p : q[i] = p[i]
        /\ old \notin DOMAIN p => q[old] = c
    BY <1>4 DEF addPing
  <2>2. \A i \in DOMAIN q : i \in Nat /\ i <= old /\ i <= new
    BY <1>1, <1>2, <1>4, <2>1
  <2>3. CASE new = old + 1
    BY <1>1, <2>2, <2>3 DEF Fresh, q, new
  <2>4. CASE new >= old /\ c = NoCallback
    <3>1. \A i \in DOMAIN q : q[i] # NoCallback => i < new
      BY <1>1, <1>2, <2>1, <2>4
    <3> QED
      BY <2>2, <3>1 DEF Fresh, q, new
  <2> QED
    BY <1>4, <2>3, <2>4
<1>5. CASE q = noPings
  BY <1>5, NoPingsList DEF Fresh, q
<1>6. CASE PingsUntouched(d) \/ Unregistered(d)
  BY <1>1, <1>3, <1>6 DEF PingsUntouched, Unregistered, p, q, old, new
<1>7. CASE Asked(d)
  BY <1>4, <1>7 DEF Asked, p, q, old, new
<1>8. CASE Unheard(d)
  BY <1>4, <1>8 DEF Unheard, p, q, old, new
<1>9. ASSUME NEW pingId, Ended(d, pingId) PROVE Fresh(dev'[d])
  <2>1. q = removePing(p, pingId) /\ new = old
    BY <1>9 DEF Ended, p, q, old, new
  <2>2. DOMAIN q \subseteq DOMAIN p /\ \A i \in DOMAIN q : q[i] = p[i]
    BY <1>1, <2>1, RemovePingList
  <2> QED
    BY <1>1, <1>3, <2>1, <2>2
<1>10. CASE AllEnded(d) \/ Reentered(d) \/ Crashed(d)
  BY <1>5, <1>10 DEF AllEnded, Reentered, Crashed, q
<1> QED
  BY <1>6, <1>7, <1>8, <1>9, <1>10, PingSteps

LEMMA StepFresh == DeviceTypeOK /\ AllFresh /\ [Next]_vars => AllFresh'
<1> SUFFICES ASSUME DeviceTypeOK, AllFresh, [Next]_vars PROVE AllFresh'
  OBVIOUS
<1>1. CASE UNCHANGED vars
  BY <1>1 DEF vars, AllFresh, Fresh
<1>2. ASSUME NEW d \in Client, Acts(d), NEW e \in Client PROVE Fresh(dev'[e])
  BY <1>2, StepType, OwnFresh, OwnStep DEF AllFresh
<1> QED
  BY <1>1, <1>2, NextActs DEF AllFresh

\* Callback n waits or has been run.
Kept(d, n) == n \in waiting(dev'[d]) \/ answered'[d][n] > 0

\* The callbacks that were waiting are kept.
LEMMA KeptWaiting ==
  ASSUME DeviceTypeOK, AllFair, NEW d \in Client, Acts(d), running(dev'[d]),
         NEW n \in waiting(dev[d])
  PROVE  Kept(d, n)
<1> DEFINE counts == answered[d]
           p == dev[d].pingList
           q == dev'[d].pingList
<1>1. Fair(counts, p) /\ counts \in Seq(Nat) /\ p \in PingLists
  BY FieldsShape DEF AllFair, DeviceTypeOK
<1>2. PICK i \in DOMAIN p : p[i] = n /\ n # NoCallback
  BY DEF waiting, callbacks
<1>3. n \in 1 .. Len(counts) /\ counts[n] = 0
  BY <1>1, <1>2 DEF Fair
<1>4. ASSUME i \in DOMAIN q, q[i] = p[i] PROVE Kept(d, n)
  BY <1>2, <1>4 DEF Kept, waiting, callbacks
<1>5. CASE PingsUntouched(d) \/ Unregistered(d)
  BY <1>4, <1>5 DEF PingsUntouched, Unregistered
<1>6. CASE Asked(d) \/ Unheard(d)
  <2>1. PICK id, c : q = addPing(p, id, c)
    BY <1>6 DEF Asked, Unheard
  <2>2. i \in DOMAIN q /\ q[i] = p[i]
    BY <2>1 DEF addPing
  <2> QED
    BY <1>4, <2>2
<1>7. ASSUME NEW pingId, Ended(d, pingId) PROVE Kept(d, n)
  <2>1. CASE i = pingId
    <3>1. n \in callbacks(p, {pingId})
      BY <1>2, <2>1 DEF callbacks
    <3>2. answered'[d] = calling(counts, callbacks(p, {pingId}))
      BY <1>7 DEF Ended
    <3>3. answered'[d][n] = counts[n] + 1
      BY <1>1, <1>3, <3>1, <3>2, CallingCounts
    <3> QED
      BY <1>3, <3>3 DEF Kept
  <2>2. CASE i # pingId
    <3>1. q = removePing(p, pingId)
      BY <1>7 DEF Ended
    <3> HIDE DEF p, q
    <3>2. i \in DOMAIN q /\ q[i] = p[i]
      BY <1>1, <1>2, <2>2, <3>1, RemovePingList
    <3> QED
      BY <1>4, <3>2 DEF p, q
  <2> QED
    BY <2>1, <2>2
<1>8. CASE AllEnded(d)
  <2>1. answered'[d][n] = counts[n] + 1
    BY <1>1, <1>3, <1>8, CallingCounts DEF AllEnded
  <2> QED
    BY <1>3, <2>1 DEF Kept
<1>9. CASE Reentered(d)
  <2>1. PICK again : answered'[d] = calling(calling(counts, waiting(dev[d])), again)
    BY <1>9 DEF Reentered
  <2> DEFINE called == waiting(dev[d])
             once == calling(counts, called)
  <2>2. once \in Seq(Nat) /\ n \in 1 .. Len(once) /\ once[n] = 1
    <3>1. n \in called
      OBVIOUS
    <3>2. counts \in Seq(Nat) /\ n \in 1 .. Len(counts) /\ counts[n] = 0
      BY <1>1, <1>3
    <3> HIDE DEF counts, called
    <3>3. /\ once \in Seq(Nat) /\ Len(once) = Len(counts)
          /\ once[n] = IF n \in called THEN counts[n] + 1 ELSE counts[n]
      BY <3>2, CallingCounts
    <3> HIDE DEF once
    <3> QED
      BY <3>1, <3>2, <3>3
  <2> HIDE DEF once
  <2>3. calling(once, again)[n] = IF n \in again THEN once[n] + 1 ELSE once[n]
    BY <2>2, CallingCounts
  <2> QED
    BY <2>1, <2>2, <2>3 DEF Kept, once
<1>10. ~Crashed(d)
  BY DEF Crashed
<1> QED
  BY <1>5, <1>6, <1>7, <1>8, <1>9, <1>10, PingSteps

\* A new callback is kept where the number of its ping is not taken.
LEMMA KeptNew ==
  ASSUME DeviceTypeOK, NEW d \in Client, Acts(d), Fresh(dev[d]),
         NEW n \in Len(answered[d]) + 1 .. Len(answered'[d])
  PROVE  \/ Kept(d, n)
         \/ /\ dev[d].mySeqNum \in DOMAIN dev[d].pingList
            /\ dev[d].pingList[dev[d].mySeqNum] = NoCallback
<1> DEFINE counts == answered[d]
           p == dev[d].pingList
           seq == dev[d].mySeqNum
<1>1. counts \in Seq(Nat) /\ seq \in Nat
  BY FieldsShape, DeviceBounds DEF DeviceTypeOK
<1>2. ASSUME Len(answered'[d]) = Len(counts) PROVE FALSE
  BY <1>1, <1>2
<1>3. ASSUME NEW m, answered'[d] = Append(counts, m)
      PROVE  n = Len(counts) + 1 /\ answered'[d][n] = m
  <2> HIDE DEF counts
  <2>1. n \in Len(counts) + 1 .. Len(answered'[d])
    BY DEF counts
  <2>2. Len(Append(counts, m)) = Len(counts) + 1 /\ Len(counts) \in Nat
    BY <1>1
  <2>3. n = Len(counts) + 1
    BY <1>3, <2>1, <2>2
  <2> QED
    BY <1>1, <1>3, <2>3
<1>4. CASE Unregistered(d)
  BY <1>3, <1>4 DEF Unregistered, Kept
<1>5. CASE Asked(d)
  <2>1. n = Len(counts) + 1 /\ n # NoCallback
    <3>1. n = Len(counts) + 1
      BY <1>3, <1>5 DEF Asked
    <3> QED
      BY <1>1, <3>1 DEF NoCallback
  <2>2. CASE seq \in DOMAIN p
    BY <1>1, <2>2 DEF Fresh
  <2>3. CASE seq \notin DOMAIN p
    <3>1. dev'[d].pingList = addPing(p, seq, n)
      BY <1>5, <2>1 DEF Asked
    <3>2. seq \in DOMAIN dev'[d].pingList /\ dev'[d].pingList[seq] = n
      BY <2>3, <3>1 DEF addPing
    <3> QED
      BY <2>1, <3>2 DEF Kept, waiting, callbacks
  <2> QED
    BY <2>2, <2>3
<1>6. ~PingsUntouched(d) /\ ~Unheard(d) /\ ~Crashed(d)
  BY <1>2 DEF PingsUntouched, Unheard, Crashed
<1>7. ~AllEnded(d) /\ \A pingId : ~Ended(d, pingId)
  BY <1>1, <1>2, CallingCounts DEF AllEnded, Ended
<1>8. ~Reentered(d)
  BY <1>1, <1>2, CallingCounts DEF Reentered
<1> QED
  BY <1>4, <1>5, <1>6, <1>7, <1>8, PingSteps

\* Whatever happens to a device that runs on, no callback of ping() is lost but
\* to a ping without a callback.
THEOREM CallbacksNotForgotten == Spec => PingsKept
<1>1. Init => AllFresh
  BY NoPingsList DEF Init, newDevice, AllFresh, Fresh
<1>2. DeviceTypeOK /\ AllFair /\ AllFresh /\ [Next]_vars =>
        [\A d \in Client : running(dev'[d]) =>
           /\ \A n \in waiting(dev[d]) : n \in waiting(dev'[d]) \/ answered'[d][n] > 0
           /\ \A n \in Len(answered[d]) + 1 .. Len(answered'[d]) :
                \/ n \in waiting(dev'[d]) \/ answered'[d][n] > 0
                \/ /\ dev[d].mySeqNum \in DOMAIN dev[d].pingList
                   /\ dev[d].pingList[dev[d].mySeqNum] = NoCallback]_vars
  <2> SUFFICES ASSUME DeviceTypeOK, AllFair, AllFresh, Next,
                      NEW d \in Client, running(dev'[d])
               PROVE  /\ \A n \in waiting(dev[d]) : Kept(d, n)
                      /\ \A n \in Len(answered[d]) + 1 .. Len(answered'[d]) :
                           \/ Kept(d, n)
                           \/ /\ dev[d].mySeqNum \in DOMAIN dev[d].pingList
                              /\ dev[d].pingList[dev[d].mySeqNum] = NoCallback
    BY DEF Kept
  <2>1. PICK e \in Client : Acts(e)
    BY NextActs
  <2>2. CASE e = d
    BY <2>1, <2>2, KeptWaiting, KeptNew DEF AllFresh
  <2>3. CASE e # d
    <3>1. dev'[d] = dev[d] /\ answered'[d] = answered[d] /\ Len(answered[d]) \in Nat
      BY <2>1, <2>3, OwnAnswers, OwnStep DEF DeviceTypeOK
    <3>2. \A n \in Len(answered[d]) + 1 .. Len(answered'[d]) : FALSE
      BY <3>1
    <3>3. \A n \in waiting(dev[d]) : Kept(d, n)
      BY <3>1 DEF Kept
    <3> QED
      BY <3>2, <3>3
  <2> QED
    BY <2>2, <2>3
<1> QED
  BY <1>1, <1>2, InitFair, StepFair, StepFresh, DeviceTypeCorrect, PTL DEF Spec, PingsKept

=============================================================================
