---------------------------- MODULE WebRemoteControlProofs ----------------------------
(***************************************************************************)
(* Proofs about the whole system: what the devices and the proxy assume of *)
(* each other holds through both networks, so that what is proved of the   *)
(* parts holds of the parts of the system.                                 *)
(***************************************************************************)
EXTENDS PartsProofs

-----------------------------------------------------------------------------
(* The inductive invariant. *)

\* What is proved of the parts alone
PartsInv == PP!TypeOK /\ PP!Provenance /\ PP!Addressed /\ DD!DeviceTypeOK

\* A message of type `type` and number `seq` was sent under uid `uid`.
Said(type, seq, uid) == \E m \in sent : m.type = type /\ m.seq = seq /\ m.uid = uid

\* Devices only have and use uids they were given.
DevicesKnown ==
  /\ Len(issued) <= MaxUid
  /\ \A d \in Client : dev[d].uid = 0 \/ Given(dev[d].uid, d)

SentKnown ==
  \A m \in sent :
    /\ m.from \in Client /\ m.type \in MessageType
    /\ m.uid = 0 \/ Given(m.uid, m.from)
    /\ m.type # "register" => m.uid # 0
    /\ m.type = "command" => deviceType[m.from] = "controller"

\* An object that device d may be sent: an answer to something it has sent, or a
\* status or command of another device it should hear.
Due(d, o) ==
  /\ Accepted(o)
  /\ o.type \in {"register", "ping", "error", "status", "command"}
  /\ o.type = "register" =>
       Given(o.uid, d) /\ \E m \in sent : m.from = d /\ m.seq = o.seq /\ m.type = "register"
  /\ o.type = "ping" => \E m \in sent : m.from = d /\ m.seq = o.seq /\ m.type = "ping"
  /\ o.type = "error" => \E m \in sent : m.from = d /\ m.seq = o.seq /\ mayBeAnswer(o, m)
  /\ o.type \in Payloads =>
       /\ deviceType[d] \in PP!forwardTo(o.type)
       /\ \E m \in sent :
            /\ m.type = o.type /\ m.seq = o.seq /\ m.uid = o.data.by
            /\ m.from \in Client
            /\ deviceType[m.from] = PP!senderType(m.type)
            /\ channel[m.from] = channel[d]

DueMessage(m) ==
  m \in ProxyMessage /\ m.socket \in Client /\ Due(m.socket, wire(proxyObject(m)))

\* What the proxy keeps for later was sent before.
KeptSaid ==
  /\ \A type \in PP!StickyType, key \in Channel :
       stickers[type][key] # PP!NoSticky =>
         Said(type, stickers[type][key].seq, stickers[type][key].data)
  /\ \A i \in 1 .. Len(delayed) : Said(delayed[i].type, delayed[i].seq, delayed[i].data)

\* What is under way from the proxy, on UDP and on TCP
Part == [of : {wire(proxyObject(m)) : m \in ProxyMessage}, part : PartName]

PacketsDue == \A m \in air : m.socket \notin tcp /\ DueMessage(m)

OutDue == IsFiniteSet(out) /\ \A m \in out : DueMessage(m)

Line(d) ==
  /\ downstream[d] \in Seq(Part) /\ InLines(downstream[d])
  /\ \A i \in 1 .. Len(downstream[d]) : Due(d, downstream[d][i].of)

HeardDue ==
  /\ heard = [d \in Client |-> heard[d]]
  /\ \A d \in Client : heard[d] # NoMessage => Due(d, heard[d])

\* Upstream are lines the device has sent.
UpstreamSent ==
  /\ upstream = [d \in tcp |-> upstream[d]]
  /\ \A d \in tcp : upstream[d] \in Seq({m \in sent : m.from = d})

\* An open connection is one of a device whose registrations all have an entry.
OpenKnown ==
  \A d \in tcp : \A uid \in 1 .. Len(issued) :
    conn[d] = "open" /\ issued[uid] = d => uid \in DOMAIN list

Told(o) == o.type = "error" /\ o.data.code = "DEVICE_NOT_REGISTERED"

NobodyTold == \A d \in tcp : \A i \in 1 .. Len(downstream[d]) : ~Told(downstream[d][i].of)

\* The newest line is still to be read, or the device has handled it.
Latest(d) ==
  /\ newest[d] # NoMessage => Due(d, newest[d])
  /\ dev[d].connected /\ ~cut[d] =>
       \/ Len(downstream[d]) >= 3 /\ downstream[d][Len(downstream[d])].of = newest[d]
       \/ Len(downstream[d]) <= 1 /\ heard[d] = newest[d]

TcpInv ==
  /\ downstream = [d \in tcp |-> downstream[d]]
  /\ newest = [d \in tcp |-> newest[d]] /\ cut \in [tcp -> BOOLEAN]
  /\ \A d \in tcp : Line(d) /\ Latest(d)

Inv ==
  /\ PartsInv /\ DevicesKnown /\ SentKnown /\ KeptSaid /\ OutDue
  /\ PacketsDue /\ HeardDue /\ UpstreamSent /\ TcpInv /\ OpenKnown /\ NobodyTold

\* The state only adds to what was sent and to the uids that were given.
Grows ==
  /\ sent \subseteq sent'
  /\ Len(issued) \in Nat /\ Len(issued') \in Nat /\ Len(issued) <= Len(issued')
  /\ \A uid \in 1 .. Len(issued) : issued'[uid] = issued[uid]

LEMMA DueStable ==
  ASSUME Grows, NEW d, NEW o, Due(d, o)
  PROVE  Due(d, o)'
<1>1. \A uid : Given(uid, d) => Given(uid, d)'
  BY DEF Grows, Given
<1>2. sent \subseteq sent'
  BY DEF Grows
<1> QED
  BY <1>1, <1>2 DEF Due

LEMMA DueMessageStable ==
  ASSUME Grows, NEW m, DueMessage(m)
  PROVE  DueMessage(m)'
BY DueStable DEF DueMessage

-----------------------------------------------------------------------------
(* Steps of a device. *)

\* A step of the device's own, or none
DeviceActs(d) == Effect(d) /\ (DD!Next \/ UNCHANGED deviceVars)

LEMMA HandleActs ==
  ASSUME Inv, NEW d \in Client, NEW o, o = Corrupt \/ Due(d, o), Handle(d, o)
  PROVE  /\ DeviceActs(d)
         /\ heard' = IF o = Corrupt THEN heard ELSE [heard EXCEPT ![d] = o]
<1> USE DEF DeviceActs
<1>1. DD!DeviceTypeOK /\ DevicesKnown
  BY DEF Inv, PartsInv
<1>2. ASSUME o = Corrupt PROVE DeviceActs(d) /\ heard' = heard
  <2>1. DD!ReceiveOtherError(d) /\ heard' = heard
    BY <1>2, SameOtherError DEF Handle
  <2> QED
    BY <1>1, <2>1, OtherEffect DEF DD!Next
<1>3. ASSUME o # Corrupt, Due(d, o)
      PROVE  DeviceActs(d) /\ heard' = [heard EXCEPT ![d] = o]
  <2>1. heard' = [heard EXCEPT ![d] = o]
    BY <1>3 DEF Handle
  <2>2. CASE o.type = "register" /\ D!ReceiveRegister(d, o.uid)
    <3>1. Given(o.uid, d) /\ o.uid \in 1 .. MaxUid
      BY <1>1, <1>3, <2>2, BoundsAssumption DEF Due, Given, DevicesKnown, Inv, PartsInv, PP!TypeOK
    <3>2. DD!ReceiveRegister(d, o.uid)
      BY <2>2, SameReceiveRegister
    <3> QED
      BY <1>1, <2>1, <3>1, <3>2, RegisterEffect DEF DD!Next
  <2>3. CASE o.type = "ping" /\ D!ReceivePing(d, o.seq)
    <3>1. DD!ReceivePing(d, o.seq)
      BY <2>3, SameReceivePing
    <3>2. o.seq \in 1 .. MaxSeq
      <4>1. PICK m \in sent : m.from = d /\ m.seq = o.seq
        BY <1>3, <2>3 DEF Due
      <4>2. dev[d].mySeqNum \in 1 .. MaxSeq + 1 /\ m.seq \in 1 .. dev[d].mySeqNum - 1
        BY <1>1, <4>1, DeviceFieldsShape DEF DD!DeviceTypeOK
      <4> QED
        BY <4>1, <4>2, BoundsAssumption
    <3> QED
      BY <1>1, <2>1, <3>1, <3>2, OtherEffect DEF DD!Next
  <2>4. CASE o.type = "error" /\ D!ReceiveNotRegistered(d)
    BY <1>1, <2>1, <2>4, SameNotRegistered, NotRegisteredEffect DEF DD!Next
  <2>5. CASE o.type = "error" /\ D!ReceiveOtherError(d)
    BY <1>1, <2>1, <2>5, SameOtherError, OtherEffect DEF DD!Next
  <2>6. CASE o.type \in Payloads /\ UNCHANGED deviceVars
    <3>1. sent' = sent /\ dev' = dev
      BY <2>6 DEF deviceVars
    <3> QED
      BY <2>1, <2>6, <3>1, SilentEffect
  <2> QED
    BY <1>3, <2>2, <2>3, <2>4, <2>5, <2>6 DEF Handle
<1> QED
  BY <1>2, <1>3

LEMMA DeviceStepActs ==
  ASSUME Inv, NEW d \in Client, DeviceStep(d)
  PROVE  DeviceActs(d)
<1>1. DD!DeviceTypeOK
  BY DEF Inv, PartsInv
<1>2. dev[d].mySeqNum \in 1 .. MaxSeq + 1
  BY <1>1, DeviceFieldsShape DEF DD!DeviceTypeOK
<1>3. ASSUME NEW type \in program[d][dev[d].mySeqNum], D!Send(d, type) PROVE DeviceActs(d)
  <2>1. program[d] \in [1 .. MaxSeq + 1 -> SUBSET {"status", "command"}]
    BY NetworkAssumption
  <2>2. type \in {"status", "command"}
    BY <1>2, <1>3, <2>1
  <2>3. DD!Send(d, type)
    BY <1>3, SameSend
  <2> QED
    BY <1>1, <2>2, <2>3, SendEffect DEF DD!Next, DeviceActs
<1>4. CASE D!KeepaliveTimer(d)
  BY <1>1, <1>4, SameKeepalive, KeepaliveEffect DEF DD!Next, DeviceActs
<1>5. CASE D!RecheckTimer(d)
  BY <1>1, <1>5, SameRecheck, RecheckEffect DEF DD!Next, DeviceActs
<1> QED
  BY <1>3, <1>4, <1>5 DEF DeviceStep

LEMMA LostActs ==
  ASSUME Inv, NEW d \in Client, D!ConnectionLost(d)
  PROVE  DeviceActs(d) /\ ~dev'[d].connected
<1>1. DD!DeviceTypeOK /\ DD!ConnectionLost(d)
  BY SameLost DEF Inv, PartsInv
<1>2. ~dev'[d].connected
  BY <1>1, DeviceFieldsShape DEF DD!ConnectionLost, DD!DeviceTypeOK
<1> QED
  BY <1>1, <1>2, OtherEffect DEF DD!Next, DeviceActs

-----------------------------------------------------------------------------
(* What a step of the parts preserves. *)

LEMMA ProxyPartStep ==
  ASSUME PP!TypeOK, PP!Provenance, PP!Addressed, [PP!Next]_(PP!vars)
  PROVE  /\ PP!TypeOK' /\ PP!Provenance' /\ PP!Addressed'
         /\ Len(issued) \in Nat /\ Len(issued') \in Nat /\ Len(issued) <= Len(issued')
         /\ \A uid \in 1 .. Len(issued) : issued'[uid] = issued[uid]
<1>1. PP!TypeOK'
  BY PP!StepType, SetUp
<1>2. PP!EntriesOwned /\ PP!StickersAuthored /\ PP!DelayedAttributed
  BY DEF PP!Provenance
<1>3. PP!EntriesOwned'
  BY <1>2, PP!StepOwned, SetUp
<1>4. PP!StickersAuthored'
  BY <1>2, PP!StepStickers, SetUp
<1>5. PP!DelayedAttributed'
  BY <1>2, PP!StepDelayed, SetUp
<1>6. PP!OutAttributed' /\ PP!Addressed'
  BY PP!StepOut, SetUp
<1>7. PP!IssuedGrows
  BY PP!StepIssued, SetUp
<1>8. Len(issued) \in Nat /\ Len(issued') \in Nat
  BY <1>1 DEF PP!TypeOK
<1>9. \A uid \in 1 .. Len(issued) : uid \in 1 .. Len(issued') /\ issued'[uid] = issued[uid]
  BY <1>7 DEF PP!IssuedGrows, PP!Uid
<1>10. Len(issued) <= Len(issued')
  <2>1. CASE Len(issued) = 0
    BY <1>8, <2>1
  <2>2. CASE Len(issued) # 0
    <3>1. Len(issued) \in 1 .. Len(issued)
      BY <1>8, <2>2
    <3> QED
      BY <1>8, <1>9, <3>1
  <2> QED
    BY <2>1, <2>2
<1> QED
  BY <1>1, <1>3, <1>4, <1>5, <1>6, <1>8, <1>9, <1>10 DEF PP!Provenance

LEMMA DevicePartStep ==
  ASSUME DD!DeviceTypeOK, NEW d \in Client, DeviceActs(d)
  PROVE  DD!DeviceTypeOK'
<1>1. DD!Next \/ UNCHANGED DD!vars
  BY DEF DeviceActs, deviceVars, DD!vars
<1> QED
  BY <1>1, DD!StepType, DeviceSetUp

\* Whatever a device does, what it did not touch stays as it should be.
LEMMA DeviceKeeps ==
  ASSUME Inv, NEW d \in Client, DeviceActs(d), ByDevice
  PROVE  /\ Grows /\ PartsInv' /\ DevicesKnown' /\ SentKnown' /\ KeptSaid' /\ OutDue'
         /\ PacketsDue' /\ UpstreamSent' /\ OpenKnown'
<1>1. /\ PartsInv /\ DevicesKnown /\ SentKnown /\ KeptSaid /\ OutDue /\ PacketsDue
      /\ UpstreamSent /\ OpenKnown
  BY DEF Inv
<1>2. UNCHANGED <<list, stickers, delayed, conn, mode, out, issued, high, air>>
  BY DEF ByDevice
<1>3. Effect(d) /\ sent \subseteq sent'
  BY DEF DeviceActs, Effect
<1>4. PP!TypeOK' /\ PP!Provenance' /\ PP!Addressed' /\ Grows
  <2>1. UNCHANGED PP!vars
    BY <1>2 DEF PP!vars
  <2> QED
    BY <1>1, <1>3, <2>1, ProxyPartStep DEF PartsInv, Grows
<1>5. PartsInv'
  BY <1>1, <1>4, DevicePartStep DEF PartsInv
<1>6. DevicesKnown'
  BY <1>1, <1>2, <1>3 DEF DevicesKnown, Effect, Given
<1>7. SentKnown'
  <2> SUFFICES ASSUME NEW m \in sent'
               PROVE  /\ m.from \in Client /\ m.type \in MessageType
                      /\ m.uid = 0 \/ Given(m.uid, m.from)
                      /\ m.type # "register" => m.uid # 0
                      /\ m.type = "command" => deviceType[m.from] = "controller"
    BY <1>2 DEF SentKnown, Given
  <2>1. CASE m \in sent
    BY <1>1, <2>1 DEF SentKnown
  <2>2. CASE m \notin sent
    BY <1>1, <1>3, <2>2 DEF Effect, DevicesKnown
  <2> QED
    BY <2>1, <2>2
<1>8. KeptSaid'
  BY <1>1, <1>2, <1>3 DEF KeptSaid, Said
<1>9. OutDue'
  BY <1>1, <1>2, <1>4, DueMessageStable DEF OutDue
<1>10. PacketsDue'
  BY <1>1, <1>2, <1>4, DueMessageStable DEF PacketsDue
<1>11. UpstreamSent'
  <2> DEFINE new(e) == {m \in sent' \ sent : m.from = e}
  <2>1. upstream' = [e \in tcp |-> upstream[e] \o SetToSeq(new(e))]
    BY DEF ByDevice
  <2>2. ASSUME NEW e \in tcp PROVE upstream'[e] \in Seq({m \in sent' : m.from = e})
    <3> DEFINE all == {m \in sent' : m.from = e}
    <3>1. SetToSeq(new(e)) \in Seq(new(e))
      <4>1. IsFiniteSet(new(e))
        BY <1>3, FinitePart DEF Effect
      <4> QED
        BY <4>1, ToSeq
    <3>2. new(e) \subseteq all /\ {m \in sent : m.from = e} \subseteq all
      BY <1>3
    <3>3. upstream[e] \in Seq({m \in sent : m.from = e})
      BY <1>1 DEF UpstreamSent
    <3>4. SetToSeq(new(e)) \in Seq(all) /\ upstream[e] \in Seq(all)
      <4> HIDE DEF new, all
      <4>1. \A few, many : few \subseteq many => Seq(few) \subseteq Seq(many)
        OBVIOUS
      <4> QED
        BY <3>1, <3>2, <3>3, <4>1 DEF all
    <3>5. upstream'[e] = upstream[e] \o SetToSeq(new(e))
      BY <2>1
    <3> HIDE DEF new, all
    <3>6. upstream'[e] \in Seq(all)
      BY <3>4, <3>5
    <3> QED
      BY <3>6 DEF all
  <2>3. upstream' = [e \in tcp |-> upstream'[e]]
    <3> HIDE DEF new
    <3> QED
      BY <2>1
  <2> QED
    BY <2>2, <2>3 DEF UpstreamSent
<1>12. OpenKnown'
  BY <1>1, <1>2 DEF OpenKnown
<1> QED
  BY <1>4, <1>5, <1>6, <1>7, <1>8, <1>9, <1>10, <1>11, <1>12

-----------------------------------------------------------------------------
(* What devices hear. *)

\* The networks' state that depends on what the devices have handled
HeardInv == HeardDue /\ TcpInv /\ NobodyTold

LEMMA HeardStep ==
  ASSUME HeardDue, Grows, NEW d \in Client, NEW o, o = Corrupt \/ Due(d, o),
         heard' = IF o = Corrupt THEN heard ELSE [heard EXCEPT ![d] = o]
  PROVE  /\ HeardDue'
         /\ \A e \in Client \ {d} : heard'[e] = heard[e]
         /\ heard'[d] = IF o = Corrupt THEN heard[d] ELSE o
<1>1. /\ heard' = [e \in Client |-> heard'[e]]
      /\ \A e \in Client \ {d} : heard'[e] = heard[e]
      /\ heard'[d] = IF o = Corrupt THEN heard[d] ELSE o
  BY DEF HeardDue
<1>2. ASSUME NEW e \in Client, NEW p, p = heard'[e], p # NoMessage PROVE Due(e, p)'
  <2>1. Due(e, p)
    BY <1>1, <1>2 DEF HeardDue, NoMessage
  <2> QED
    BY <2>1, DueStable
<1>3. \A e \in Client : (heard[e] # NoMessage => Due(e, heard[e]))'
  BY <1>2 DEF Due, Given
<1> QED
  BY <1>1, <1>3 DEF HeardDue

LEMMA LineStable ==
  ASSUME Grows, NEW d \in tcp, Line(d), downstream'[d] = downstream[d]
  PROVE  Line(d)'
BY DueStable DEF Line

LEMMA NewestStable ==
  ASSUME Grows, NEW d \in tcp, newest'[d] = newest[d], newest[d] # NoMessage => Due(d, newest[d])
  PROVE  (newest[d] # NoMessage => Due(d, newest[d]))'
<1>1. \A o : Due(d, o) => Due(d, o)'
  BY DueStable
<1>2. \A o : o = newest'[d] /\ Due(d, o)' => Due(d, newest[d])'
  BY DEF Due, Given
<1> QED
  BY <1>1, <1>2

\* A connection nothing is written to or read from
LEMMA LatestStable ==
  ASSUME Grows, NEW d \in tcp, Latest(d), downstream'[d] = downstream[d],
         newest'[d] = newest[d], cut'[d] = cut[d], heard'[d] = heard[d],
         dev'[d].connected => dev[d].connected
  PROVE  Latest(d)'
BY NewestStable DEF Latest

LEMMA QuietTcp ==
  ASSUME TcpInv, NobodyTold, Grows, NEW d \in Client, Effect(d),
         UNCHANGED <<downstream, newest, cut>>, \A e \in tcp : heard'[e] = heard[e]
  PROVE  TcpInv' /\ NobodyTold'
<1>1. ASSUME NEW e \in tcp PROVE Line(e)' /\ Latest(e)'
  <2>1. e \in Client /\ (dev'[e].connected => dev[e].connected)
    BY DEF tcp, Effect
  <2>2. Line(e) /\ Latest(e)
    BY DEF TcpInv
  <2> QED
    BY <2>1, <2>2, LineStable, LatestStable
<1> QED
  BY <1>1 DEF TcpInv, NobodyTold, Told

LEMMA PacketHeard ==
  ASSUME Inv, NEW d \in Client, ReceivePacket(d)
  PROVE  DeviceActs(d) /\ ByDevice /\ HeardInv'
<1>1. PICK m \in toSocket(air, d) :
        Handle(d, parseIncomingMessage(packedByProxy(m), enable_compression(d)))
  BY DEF ReceivePacket
<1> DEFINE o == parseIncomingMessage(packedByProxy(m), enable_compression(d))
<1>2. m \in air /\ m.socket = d /\ d \notin tcp /\ DueMessage(m)
  BY <1>1 DEF Inv, PacketsDue, toSocket
<1>3. o = Corrupt \/ o = wire(proxyObject(m))
  BY <1>2, ParsedByDevice DEF DueMessage
<1>4. (o = Corrupt \/ Due(d, o)) /\ Handle(d, o)
  BY <1>1, <1>2, <1>3 DEF DueMessage
<1> HIDE DEF o
<1>5. /\ DeviceActs(d)
      /\ heard' = IF o = Corrupt THEN heard ELSE [heard EXCEPT ![d] = o]
  BY <1>4, HandleActs
<1>6. ByDevice /\ UNCHANGED <<downstream, newest, cut>>
  BY DEF ReceivePacket
<1>7. Grows
  BY <1>5, <1>6, DeviceKeeps
<1>8. HeardDue' /\ \A e \in Client \ {d} : heard'[e] = heard[e]
  BY <1>4, <1>5, <1>7, HeardStep DEF Inv
<1>9. \A e \in tcp : heard'[e] = heard[e]
  BY <1>2, <1>8 DEF tcp
<1> QED
  BY <1>5, <1>6, <1>7, <1>8, <1>9, QuietTcp DEF Inv, HeardInv, DeviceActs

LEMMA StepUnheard ==
  ASSUME Inv, NEW d \in Client, DeviceStep(d)
  PROVE  DeviceActs(d) /\ ByDevice /\ HeardInv'
<1>1. DeviceActs(d) /\ ByDevice /\ UNCHANGED <<downstream, heard, newest, cut>>
  BY DeviceStepActs DEF DeviceStep
<1>2. Grows
  BY <1>1, DeviceKeeps
<1>3. HeardDue'
  BY <1>1, <1>2, DueStable DEF Inv, HeardDue
<1> QED
  BY <1>1, <1>2, <1>3, QuietTcp DEF Inv, HeardInv, DeviceActs

\* The connection is empty when it has ended, and nothing is expected of it.
LEMMA LostUnheard ==
  ASSUME Inv, NEW d \in tcp, ConnectionLost(d)
  PROVE  DeviceActs(d) /\ ByDevice /\ HeardInv'
<1>1. d \in Client /\ TcpInv /\ NobodyTold /\ HeardDue
  BY DEF tcp, Inv
<1>2. /\ DeviceActs(d) /\ ~dev'[d].connected /\ ByDevice
      /\ downstream' = [downstream EXCEPT ![d] = << >>]
      /\ UNCHANGED <<heard, newest, cut>>
  BY <1>1, LostActs DEF ConnectionLost
<1>3. Grows
  BY <1>1, <1>2, DeviceKeeps
<1>4. HeardDue'
  BY <1>1, <1>2, <1>3, DueStable DEF HeardDue
<1>5. /\ downstream' = [e \in tcp |-> downstream'[e]]
      /\ downstream'[d] = << >>
      /\ \A e \in tcp \ {d} : downstream'[e] = downstream[e]
  BY <1>1, <1>2 DEF TcpInv
<1>6. ASSUME NEW e \in tcp PROVE Line(e)' /\ Latest(e)'
  <2>1. e \in Client /\ Line(e) /\ Latest(e)
    BY <1>1 DEF tcp, TcpInv
  <2>2. CASE e # d
    <3>1. dev'[e] = dev[e]
      BY <1>2, <2>1, <2>2 DEF DeviceActs, Effect
    <3> QED
      BY <1>2, <1>3, <1>5, <2>1, <2>2, <3>1, LineStable, LatestStable
  <2>3. CASE e = d
    <3>1. Line(d)'
      BY <1>5 DEF Line, InLines
    <3>2. (newest[d] # NoMessage => Due(d, newest[d]))'
      BY <1>2, <1>3, <2>1, <2>3, NewestStable DEF Latest
    <3> QED
      BY <1>2, <2>3, <3>1, <3>2 DEF Latest
  <2> QED
    BY <2>2, <2>3
<1>7. NobodyTold'
  BY <1>1, <1>5 DEF NobodyTold, Told
<1> QED
  BY <1>1, <1>2, <1>4, <1>5, <1>6, <1>7 DEF HeardInv, TcpInv

\* What is read of a connection is its newest line when that has arrived.
LEMMA ChunkLatest ==
  ASSUME NEW d \in tcp, Line(d), Latest(d), dev[d].connected, ~cut[d],
         NEW n \in 1 .. Len(downstream[d]), n # Len(downstream[d]) - 2
  PROVE  LET o == parseIncomingMessage(chunkOf(SubSeq(downstream[d], 1, n), FALSE), FALSE)
             rest == SubSeq(downstream[d], n + 1, Len(downstream[d]))
         IN  \/ Len(rest) >= 3 /\ rest[Len(rest)].of = newest[d]
             \/ Len(rest) <= 1 /\ newest[d] = IF o = Corrupt THEN heard[d] ELSE o
<1> DEFINE parts == downstream[d]
           L == Len(parts)
           o == parseIncomingMessage(chunkOf(SubSeq(parts, 1, n), FALSE), FALSE)
           rest == SubSeq(parts, n + 1, Len(parts))
<1> SUFFICES \/ Len(rest) >= 3 /\ rest[Len(rest)].of = newest[d]
             \/ Len(rest) <= 1 /\ newest[d] = IF o = Corrupt THEN heard[d] ELSE o
  OBVIOUS
<1>1. parts \in Seq(Part) /\ InLines(parts) /\ L \in Nat /\ n \in 1 .. L /\ n # L - 2
  BY DEF Line
<1>2. Len(rest) = L - n /\ \A i \in 1 .. Len(rest) : rest[i] = parts[n + i]
  BY <1>1, SuffixInLines
<1>3. o = parseIncomingMessage(chunkOf(SubSeq(parts, 1, n), FALSE), FALSE)
  OBVIOUS
<1>4. \/ L >= 3 /\ parts[L].of = newest[d]
      \/ L <= 1 /\ heard[d] = newest[d]
  BY DEF Latest
<1>5. \A i \in 1 .. L : Accepted(parts[i].of)
  BY DEF Line, Due
<1> HIDE DEF parts, L, o, rest
<1>6. CASE L >= 3 /\ parts[L].of = newest[d] /\ n \in {L - 1, L}
  <2>1. L \in 1 .. L /\ L - n <= 1
    BY <1>1, <1>6
  <2>2. Accepted(newest[d])
    BY <1>5, <1>6, <2>1
  <2>3. o = newest[d]
    BY <1>1, <1>3, <1>6, <2>2, ChunkOfLast DEF L
  <2> QED
    BY <1>2, <2>1, <2>2, <2>3 DEF Accepted
<1>7. CASE L >= 3 /\ parts[L].of = newest[d] /\ n \notin {L - 1, L}
  <2>1. L - n >= 3 /\ L - n \in 1 .. L - n /\ n + (L - n) = L
    BY <1>1, <1>7
  <2>2. rest[Len(rest)] = parts[n + (L - n)]
    BY <1>2, <2>1
  <2> QED
    BY <1>2, <1>7, <2>1, <2>2
<1>8. CASE L <= 1 /\ heard[d] = newest[d]
  <2>1. L = 1 /\ n = 1 /\ 1 \in 1 .. L /\ ~(1 < L) /\ L - n <= 1
    BY <1>1, <1>8
  <2>2. parts[1].part = "newline"
    BY <1>1, <2>1 DEF InLines, L
  <2>3. /\ SubSeq(parts, 1, n) \in Seq(Part) /\ Len(SubSeq(parts, 1, n)) = 1
        /\ SubSeq(parts, 1, n)[1] = parts[1]
    BY <1>1, <2>1, Prefix DEF L
  <2>4. o = Corrupt
    BY <1>3, <2>2, <2>3, LoneNewline
  <2>5. Len(rest) <= 1
    BY <1>2, <2>1
  <2> QED
    BY <1>8, <2>4, <2>5
<1> QED
  BY <1>4, <1>6, <1>7, <1>8

LEMMA ChunkHeard ==
  ASSUME Inv, NEW d \in tcp, ReceiveChunk(d)
  PROVE  DeviceActs(d) /\ ByDevice /\ HeardInv'
<1>1. /\ d \in Client /\ TcpInv /\ NobodyTold /\ HeardDue /\ Line(d) /\ Latest(d)
      /\ enable_compression(d) = FALSE
  BY DEF tcp, Inv, TcpInv, enable_compression
<1>2. PICK n \in 1 .. Len(downstream[d]) :
        /\ dev[d].connected
        /\ Handle(d, parseIncomingMessage(chunkOf(SubSeq(downstream[d], 1, n), FALSE), FALSE))
        /\ downstream' = [downstream EXCEPT ![d] = SubSeq(@, n + 1, Len(@))]
        /\ cut' = [cut EXCEPT ![d] = @ \/ n = Len(downstream[d]) - 2]
        /\ ByDevice /\ UNCHANGED newest
  BY <1>1 DEF ReceiveChunk
<1> DEFINE read == SubSeq(downstream[d], 1, n)
           rest == SubSeq(downstream[d], n + 1, Len(downstream[d]))
           o == parseIncomingMessage(chunkOf(read, FALSE), FALSE)
<1>3. /\ downstream' = [e \in tcp |-> downstream'[e]]
      /\ downstream'[d] = rest
      /\ \A e \in tcp \ {d} : downstream'[e] = downstream[e]
  BY <1>1, <1>2 DEF TcpInv
<1>4. /\ cut' \in [tcp -> BOOLEAN]
      /\ cut'[d] = (cut[d] \/ n = Len(downstream[d]) - 2)
      /\ \A e \in tcp \ {d} : cut'[e] = cut[e]
  BY <1>1, <1>2 DEF TcpInv
<1>5. read \in Seq(Part) /\ Len(read) = n /\ \A i \in 1 .. n : read[i] = downstream[d][i]
  <2>1. n \in 0 .. Len(downstream[d])
    OBVIOUS
  <2> QED
    BY <1>1, <2>1, Prefix DEF Line
<1>6. /\ rest \in Seq(Part) /\ InLines(rest)
      /\ \A i \in 1 .. Len(rest) :
           n + i \in 1 .. Len(downstream[d]) /\ rest[i] = downstream[d][n + i]
  BY <1>1, SuffixInLines DEF Line
<1>7. Handle(d, o)
  BY <1>2
<1> HIDE DEF read, rest
<1>8. o = Corrupt \/ Due(d, o)
  <2>1. ASSUME o # Corrupt PROVE Due(d, o)
    <3>1. PICK i \in 1 .. Len(read) : o = read[i].of
      <4>1. read # << >> /\ read \in Seq(Part)
        BY <1>5
      <4> QED
        BY <2>1, <4>1, ParseSome
    <3> HIDE DEF o
    <3>2. i \in 1 .. n /\ o = downstream[d][i].of
      BY <1>5, <3>1
    <3>3. i \in 1 .. Len(downstream[d])
      BY <1>1, <3>2 DEF Line
    <3> QED
      BY <1>1, <3>2, <3>3 DEF Line
  <2> QED
    BY <2>1
<1>9. \/ ~dev[d].connected \/ cut'[d]
      \/ Len(rest) >= 3 /\ rest[Len(rest)].of = newest[d]
      \/ Len(rest) <= 1 /\ newest[d] = IF o = Corrupt THEN heard[d] ELSE o
  <2> HIDE DEF o
  <2>2. CASE ~cut[d] /\ n # Len(downstream[d]) - 2
    <3>1. Line(d) /\ Latest(d) /\ dev[d].connected
      BY <1>1, <1>2
    <3>2. \/ Len(rest) >= 3 /\ rest[Len(rest)].of = newest[d]
          \/ Len(rest) <= 1 /\ newest[d] = IF o = Corrupt THEN heard[d] ELSE o
      BY <2>2, <3>1, ChunkLatest DEF o, rest, read
    <3> QED
      BY <3>2
  <2> QED
    BY <1>4, <2>2
<1> HIDE DEF o
<1>10. /\ DeviceActs(d)
       /\ heard' = IF o = Corrupt THEN heard ELSE [heard EXCEPT ![d] = o]
  BY <1>1, <1>7, <1>8, HandleActs
<1>11. Grows
  BY <1>1, <1>2, <1>10, DeviceKeeps
<1>12. /\ HeardDue'
       /\ \A e \in Client \ {d} : heard'[e] = heard[e]
       /\ heard'[d] = IF o = Corrupt THEN heard[d] ELSE o
  BY <1>1, <1>8, <1>10, <1>11, HeardStep
<1>13. ASSUME NEW e \in tcp, e # d PROVE Line(e)' /\ Latest(e)'
  <2>1. e \in Client /\ Line(e) /\ Latest(e) /\ dev'[e] = dev[e]
    BY <1>1, <1>10, <1>13 DEF tcp, TcpInv, DeviceActs, Effect
  <2> QED
    BY <1>2, <1>3, <1>4, <1>11, <1>12, <1>13, <2>1, LineStable, LatestStable
<1>14. Line(d)'
  <2>1. \A i \in 1 .. Len(rest) : Due(d, rest[i].of)
    BY <1>1, <1>6 DEF Line
  <2>2. (\A i \in 1 .. Len(downstream[d]) : Due(d, downstream[d][i].of))'
    <3> SUFFICES ASSUME NEW i \in 1 .. Len(rest) PROVE Due(d, downstream[d][i].of)'
      BY <1>3
    <3>1. PICK p : p = rest[i].of /\ Due(d, p)
      BY <2>1
    <3>2. Due(d, p)' /\ p = downstream'[d][i].of
      BY <1>3, <1>11, <3>1, DueStable
    <3> QED
      BY <3>2 DEF Due, Given
  <2> QED
    BY <1>3, <1>6, <2>2 DEF Line
<1>15. Latest(d)'
  <2>1. (newest[d] # NoMessage => Due(d, newest[d]))'
    BY <1>1, <1>2, <1>11, NewestStable DEF Latest
  <2>2. dev'[d].connected => dev[d].connected
    BY <1>10 DEF DeviceActs, Effect
  <2>3. newest'[d] = newest[d]
    BY <1>2
  <2>4. dev'[d].connected /\ ~cut'[d] =>
          \/ Len(rest) >= 3 /\ rest[Len(rest)].of = newest'[d]
          \/ Len(rest) <= 1 /\ heard'[d] = newest'[d]
    BY <1>9, <1>12, <2>2, <2>3
  <2>5. dev'[d].connected /\ ~cut'[d] =>
          \/ Len(downstream'[d]) >= 3 /\ downstream'[d][Len(downstream'[d])].of = newest'[d]
          \/ Len(downstream'[d]) <= 1 /\ heard'[d] = newest'[d]
    BY <1>3, <2>4
  <2> QED
    BY <2>1, <2>5 DEF Latest
<1>16. NobodyTold'
  <2>1. ASSUME NEW e \in tcp, NEW i \in 1 .. Len(downstream'[e]), Told(downstream'[e][i].of)
        PROVE  FALSE
    <3>1. CASE e # d
      BY <1>1, <1>3, <2>1, <3>1 DEF NobodyTold
    <3>2. CASE e = d
      <4>1. n + i \in 1 .. Len(downstream[d]) /\ Told(downstream[d][n + i].of)
        BY <1>3, <1>6, <2>1, <3>2
      <4> QED
        BY <1>1, <4>1 DEF NobodyTold
    <3> QED
      BY <3>1, <3>2
  <2> QED
    BY <2>1 DEF NobodyTold, Told
<1>17. TcpInv'
  BY <1>1, <1>2, <1>3, <1>4, <1>13, <1>14, <1>15 DEF TcpInv
<1> QED
  BY <1>2, <1>10, <1>12, <1>16, <1>17 DEF HeardInv

-----------------------------------------------------------------------------
(* Steps of the proxy. *)

\* The proxy handles message r of device r.from.
Answers(r) ==
  \/ r.type = "register" /\ PP!RegisterDevice(r.from, r.seq)
  \/ r.type = "ping" /\ \/ PP!RespondToPing(r.from, r.uid, r.seq)
                        \/ PP!PingUnknown(r.from, r.uid, r.seq)
  \/ r.type \in Payloads /\ \/ PP!ForwardUnknown(r.type, r.from, r.uid, r.seq)
                            \/ PP!ForwardDenied(r.type, r.from, r.uid, r.seq)
                            \/ PP!ForwardDropped(r.type, r.from, r.uid, r.seq)
                            \/ \E sticky \in BOOLEAN :
                                 PP!Forward(r.type, r.from, r.uid, r.seq, sticky)

ProxyActs ==
  \/ \E r \in sent : Answers(r)
  \/ PP!SendSticky \/ PP!Restart \/ \E d \in tcp : PP!SocketClose(d)

LEMMA SentFields ==
  ASSUME DD!DeviceTypeOK, SentKnown, DevicesKnown, NEW r \in sent
  PROVE  /\ r.from \in Client /\ r.type \in MessageType
         /\ r.seq \in 1 .. MaxSeq /\ r.uid \in Nat
         /\ r.type # "register" => r.uid # 0 /\ Given(r.uid, r.from) /\ r.uid \in PP!Uid
<1>1. /\ r.from \in Client /\ r.type \in MessageType
      /\ r.uid = 0 \/ Given(r.uid, r.from)
      /\ r.type # "register" => r.uid # 0
  BY DEF SentKnown
<1>2. r.seq \in 1 .. MaxSeq
  <2>1. dev[r.from].mySeqNum \in 1 .. MaxSeq + 1 /\ r.seq \in 1 .. dev[r.from].mySeqNum - 1
    BY <1>1, DeviceFieldsShape DEF DD!DeviceTypeOK
  <2> QED
    BY <2>1, BoundsAssumption
<1> QED
  BY <1>1, <1>2 DEF Given, PP!Uid

LEMMA ArrivesAnswers ==
  ASSUME Inv, NEW r \in sent, Arrives(r.from, parsedByProxy(r))
  PROVE  Answers(r)
<1> DEFINE w == parsedByProxy(r)
<1>1. /\ r.type \in MessageType /\ r.seq \in 1 .. MaxSeq /\ r.uid \in Nat
      /\ r.from \in Client /\ (r.type # "register" => r.uid # 0)
  BY SentFields DEF Inv, PartsInv
<1>2. w.type = r.type /\ w.seq = r.seq /\ (r.type # "register" => w.uid = r.uid)
  <2>1. w # Corrupt
    BY DEF Arrives
  <2> QED
    BY <1>1, <2>1, ParsedByProxy DEF MessageType
<1>3. ("sticky" \in DOMAIN w) \in BOOLEAN
  OBVIOUS
<1> HIDE DEF w
<1>4. Arrives(r.from, w)
  BY DEF w
<1>5. CASE w.type = "register" /\ P!RegisterDevice(r.from, w.seq)
  BY <1>2, <1>5, SameRegister DEF Answers
<1>6. CASE w.type = "ping" /\ P!RespondToPing(r.from, w.uid, w.seq)
  BY <1>2, <1>6, SameRespond DEF Answers
<1>7. CASE w.type = "ping" /\ P!PingUnknown(r.from, w.uid, w.seq)
  BY <1>2, <1>7, SamePingUnknown DEF Answers
<1>8. CASE w.type \in Payloads /\ P!ForwardUnknown(w.type, r.from, w.uid, w.seq)
  BY <1>2, <1>8, SameUnknown DEF Answers, Payloads
<1>9. CASE w.type \in Payloads /\ P!ForwardDenied(w.type, r.from, w.uid, w.seq)
  BY <1>2, <1>9, SameDenied DEF Answers, Payloads
<1>10. CASE w.type \in Payloads /\ P!ForwardDropped(w.type, r.from, w.uid, w.seq)
  BY <1>2, <1>10, SameDropped DEF Answers, Payloads
<1>11. CASE /\ w.type \in Payloads
            /\ P!Forward(w.type, r.from, w.uid, w.seq, "sticky" \in DOMAIN w)
  BY <1>2, <1>3, <1>11, SameForward DEF Answers, Payloads
<1> QED
  BY <1>4, <1>5, <1>6, <1>7, <1>8, <1>9, <1>10, <1>11 DEF Arrives

LEMMA ProxyStepActs ==
  ASSUME ProxyStep
  PROVE  ProxyActs
BY SameSticky, SameRestart, SameClose DEF ProxyStep, ProxyActs

LEMMA ActsNext ==
  ASSUME Inv, ProxyActs
  PROVE  PP!Next
<1>1. ASSUME NEW r \in sent, Answers(r) PROVE PP!Next
  <2>1. /\ r.from \in Client /\ r.seq \in 1 .. MaxSeq
        /\ r.type # "register" => r.uid \in PP!Uid
    BY SentFields DEF Inv, PartsInv
  <2>2. CASE r.type = "register" /\ PP!RegisterDevice(r.from, r.seq)
    BY <2>1, <2>2 DEF PP!Next
  <2>3. CASE r.type = "ping" /\ \/ PP!RespondToPing(r.from, r.uid, r.seq)
                                \/ PP!PingUnknown(r.from, r.uid, r.seq)
    BY <2>1, <2>3 DEF PP!Next
  <2>4. CASE r.type \in Payloads /\ \/ PP!ForwardUnknown(r.type, r.from, r.uid, r.seq)
                                    \/ PP!ForwardDenied(r.type, r.from, r.uid, r.seq)
                                    \/ PP!ForwardDropped(r.type, r.from, r.uid, r.seq)
                                    \/ \E sticky \in BOOLEAN :
                                         PP!Forward(r.type, r.from, r.uid, r.seq, sticky)
    <3>1. r.type \in PP!StickyType /\ r.type # "register"
      BY <2>4 DEF Payloads, PP!StickyType
    <3> QED
      BY <2>1, <2>4, <3>1 DEF PP!Next
  <2> QED
    BY <1>1, <2>2, <2>3, <2>4 DEF Answers
<1>2. CASE PP!SendSticky \/ PP!Restart \/ \E d \in tcp : PP!SocketClose(d)
  BY <1>2 DEF PP!Next, tcp
<1> QED
  BY <1>1, <1>2 DEF ProxyActs

-----------------------------------------------------------------------------
(* What the proxy sends is due. *)

LEMMA ReplyDue ==
  ASSUME NEW m \in PP!ReplyMessage, Given(m.uid, m.socket)', m.uid # 0, NEW r \in sent',
         r.from = m.socket, r.seq = m.seq, r.type = m.type
  PROVE  DueMessage(m)'
<1> DEFINE w == wire(proxyObject(m))
<1>1. m \in ProxyMessage /\ m.socket \in Client /\ m.type \in {"register", "ping"}
  BY DEF ProxyMessage, PP!ReplyMessage
<1>2. /\ Accepted(w) /\ w.type = m.type /\ w.seq = m.seq
      /\ m.type = "register" => w.uid = m.uid
  BY <1>1, ParsedByDevice
<1> HIDE DEF w
<1>3. \A o : o = w => Due(m.socket, o)'
  BY <1>1, <1>2 DEF Due, Payloads, Given
<1> QED
  BY <1>1, <1>3 DEF DueMessage, w

LEMMA ErrorDue ==
  ASSUME NEW m \in PP!ErrorMessage, NEW r \in sent',
         r.from = m.socket, r.seq = m.seq, r.type # "register",
         m.code = "PERMISSION_DENIED" => r.type = "status" /\ deviceType[r.from] # "toy"
  PROVE  DueMessage(m)'
<1> DEFINE w == wire(proxyObject(m))
<1>1. m \in ProxyMessage /\ m.socket \in Client /\ m.type = "error"
  BY DEF ProxyMessage, PP!ErrorMessage
<1>2. Accepted(w) /\ w.type = m.type /\ w.seq = m.seq /\ w.data.code = m.code
  BY <1>1, ParsedByDevice
<1> HIDE DEF w
<1>3. mayBeAnswer(w, r)
  BY <1>1, <1>2 DEF mayBeAnswer
<1>4. \A o : o = w => Due(m.socket, o)'
  BY <1>1, <1>2, <1>3 DEF Due, Payloads, Given
<1> QED
  BY <1>1, <1>4 DEF DueMessage, w

LEMMA PayloadDue ==
  ASSUME SentKnown', NEW m \in PP!PayloadMessage, PP!Attributed(m)',
         Said(m.type, m.seq, m.data)'
  PROVE  DueMessage(m)'
<1> DEFINE w == wire(proxyObject(m))
<1>1. m \in ProxyMessage /\ m.socket \in Client /\ m.type \in Payloads
  BY DEF ProxyMessage, PP!PayloadMessage, PP!StickyType, Payloads
<1>2. Accepted(w) /\ w.type = m.type /\ w.seq = m.seq /\ w.data.by = m.data
  BY <1>1, ParsedByDevice
<1>3. PICK r \in sent' : r.type = m.type /\ r.seq = m.seq /\ r.uid = m.data
  BY DEF Said
<1>4. /\ m.data \in PP!Uid' /\ m.uid \in PP!Uid' /\ itself[m.socket] = issued'[m.uid]
      /\ deviceType[issued'[m.data]] = PP!senderType(m.type)
      /\ deviceType[issued'[m.uid]] \in PP!forwardTo(m.type)
      /\ ownKey[channel[issued'[m.data]]] = ownKey[channel[issued'[m.uid]]]
  BY DEF PP!Attributed
<1>5. r.from \in Client /\ issued'[m.data] = r.from
  <2>1. m.data # 0
    BY <1>4 DEF PP!Uid
  <2> QED
    BY <1>3, <2>1 DEF SentKnown, Given
<1>6. issued'[m.uid] = m.socket
  BY <1>1, <1>4 DEF itself
<1>7. channel[r.from] = channel[m.socket]
  BY <1>1, <1>4, <1>5, <1>6, SetUp DEF ownKey
<1> HIDE DEF w
<1>8. \A o : o = w => Due(m.socket, o)'
  BY <1>1, <1>2, <1>3, <1>4, <1>5, <1>6, <1>7 DEF Due, Payloads, Given
<1> QED
  BY <1>1, <1>8 DEF DueMessage, w

\* All the proxy sends is due, and no TCP device is told that it is not registered.
SendsDue ==
  /\ IsFiniteSet(out)
  /\ \A m \in out :
       /\ DueMessage(m)
       /\ m.type = "error" /\ m.code = "DEVICE_NOT_REGISTERED" => m.socket \notin tcp

LEMMA SentStays ==
  ASSUME SentKnown, Grows, UNCHANGED sent
  PROVE  SentKnown'
BY DEF SentKnown, Grows, Given

LEMMA RegistryStays ==
  ASSUME KeptSaid, OpenKnown, DevicesKnown,
         UNCHANGED <<list, stickers, delayed, conn, issued, sent>>
  PROVE  KeptSaid' /\ OpenKnown' /\ Len(issued') <= MaxUid
BY DEF KeptSaid, Said, OpenKnown, DevicesKnown

LEMMA RegisterKeeps ==
  ASSUME PartsInv, KeptSaid, OpenKnown, DevicesKnown, Grows, UNCHANGED sent,
         NEW d \in Client, NEW seq \in 1 .. MaxSeq, PP!RegisterDevice(d, seq),
         NEW r \in sent, r.from = d, r.seq = seq, r.type = "register"
  PROVE  SendsDue' /\ KeptSaid' /\ OpenKnown' /\ Len(issued') <= MaxUid
<1> DEFINE uid == Len(issued) + 1
<1>1. PP!TypeOK /\ PP!Provenance /\ issued \in Seq(Client)
  BY DEF PartsInv, PP!TypeOK
<1>2. /\ issued' = Append(issued, d) /\ uid <= MaxUid
      /\ out' = PP!_send({PP!Reply("register", d, uid, seq)}, conn')
      /\ delayed' = delayed \o PP!stickyFor(d, uid)
      /\ stickers' = stickers
  BY DEF PP!RegisterDevice, itself
<1>3. Len(issued') = uid /\ uid \in Nat \ {0} /\ issued'[uid] = d
  BY <1>1, <1>2
<1>4. out' \subseteq {PP!Reply("register", d, uid, seq)}
  BY <1>2 DEF PP!_send
<1>5. IsFiniteSet(out')
  <2>1. IsFiniteSet({PP!Reply("register", d, uid, seq)})
    BY FS_Singleton
  <2> QED
    BY <1>4, <2>1, FinitePart
<1>6. ASSUME NEW m \in out' PROVE DueMessage(m)' /\ m.type # "error"
  <2>1. /\ m = PP!Reply("register", d, uid, seq)
        /\ m.type = "register" /\ m.socket = d /\ m.uid = uid /\ m.seq = seq
    BY <1>4 DEF PP!Reply
  <2>2. m \in PP!ReplyMessage
    BY <1>3, <2>1 DEF PP!ReplyMessage, PP!Reply
  <2>3. Given(m.uid, m.socket)' /\ m.uid # 0
    BY <1>3, <2>1 DEF Given
  <2> QED
    BY <2>1, <2>2, <2>3, ReplyDue
<1>7. KeptSaid'
  <2> DEFINE more == PP!stickyFor(d, uid)
             type == PP!stickyTypeFor(deviceType[itself[d]])
             content == PP!get(stickers, channel[itself[d]], deviceType[itself[d]])
  <2>1. type \in PP!StickyType /\ ownKey[channel[itself[d]]] \in Channel
    BY SetUp DEF PP!stickyTypeFor, PP!StickyType
  <2>2. content # PP!NoSticky => Said(type, content.seq, content.data)
    BY <2>1 DEF KeptSaid, PP!get
  <2>3. more = IF content = PP!NoSticky THEN << >>
               ELSE <<PP!Payload(type, d, uid, content.seq, content.data, "sticky")>>
    BY DEF PP!stickyFor
  <2>4. \A i \in 1 .. Len(more) : Said(more[i].type, more[i].seq, more[i].data)
    BY <2>2, <2>3 DEF PP!Payload
  <2>5. more \in Seq(PP!PayloadMessage) /\ delayed \in Seq(PP!PayloadMessage)
    BY <1>1, <1>3, PP!StickyForType, SetUp DEF PP!TypeOK
  <2> HIDE DEF more
  <2>6. ASSUME NEW i \in 1 .. Len(delayed')
        PROVE  Said(delayed'[i].type, delayed'[i].seq, delayed'[i].data)
    <3>1. delayed' = delayed \o more
      BY <1>2 DEF more
    <3>2. CASE i \in 1 .. Len(delayed)
      BY <2>5, <3>1, <3>2 DEF KeptSaid
    <3>3. CASE i \notin 1 .. Len(delayed)
      <4>1. i - Len(delayed) \in 1 .. Len(more) /\ delayed'[i] = more[i - Len(delayed)]
        BY <2>5, <3>1, <3>3
      <4> QED
        BY <2>4, <4>1
    <3> QED
      BY <3>2, <3>3
  <2> QED
    BY <1>2, <2>6 DEF KeptSaid, Said
<1>8. OpenKnown'
  <2> DEFINE old == PP!superseded(list, deviceType[itself[d]], channel[itself[d]])
             ended == {list[v].socket : v \in {old} \cap DOMAIN list}
  <2>1. /\ DOMAIN list' = (DOMAIN list \ {old}) \cup {uid}
        /\ conn' = PP!close(conn, ended)
    BY <1>1, PP!RegisterEntries, SetUp
  <2> HIDE DEF old
  <2> SUFFICES ASSUME NEW e \in tcp, NEW u \in 1 .. uid, conn'[e] = "open", issued'[u] = e
               PROVE  u \in DOMAIN list'
    BY <1>3 DEF OpenKnown
  <2>2. CASE u = uid
    BY <2>1, <2>2
  <2>3. CASE u # uid
    <3>1. u \in 1 .. Len(issued) /\ issued[u] = e /\ e \in Client /\ protocol[e] = "tcp"
      BY <1>1, <1>2, <2>3 DEF tcp
    <3>2. conn[e] = "open" /\ e \notin ended
      <4> HIDE DEF ended
      <4>1. conn \in [Client -> {"open", "destroyed", "closed"}]
        BY <1>1 DEF PP!TypeOK
      <4>2. PP!close(conn, ended)[e] = "open" => conn[e] = "open" /\ (e \in ended => protocol[e] # "tcp")
        BY <3>1, <4>1, PP!CloseLemma, SetUp
      <4> QED
        BY <2>1, <3>1, <4>2
    <3>3. u \in DOMAIN list
      BY <3>1, <3>2 DEF OpenKnown
    <3>4. list[u].socket = e
      BY <1>1, <3>1, <3>3 DEF PP!Provenance, PP!EntriesOwned, itself, PP!TypeOK, PP!Entry
    <3>5. u # old
      BY <3>2, <3>3, <3>4
    <3> QED
      BY <2>1, <3>3, <3>5
  <2> QED
    BY <2>2, <2>3
<1>9. SendsDue'
  BY <1>5, <1>6 DEF SendsDue, DueMessage, Due, Given
<1> QED
  BY <1>2, <1>3, <1>7, <1>8, <1>9

LEMMA PingKeeps ==
  ASSUME PartsInv, KeptSaid, OpenKnown, DevicesKnown, Grows, UNCHANGED sent,
         NEW d \in Client, NEW seq \in 1 .. MaxSeq, NEW uid \in PP!Uid, issued[uid] = d,
         PP!RespondToPing(d, uid, seq),
         NEW r \in sent, r.from = d, r.seq = seq, r.type = "ping"
  PROVE  SendsDue' /\ KeptSaid' /\ OpenKnown' /\ Len(issued') <= MaxUid
<1> DEFINE reply == PP!Reply("ping", d, uid, seq)
<1>1. PP!TypeOK /\ issued \in Seq(Client)
  BY DEF PartsInv, PP!TypeOK
<1>2. /\ list' = PP!update(list, uid, d, seq) /\ uid \in DOMAIN list
      /\ out' = PP!_send({reply}, conn)
      /\ UNCHANGED <<stickers, delayed, conn, issued>>
  BY DEF PP!RespondToPing
<1>3. out' \subseteq {reply}
  BY <1>2 DEF PP!_send
<1>4. IsFiniteSet(out')
  <2>1. IsFiniteSet({reply})
    BY FS_Singleton
  <2> QED
    BY <1>3, <2>1, FinitePart
<1>5. uid \in Nat \ {0} /\ uid \in 1 .. Len(issued')
  BY <1>1, <1>2 DEF PP!Uid
<1>6. ASSUME NEW m \in out' PROVE DueMessage(m)' /\ m.type # "error"
  <2>1. m = reply /\ m.type = "ping" /\ m.socket = d /\ m.uid = uid /\ m.seq = seq
    BY <1>3 DEF PP!Reply
  <2>2. m \in PP!ReplyMessage
    BY <1>5, <2>1 DEF PP!ReplyMessage, PP!Reply
  <2>3. Given(m.uid, m.socket)' /\ m.uid # 0
    BY <1>2, <1>5, <2>1 DEF Given
  <2> QED
    BY <2>1, <2>2, <2>3, ReplyDue
<1>7. SendsDue'
  BY <1>4, <1>6 DEF SendsDue, DueMessage, Due, Given
<1>8. DOMAIN list' = DOMAIN list
  BY <1>2 DEF PP!update
<1> QED
  BY <1>2, <1>7, <1>8 DEF KeptSaid, Said, OpenKnown, DevicesKnown

\* Errors: on TCP there is none about a device the registry does not know.
LEMMA ErrorsKeep ==
  ASSUME PartsInv, KeptSaid, OpenKnown, DevicesKnown, Grows, UNCHANGED sent,
         NEW d \in Client, NEW seq \in 1 .. MaxSeq, NEW uid \in PP!Uid, issued[uid] = d,
         NEW r \in sent, r.from = d, r.seq = seq, r.type # "register",
         NEW code \in {"DEVICE_NOT_REGISTERED", "PERMISSION_DENIED"},
         code = "DEVICE_NOT_REGISTERED" => uid \notin DOMAIN list,
         code = "PERMISSION_DENIED" => r.type = "status" /\ deviceType[d] # "toy",
         out' \subseteq PP!_send({PP!Error(code, d, seq, via) : via \in PP!DeviceType}, conn),
         UNCHANGED <<list, stickers, delayed, conn, issued>>
  PROVE  SendsDue' /\ KeptSaid' /\ OpenKnown' /\ Len(issued') <= MaxUid
<1> DEFINE all == {PP!Error(code, d, seq, via) : via \in PP!DeviceType}
<1>1. out' \subseteq all /\ \A m \in out' : conn[m.socket] = "open"
  BY DEF PP!_send
<1>2. IsFiniteSet(out')
  <2> DEFINE f == [via \in PP!DeviceType |-> PP!Error(code, d, seq, via)]
  <2>1. PP!DeviceType = {"toy"} \cup {"controller"} \cup {"observer"}
    BY DEF PP!DeviceType
  <2>2. IsFiniteSet(PP!DeviceType)
    <3>1. IsFiniteSet({"toy"}) /\ IsFiniteSet({"controller"}) /\ IsFiniteSet({"observer"})
      BY FS_Singleton
    <3> QED
      BY <2>1, <3>1, FiniteUnion
  <2>3. f = [via \in PP!DeviceType |-> f[via]] /\ all = {f[via] : via \in PP!DeviceType}
    OBVIOUS
  <2> HIDE DEF f, all
  <2>4. IsFiniteSet({f[via] : via \in PP!DeviceType})
    BY <2>2, <2>3, FiniteImage
  <2> QED
    BY <1>1, <2>3, <2>4, FinitePart
<1>3. ASSUME NEW m \in out'
      PROVE  DueMessage(m)' /\ (m.code = "DEVICE_NOT_REGISTERED" => m.socket \notin tcp)
  <2>1. PICK via \in PP!DeviceType : m = PP!Error(code, d, seq, via)
    BY <1>1
  <2>2. m.socket = d /\ m.seq = seq /\ m.code = code
    BY <2>1 DEF PP!Error
  <2>3. m \in PP!ErrorMessage
    BY <2>1 DEF PP!Error, PP!ErrorMessage
  <2>4. DueMessage(m)'
    BY <2>2, <2>3, ErrorDue
  <2>5. code = "DEVICE_NOT_REGISTERED" => d \notin tcp
    BY <1>1, <2>2 DEF OpenKnown, PP!Uid
  <2> QED
    BY <2>2, <2>4, <2>5
<1>4. SendsDue'
  BY <1>2, <1>3 DEF SendsDue, DueMessage, Due, Given
<1> QED
  BY <1>4, RegistryStays

\* The only thing a device sends without being allowed to is a status of no toy.
LEMMA DeniedStatus ==
  ASSUME PartsInv, SentKnown, NEW r \in sent, r.type \in Payloads,
         NEW d, r.from = d, issued[r.uid] = d, NEW seq, PP!ForwardDenied(r.type, d, r.uid, seq)
  PROVE  r.type = "status" /\ deviceType[d] # "toy"
<1>1. r.uid \in DOMAIN list /\ ~PP!isAllowedAction(list, r.uid, r.type)
  BY DEF PP!ForwardDenied
<1>2. list[r.uid].deviceType = deviceType[d]
  BY <1>1 DEF PartsInv, PP!Provenance, PP!EntriesOwned
<1>3. r.type = "command" => deviceType[d] = "controller"
  BY DEF SentKnown
<1> QED
  BY <1>1, <1>2, <1>3 DEF PP!isAllowedAction, Payloads

LEMMA SilenceKeeps ==
  ASSUME KeptSaid, OpenKnown, DevicesKnown, out' = {},
         UNCHANGED <<list, stickers, delayed, conn, issued, sent>>
  PROVE  SendsDue' /\ KeptSaid' /\ OpenKnown' /\ Len(issued') <= MaxUid
<1>1. IsFiniteSet({})
  BY FS_EmptySet
<1> QED
  BY <1>1, RegistryStays DEF SendsDue

\* The copies one call of forward() sends are finitely many.
LEMMA FiniteCopies ==
  ASSUME NEW before, NEW after, NEW n \in Nat, DOMAIN after \subseteq 1 .. n,
         NEW type, NEW to, NEW uid, NEW seq
  PROVE  IsFiniteSet(PP!copies(before, after, type, to, uid, seq))
<1> DEFINE to_uids == {v \in PP!getAll(after, to, after[uid].channel) :
                         PP!isLatestSeqNum(before, uid, seq)}
           f == [u \in to_uids |-> PP!Payload(type, after[u].socket, u, seq, uid, to)]
<1>1. to_uids \subseteq 1 .. n
  BY DEF PP!getAll, PP!onChannel
<1>2. PP!copies(before, after, type, to, uid, seq) = {f[u] : u \in to_uids}
  BY DEF PP!copies
<1>3. f = [u \in to_uids |-> f[u]]
  OBVIOUS
<1> HIDE DEF to_uids, f
<1>4. IsFiniteSet(to_uids)
  BY <1>1, FiniteUids
<1> QED
  BY <1>2, <1>3, <1>4, FiniteImage

LEMMA ForwardKeeps ==
  ASSUME PartsInv, KeptSaid, OpenKnown, DevicesKnown, Grows, SentKnown', UNCHANGED sent,
         PP!TypeOK', PP!OutAttributed',
         NEW type \in PP!StickyType, NEW d \in Client, NEW seq \in 1 .. MaxSeq,
         NEW uid \in PP!Uid, NEW sticky \in BOOLEAN, PP!Forward(type, d, uid, seq, sticky),
         NEW r \in sent, r.type = type, r.seq = seq, r.uid = uid
  PROVE  SendsDue' /\ KeptSaid' /\ OpenKnown' /\ Len(issued') <= MaxUid
<1> DEFINE first == IF type = "command" THEN "toy" ELSE "controller"
           now == PP!copies(list, list', type, first, uid, seq)
           rest == PP!forwardTo(type) \ {first}
           later == UNION {PP!copies(list', list', type, to, uid, seq) : to \in rest}
<1>1. PP!TypeOK
  BY DEF PartsInv
<1>2. /\ list' = PP!update(list, uid, d, seq)
      /\ out' = PP!_send(now \cup later, conn)
      /\ stickers' = PP!set(stickers, list[uid].channel, type, seq, uid, sticky)
      /\ UNCHANGED <<delayed, conn, issued>>
  BY DEF PP!Forward
<1>3. DOMAIN list' = DOMAIN list /\ DOMAIN list' \subseteq 1 .. Len(issued) /\ Len(issued) \in Nat
  BY <1>1, <1>2 DEF PP!update, PP!TypeOK, PP!Uid
<1>4. rest \subseteq {"observer"}
  BY DEF PP!forwardTo
<1>5. later = {} \/ later = PP!copies(list', list', type, "observer", uid, seq)
  <2>1. CASE rest = {}
    BY <2>1
  <2>2. CASE rest = {"observer"}
    BY <2>2
  <2> QED
    BY <1>4, <2>1, <2>2
<1>6. IsFiniteSet(now) /\ IsFiniteSet(later)
  <2>1. IsFiniteSet(now)
    BY <1>3, FiniteCopies
  <2>2. IsFiniteSet(PP!copies(list', list', type, "observer", uid, seq)) /\ IsFiniteSet({})
    BY <1>3, FiniteCopies, FS_EmptySet
  <2> HIDE DEF later
  <2> QED
    BY <1>5, <2>1, <2>2
<1>7. \A m \in now \cup later : m.type = type /\ m.seq = seq /\ m.data = uid
  BY DEF PP!copies, PP!Payload
<1> HIDE DEF now, later
<1>8. out' \subseteq now \cup later
  BY <1>2 DEF PP!_send
<1>9. IsFiniteSet(out')
  BY <1>6, <1>8, FiniteUnion, FinitePart
<1>10. ASSUME NEW m \in out' PROVE DueMessage(m)' /\ m.type # "error"
  <2>1. m.type = type /\ m.seq = seq /\ m.data = uid
    BY <1>7, <1>8
  <2>2. m \in PP!PayloadMessage
    BY <2>1 DEF PP!TypeOK, PP!ReplyMessage, PP!ErrorMessage, PP!StickyType
  <2>3. PP!Attributed(m)'
    BY <2>1 DEF PP!OutAttributed, PP!Attributed
  <2>4. Said(m.type, m.seq, m.data)'
    BY <2>1 DEF Said
  <2> QED
    BY <2>1, <2>2, <2>3, <2>4, PayloadDue DEF PP!StickyType
<1>11. SendsDue'
  BY <1>9, <1>10 DEF SendsDue, DueMessage, Due, Given
<1>12. KeptSaid'
  <2>1. stickers \in [PP!StickyType -> [Channel -> PP!Sticky]]
    BY <1>1 DEF PP!TypeOK
  <2>2. Said(type, seq, uid)
    BY DEF Said
  <2>3. ASSUME NEW t \in PP!StickyType, NEW key \in Channel
        PROVE  \/ stickers'[t][key] = stickers[t][key]
               \/ t = type /\ stickers'[t][key] = [seq |-> seq, data |-> uid]
    <3>1. CASE ~sticky
      BY <1>2, <3>1 DEF PP!set
    <3>2. CASE sticky
      <4> DEFINE k == ownKey[list[uid].channel]
      <4>1. stickers' = [stickers EXCEPT ![type][k] = [seq |-> seq, data |-> uid]]
        BY <1>2, <3>2 DEF PP!set
      <4> HIDE DEF k
      <4> QED
        BY <2>1, <4>1
    <3> QED
      BY <3>1, <3>2
  <2> QED
    BY <1>2, <2>2, <2>3 DEF KeptSaid, Said
<1>13. OpenKnown' /\ Len(issued') <= MaxUid
  BY <1>2, <1>3 DEF OpenKnown, DevicesKnown
<1> QED
  BY <1>11, <1>12, <1>13

LEMMA StickyKeeps ==
  ASSUME PartsInv, KeptSaid, OpenKnown, DevicesKnown, Grows, SentKnown', UNCHANGED sent,
         PP!OutAttributed', PP!SendSticky
  PROVE  SendsDue' /\ KeptSaid' /\ OpenKnown' /\ Len(issued') <= MaxUid
<1>1. delayed \in Seq(PP!PayloadMessage) /\ delayed # << >>
  BY DEF PartsInv, PP!TypeOK, PP!SendSticky
<1>2. /\ delayed' = Tail(delayed) /\ out' \subseteq {Head(delayed)}
      /\ UNCHANGED <<list, stickers, conn, issued>>
  BY DEF PP!SendSticky, PP!_send
<1>3. /\ Len(delayed) \in Nat /\ 1 \in 1 .. Len(delayed) /\ Head(delayed) = delayed[1]
      /\ Head(delayed) \in PP!PayloadMessage
      /\ \A i \in 1 .. Len(Tail(delayed)) :
           i + 1 \in 1 .. Len(delayed) /\ Tail(delayed)[i] = delayed[i + 1]
  BY <1>1
<1>4. IsFiniteSet(out')
  <2>1. IsFiniteSet({Head(delayed)})
    BY FS_Singleton
  <2> QED
    BY <1>2, <2>1, FinitePart
<1>5. ASSUME NEW m \in out' PROVE DueMessage(m)' /\ m.type # "error"
  <2>1. m = delayed[1] /\ m \in PP!PayloadMessage /\ m.type \in PP!StickyType
    BY <1>2, <1>3 DEF PP!PayloadMessage
  <2>2. PP!Attributed(m)'
    BY <2>1 DEF PP!OutAttributed, PP!Attributed
  <2>3. Said(m.type, m.seq, m.data)'
    BY <1>3, <2>1 DEF KeptSaid, Said
  <2> QED
    BY <2>1, <2>2, <2>3, PayloadDue DEF PP!StickyType
<1>6. SendsDue'
  BY <1>4, <1>5 DEF SendsDue, DueMessage, Due, Given
<1>7. KeptSaid'
  BY <1>2, <1>3 DEF KeptSaid, Said
<1> QED
  BY <1>2, <1>6, <1>7 DEF OpenKnown, DevicesKnown

LEMMA RestartKeeps ==
  ASSUME DevicesKnown, UNCHANGED sent, PP!Restart
  PROVE  SendsDue' /\ KeptSaid' /\ OpenKnown' /\ Len(issued') <= MaxUid
<1>1. SendsDue'
  BY FS_EmptySet DEF PP!Restart, SendsDue
<1>2. KeptSaid'
  BY DEF PP!Restart, PP!noStickers, KeptSaid
<1>3. OpenKnown'
  BY DEF PP!Restart, OpenKnown, tcp
<1> QED
  BY <1>1, <1>2, <1>3 DEF PP!Restart, DevicesKnown

LEMMA CloseKeeps ==
  ASSUME PartsInv, KeptSaid, OpenKnown, DevicesKnown, UNCHANGED sent,
         NEW d \in tcp, PP!SocketClose(d)
  PROVE  SendsDue' /\ KeptSaid' /\ OpenKnown' /\ Len(issued') <= MaxUid
<1>1. /\ conn' = [conn EXCEPT ![d] = "closed"] /\ out' = {}
      /\ UNCHANGED <<stickers, delayed, issued>>
  BY DEF PP!SocketClose
<1>2. /\ d \in Client /\ PP!TypeOK /\ PP!EntriesOwned
      /\ conn \in [Client -> {"open", "destroyed", "closed"}]
  BY DEF tcp, PartsInv, PP!Provenance, PP!TypeOK
<1>3. SendsDue'
  BY <1>1, FS_EmptySet DEF SendsDue
<1>4. OpenKnown'
  <2> SUFFICES ASSUME NEW e \in tcp, NEW uid \in 1 .. Len(issued), conn'[e] = "open",
                      issued[uid] = e
               PROVE  uid \in DOMAIN list'
    BY <1>1 DEF OpenKnown
  <2>1. e # d /\ conn[e] = "open"
    BY <1>1, <1>2 DEF tcp
  <2>2. uid \in DOMAIN list
    BY <2>1 DEF OpenKnown
  <2>3. list[uid].socket = e
    BY <1>2, <2>2 DEF PP!EntriesOwned, itself, PP!TypeOK, PP!Entry
  <2> QED
    BY <1>2, <2>1, <2>2, <2>3, PP!ClosedLeavesOthers, SetUp
<1> QED
  BY <1>1, <1>3, <1>4 DEF KeptSaid, Said, DevicesKnown

\* Whatever the proxy does, its own state stays as it should be.
LEMMA ProxyKeeps ==
  ASSUME Inv, ProxyActs, UNCHANGED deviceVars
  PROVE  /\ Grows /\ PartsInv' /\ DevicesKnown' /\ SentKnown' /\ KeptSaid' /\ SendsDue'
         /\ OutDue' /\ OpenKnown'
<1>1. PartsInv /\ DevicesKnown /\ SentKnown /\ KeptSaid /\ OpenKnown
  BY DEF Inv
<1>2. UNCHANGED <<dev, sent, answered>>
  BY DEF deviceVars
<1>3. /\ PP!TypeOK' /\ PP!Provenance' /\ PP!Addressed'
      /\ Len(issued) \in Nat /\ Len(issued') \in Nat /\ Len(issued) <= Len(issued')
      /\ \A uid \in 1 .. Len(issued) : issued'[uid] = issued[uid]
  BY <1>1, ActsNext, ProxyPartStep DEF PartsInv
<1>4. Grows
  BY <1>2, <1>3 DEF Grows
<1>5. PartsInv'
  BY <1>1, <1>2, <1>3 DEF PartsInv, DD!DeviceTypeOK
<1>6. SentKnown' /\ PP!OutAttributed'
  BY <1>1, <1>2, <1>3, <1>4, SentStays DEF PP!Provenance
<1>7. SendsDue' /\ KeptSaid' /\ OpenKnown' /\ Len(issued') <= MaxUid
  <2>1. ASSUME NEW r \in sent, Answers(r)
        PROVE  SendsDue' /\ KeptSaid' /\ OpenKnown' /\ Len(issued') <= MaxUid
    <3> DEFINE d == r.from
    <3>1. /\ d \in Client /\ r.seq \in 1 .. MaxSeq
          /\ r.type # "register" => r.uid \in PP!Uid /\ issued[r.uid] = d
      BY <1>1, SentFields DEF PartsInv, Given
    <3> HIDE DEF d
    <3>2. CASE r.type = "register" /\ PP!RegisterDevice(d, r.seq)
      BY <1>1, <1>2, <1>4, <3>1, <3>2, RegisterKeeps DEF d
    <3>3. CASE r.type = "ping" /\ PP!RespondToPing(d, r.uid, r.seq)
      BY <1>1, <1>2, <1>4, <3>1, <3>3, PingKeeps DEF d
    <3>4. ASSUME NEW code \in {"DEVICE_NOT_REGISTERED", "PERMISSION_DENIED"},
                 r.type # "register",
                 code = "DEVICE_NOT_REGISTERED" => r.uid \notin DOMAIN list,
                 code = "PERMISSION_DENIED" => r.type = "status" /\ deviceType[d] # "toy",
                 out' \subseteq PP!_send({PP!Error(code, d, r.seq, via) : via \in PP!DeviceType}, conn),
                 UNCHANGED <<list, stickers, delayed, conn, issued>>
          PROVE  SendsDue' /\ KeptSaid' /\ OpenKnown' /\ Len(issued') <= MaxUid
      BY <1>1, <1>2, <1>4, <3>1, <3>4, ErrorsKeep DEF d
    <3>5. CASE r.type = "ping" /\ PP!PingUnknown(d, r.uid, r.seq)
      <4>1. deviceType[itself[d]] \in PP!DeviceType
        BY <3>1, SetUp DEF itself
      <4>2. out' \subseteq PP!_send({PP!Error("DEVICE_NOT_REGISTERED", d, r.seq, via) :
                                     via \in PP!DeviceType}, conn)
        BY <3>5, <4>1 DEF PP!PingUnknown, PP!_send
      <4> QED
        BY <3>4, <3>5, <4>2 DEF PP!PingUnknown
    <3>6. \A code, type : PP!errors(code, d, type, r.seq) \subseteq
                            {PP!Error(code, d, r.seq, via) : via \in PP!DeviceType}
      BY DEF PP!errors, PP!forwardTo, PP!DeviceType
    <3>7. CASE r.type \in Payloads /\ PP!ForwardUnknown(r.type, d, r.uid, r.seq)
      <4>1. out' \subseteq PP!_send({PP!Error("DEVICE_NOT_REGISTERED", d, r.seq, via) :
                                     via \in PP!DeviceType}, conn)
        BY <3>6, <3>7 DEF PP!ForwardUnknown, PP!_send
      <4> QED
        BY <3>4, <3>7, <4>1 DEF PP!ForwardUnknown, Payloads
    <3>8. CASE r.type \in Payloads /\ PP!ForwardDenied(r.type, d, r.uid, r.seq)
      <4>1. out' \subseteq PP!_send({PP!Error("PERMISSION_DENIED", d, r.seq, via) :
                                     via \in PP!DeviceType}, conn)
        BY <3>6, <3>8 DEF PP!ForwardDenied, PP!_send
      <4>2. r.type = "status" /\ deviceType[d] # "toy"
        BY <1>1, <2>1, <3>1, <3>8, DeniedStatus DEF d, Payloads
      <4> QED
        BY <3>4, <3>8, <4>1, <4>2 DEF PP!ForwardDenied, Payloads
    <3>9. CASE r.type \in Payloads /\ PP!ForwardDropped(r.type, d, r.uid, r.seq)
      BY <1>1, <1>2, <3>9, SilenceKeeps DEF PP!ForwardDropped
    <3>10. ASSUME r.type \in Payloads, NEW sticky \in BOOLEAN,
                  PP!Forward(r.type, d, r.uid, r.seq, sticky)
           PROVE  SendsDue' /\ KeptSaid' /\ OpenKnown' /\ Len(issued') <= MaxUid
      <4>1. r.type \in PP!StickyType /\ r.uid \in PP!Uid
        BY <3>1, <3>10 DEF Payloads, PP!StickyType
      <4> QED
        BY <1>1, <1>2, <1>3, <1>4, <1>6, <3>1, <3>10, <4>1, ForwardKeeps
    <3> QED
      BY <2>1, <3>2, <3>3, <3>5, <3>7, <3>8, <3>9, <3>10 DEF Answers, d
  <2>2. CASE PP!SendSticky
    BY <1>1, <1>2, <1>4, <1>6, <2>2, StickyKeeps
  <2>3. CASE PP!Restart
    BY <1>1, <1>2, <2>3, RestartKeeps
  <2>4. ASSUME NEW d \in tcp, PP!SocketClose(d)
        PROVE  SendsDue' /\ KeptSaid' /\ OpenKnown' /\ Len(issued') <= MaxUid
    BY <1>1, <1>2, <2>4, CloseKeeps
  <2> QED
    BY <2>1, <2>2, <2>3, <2>4 DEF ProxyActs
<1>8. DevicesKnown'
  BY <1>1, <1>2, <1>4, <1>7 DEF DevicesKnown, Grows, Given
<1>9. OutDue'
  BY <1>7 DEF SendsDue, OutDue
<1> QED
  BY <1>4, <1>5, <1>6, <1>7, <1>8, <1>9

-----------------------------------------------------------------------------
(* What the proxy sends on the networks. *)

\* What is written to one TCP connection in a step: whole lines of due objects.
LEMMA Written ==
  ASSUME SendsDue', NEW d \in tcp,
         NEW ms, ms = SetToSeq(toSocket(out', d)) \/ ms = << >>,
         NEW packed, packed = [i \in DOMAIN ms |-> packedByProxy(ms[i])]
  PROVE  LET written == stream(packed)
         IN  /\ written \in Seq(Part) /\ InLines(written)
             /\ ms = << >> => written = << >>
             /\ ms # << >> => Len(written) >= 3
             /\ written # << >> => written[1].part = "begin"
             /\ \A i \in 1 .. Len(written) :
                  Due(d, written[i].of)' /\ ~Told(written[i].of)
<1> DEFINE M == toSocket(out', d)
           O == {wire(proxyObject(m)) : m \in M}
           objects == [i \in DOMAIN ms |-> wire(proxyObject(ms[i]))]
           written == stream(packed)
<1>1. d \in Client /\ enable_compression(d) = FALSE
  BY DEF tcp, enable_compression
<1>2. \A m \in M : m \in out' /\ m.socket = d /\ m \in ProxyMessage /\ DueMessage(m)'
  BY DEF toSocket, SendsDue, DueMessage, Due, Given
<1>3. ASSUME NEW o \in O PROVE Due(d, o)' /\ ~Told(o)
  <2>1. PICK m \in M : o = wire(proxyObject(m))
    OBVIOUS
  <2>2. Due(d, o)'
    BY <1>2, <2>1 DEF DueMessage, Due, Given
  <2>3. o.type = m.type /\ (m.type = "error" => o.data.code = m.code)
    BY <1>2, <2>1, ParsedByDevice
  <2>4. ~(m.type = "error" /\ m.code = "DEVICE_NOT_REGISTERED")
    BY <1>2, <2>1 DEF SendsDue
  <2> QED
    BY <2>2, <2>3, <2>4 DEF Told
<1>4. ms \in Seq(M)
  <2>1. IsFiniteSet(M)
    <3>1. IsFiniteSet(out') /\ M \subseteq out'
      BY DEF SendsDue, toSocket
    <3> QED
      BY <3>1, FinitePart
  <2>2. ms = SetToSeq(M) \/ ms = << >>
    OBVIOUS
  <2> HIDE DEF M
  <2>3. SetToSeq(M) \in Seq(M)
    BY <2>1, ToSeq
  <2>4. << >> \in Seq(M)
    OBVIOUS
  <2> DEFINE q == Seq(M)
             all == SetToSeq(M)
  <2>5. (ms = all \/ ms = << >>) /\ all \in q /\ << >> \in q
    BY <2>2, <2>3, <2>4
  <2> HIDE DEF q, all
  <2>6. ms \in q
    BY <2>5
  <2> QED
    BY <2>6 DEF q
<1> HIDE DEF M
<1>5. /\ objects \in Seq(O) /\ DOMAIN objects = DOMAIN ms /\ Len(objects) = Len(ms)
      /\ DOMAIN ms = 1 .. Len(ms) /\ Len(ms) \in Nat
  BY <1>4
<1>6. /\ Len(packed) = Len(objects)
      /\ \A i \in 1 .. Len(objects) : packed[i].parts = line(objects[i])
  <2>1. Len(packed) = Len(ms)
    BY <1>5
  <2>2. ASSUME NEW i \in DOMAIN ms
        PROVE  packedByProxy(ms[i]).parts = line(wire(proxyObject(ms[i])))
    <3>1. ms[i] \in M
      BY <1>4
    <3> QED
      BY <1>1, <1>2, <3>1, ParsedByDevice DEF chunkOf
  <2>3. \A i \in DOMAIN ms : packed[i].parts = line(objects[i])
    BY <2>2
  <2> HIDE DEF objects
  <2> QED
    BY <1>5, <2>1, <2>3
<1> HIDE DEF objects
<1>7. /\ written \in Seq([of : O, part : PartName]) /\ Len(written) = 3 * Len(objects)
      /\ InLines(written) /\ (written # << >> => written[1].part = "begin")
  <2> HIDE DEF O
  <2>1. objects \in Seq(O) /\ Len(packed) = Len(objects)
    BY <1>5, <1>6
  <2> QED
    BY <1>6, <2>1, StreamShape
<1> HIDE DEF written
<1>8. \A i \in 1 .. Len(written) : written[i].of \in O
  <2> DEFINE R == [of : O, part : PartName]
  <2> HIDE DEF O
  <2>1. \A p \in R : p.of \in O
    OBVIOUS
  <2>2. written \in Seq(R)
    BY <1>7
  <2> HIDE DEF R
  <2>3. \A i \in 1 .. Len(written) : written[i] \in R
    BY <2>2
  <2> QED
    BY <2>1, <2>3
<1>9. \A i \in 1 .. Len(written) : Due(d, written[i].of)' /\ ~Told(written[i].of)
  <2> HIDE DEF O
  <2> SUFFICES ASSUME NEW i \in 1 .. Len(written)
               PROVE  Due(d, written[i].of)' /\ ~Told(written[i].of)
    OBVIOUS
  <2>1. PICK o \in O : o = written[i].of
    BY <1>8
  <2> QED
    BY <1>3, <2>1
<1>10. written \in Seq(Part)
  <2>1. O \subseteq {wire(proxyObject(m)) : m \in ProxyMessage}
    BY <1>2
  <2> HIDE DEF O
  <2> DEFINE R == [of : O, part : PartName]
  <2>2. R \subseteq Part /\ written \in Seq(R)
    BY <1>7, <2>1 DEF Part
  <2> HIDE DEF R
  <2>3. Seq(R) \subseteq Seq(Part)
    BY <2>2
  <2> QED
    BY <2>2, <2>3
<1>11. (ms = << >> => written = << >>) /\ (ms # << >> => Len(written) >= 3)
  BY <1>4, <1>5, <1>7
<1> QED
  BY <1>7, <1>9, <1>10, <1>11 DEF written

LEMMA NetworksKeep ==
  ASSUME Inv, Grows, SendsDue', ByProxy
  PROVE  PacketsDue' /\ HeardDue' /\ TcpInv' /\ NobodyTold'
<1>1. PacketsDue /\ HeardDue /\ TcpInv /\ NobodyTold
  BY DEF Inv
<1>2. /\ air' = air \cup UNION {toSocket(out', d) : d \in Client \ tcp}
      /\ UNCHANGED <<dev, heard>>
  BY DEF ByProxy, deviceVars
<1>3. PacketsDue'
  <2>1. ASSUME NEW m \in air' PROVE m.socket \notin tcp /\ DueMessage(m)'
    <3>1. CASE m \in air
      BY <1>1, <3>1, DueMessageStable DEF PacketsDue
    <3>2. CASE m \notin air
      <4>1. PICK d \in Client \ tcp : m \in toSocket(out', d)
        BY <1>2, <2>1, <3>2
      <4>2. m \in out' /\ m.socket = d
        BY <4>1 DEF toSocket
      <4> QED
        BY <4>1, <4>2 DEF SendsDue, DueMessage, Due, Given
    <3> QED
      BY <3>1, <3>2
  <2> QED
    BY <2>1 DEF PacketsDue, DueMessage, Due, Given
<1>4. HeardDue'
  BY <1>1, <1>2, DueStable DEF HeardDue
<1>5. PICK lines :
        /\ lines = [d \in tcp |-> IF dev[d].connected THEN SetToSeq(toSocket(out', d)) ELSE << >>]
        /\ downstream' = [d \in tcp |-> downstream[d] \o
              stream([i \in DOMAIN lines[d] |-> packedByProxy(lines[d][i])])]
        /\ newest' = [d \in tcp |-> IF lines[d] = << >> THEN newest[d] ELSE
              Last(stream([i \in DOMAIN lines[d] |-> packedByProxy(lines[d][i])])).of]
        /\ cut' = [d \in tcp |-> cut[d] /\ lines[d] = << >>]
  BY DEF ByProxy
<1>6. ASSUME NEW d \in tcp
      PROVE  Line(d)' /\ Latest(d)' /\ \A i \in 1 .. Len(downstream'[d]) : ~Told(downstream'[d][i].of)
    <2> DEFINE packed == [i \in DOMAIN lines[d] |-> packedByProxy(lines[d][i])]
               written == stream(packed)
    <2>0. PICK parts, all : parts = downstream[d] /\ all = parts \o written
      OBVIOUS
    <2>1. /\ lines[d] = SetToSeq(toSocket(out', d)) \/ lines[d] = << >>
          /\ downstream'[d] = all
          /\ newest'[d] = IF lines[d] = << >> THEN newest[d] ELSE Last(written).of
          /\ cut'[d] = (cut[d] /\ lines[d] = << >>)
      BY <1>5, <2>0
    <2>2. Line(d) /\ Latest(d) /\ parts \in Seq(Part) /\ InLines(parts)
      BY <1>1, <2>0 DEF TcpInv, Line
    <2>3. /\ written \in Seq(Part) /\ InLines(written)
          /\ lines[d] = << >> => written = << >>
          /\ lines[d] # << >> => Len(written) >= 3
          /\ written # << >> => written[1].part = "begin"
          /\ \A i \in 1 .. Len(written) : Due(d, written[i].of)' /\ ~Told(written[i].of)
      <3>1. lines[d] = SetToSeq(toSocket(out', d)) \/ lines[d] = << >>
        BY <2>1
      <3>2. packed = [i \in DOMAIN lines[d] |-> packedByProxy(lines[d][i])]
        OBVIOUS
      <3> HIDE DEF packed
      <3> QED
        BY <3>1, <3>2, Written
    <2> HIDE DEF packed, written
    <2>4. /\ all \in Seq(Part) /\ Len(all) = Len(parts) + Len(written)
          /\ InLines(all)
          /\ \A i \in 1 .. Len(parts) : all[i] = parts[i]
          /\ \A i \in 1 .. Len(written) : all[Len(parts) + i] = written[i]
      BY <2>0, <2>2, <2>3, ConcatInLines
    <2>5. /\ Len(parts) \in Nat /\ Len(written) \in Nat
          /\ \A i \in 1 .. Len(all) :
               \/ i \in 1 .. Len(parts) /\ all[i] = parts[i]
               \/ i - Len(parts) \in 1 .. Len(written) /\ all[i] = written[i - Len(parts)]
      <3>1. Len(parts) \in Nat /\ Len(written) \in Nat
        BY <2>2, <2>3
      <3>2. ASSUME NEW i \in 1 .. Len(all), i \notin 1 .. Len(parts)
            PROVE  i - Len(parts) \in 1 .. Len(written) /\ all[i] = written[i - Len(parts)]
        <4>1. i - Len(parts) \in 1 .. Len(written) /\ Len(parts) + (i - Len(parts)) = i
          BY <2>4, <3>1, <3>2
        <4> QED
          BY <2>4, <4>1
      <3> QED
        BY <2>4, <3>1, <3>2
    <2>6. \A i \in 1 .. Len(parts) : Due(d, parts[i].of)' /\ ~Told(parts[i].of)
      BY <1>1, <2>0, <2>2, DueStable DEF Line, NobodyTold
    <2>7. \A i \in 1 .. Len(all) : Due(d, all[i].of)' /\ ~Told(all[i].of)
      BY <2>3, <2>5, <2>6
    <2>8. Line(d)'
      <3> SUFFICES ASSUME NEW i \in 1 .. Len(all) PROVE Due(d, downstream[d][i].of)'
        BY <2>1, <2>4 DEF Line
      <3>1. PICK o : o = downstream'[d][i].of /\ Due(d, o)'
        BY <2>1, <2>7
      <3> QED
        BY <3>1 DEF Due, Given
    <2>9. Latest(d)'
      <3>1. CASE lines[d] = << >>
        <4>1. downstream'[d] = downstream[d]
          <5>1. all = parts
            BY <2>0, <2>2, <2>3, <3>1
          <5> QED
            BY <2>0, <2>1, <5>1
        <4>2. newest'[d] = newest[d] /\ cut'[d] = cut[d] /\ heard'[d] = heard[d]
              /\ (dev'[d].connected => dev[d].connected)
          BY <1>1, <1>2, <2>1, <3>1 DEF TcpInv
        <4> QED
          BY <2>2, <4>1, <4>2, LatestStable
      <3>2. CASE lines[d] # << >>
        <4> DEFINE o == written[Len(written)].of
        <4>1. newest'[d] = o /\ Len(written) \in 1 .. Len(written) /\ Len(written) >= 3
          BY <2>1, <2>3, <2>5, <3>2 DEF Last
        <4>2. Len(all) >= 3 /\ all[Len(all)].of = o
          BY <2>4, <2>5, <4>1
        <4>3. Due(d, o)'
          BY <2>3, <4>1
        <4> HIDE DEF o
        <4>4. Due(d, newest[d])'
          BY <4>1, <4>3 DEF Due, Given
        <4> QED
          BY <2>1, <4>1, <4>2, <4>4 DEF Latest
      <3> QED
        BY <3>1, <3>2
    <2> QED
      BY <2>1, <2>7, <2>8, <2>9
<1>7. TcpInv'
  BY <1>5, <1>6 DEF TcpInv
<1>8. NobodyTold'
  BY <1>6 DEF NobodyTold, Told
<1> QED
  BY <1>3, <1>4, <1>7, <1>8

-----------------------------------------------------------------------------
(* The invariant holds. *)

LEMMA InitInv == Init => Inv
<1> SUFFICES ASSUME Init PROVE Inv
  OBVIOUS
<1>1. PP!Init /\ DD!Init
  BY SameInit, SameDevices DEF Init
<1>2. /\ list = << >> /\ stickers = PP!noStickers /\ delayed = << >> /\ out = {}
      /\ issued = << >>
  BY <1>1 DEF PP!Init
<1>3. /\ dev = [d \in Client |-> DD!newDevice(d)]
      /\ sent = {[from |-> d, type |-> "register", uid |-> 0, seq |-> 1] : d \in Client}
  BY <1>1 DEF DD!Init, DD!NoUid
<1>4. PartsInv
  <2>1. PP!TypeOK
    BY <1>1, PP!InitType, SetUp
  <2>2. DD!DeviceTypeOK
    BY <1>1, DD!InitType, DeviceSetUp
  <2>3. PP!EntriesOwned /\ PP!DelayedAttributed /\ PP!OutAttributed /\ PP!Addressed
    BY <1>2 DEF PP!EntriesOwned, PP!DelayedAttributed, PP!OutAttributed, PP!Addressed
  <2>4. PP!StickersAuthored
    BY <1>2 DEF PP!noStickers, PP!StickersAuthored
  <2> QED
    BY <2>1, <2>2, <2>3, <2>4 DEF PartsInv, PP!Provenance
<1>5. DevicesKnown
  <2>1. \A d \in Client : dev[d].uid = 0
    BY <1>3 DEF DD!newDevice, DD!NoUid
  <2> QED
    BY <1>2, <2>1, BoundsAssumption DEF DevicesKnown
<1>6. SentKnown
  BY <1>3 DEF SentKnown, MessageType
<1>7. KeptSaid
  BY <1>2 DEF KeptSaid, PP!noStickers
<1>8. OutDue
  BY <1>2, FS_EmptySet DEF OutDue
<1>9. PacketsDue /\ HeardDue
  BY DEF Init, PacketsDue, HeardDue
<1>10. UpstreamSent
  <2> DEFINE first(d) == {m \in sent : m.from = d}
  <2>1. upstream = [d \in tcp |-> SetToSeq(first(d))]
    BY DEF Init
  <2>2. ASSUME NEW d \in tcp PROVE SetToSeq(first(d)) \in Seq(first(d))
    <3> DEFINE one == {[from |-> d, type |-> "register", uid |-> 0, seq |-> 1]}
    <3>1. first(d) \subseteq one
      BY <1>3
    <3>2. IsFiniteSet(one)
      BY FS_Singleton
    <3> HIDE DEF first, one
    <3> QED
      BY <3>1, <3>2, FinitePart, ToSeq
  <2>3. ASSUME NEW d \in tcp PROVE upstream[d] \in Seq(first(d))
    <3> HIDE DEF first
    <3> QED
      BY <2>1, <2>2
  <2>4. upstream = [d \in tcp |-> upstream[d]]
    <3> HIDE DEF first
    <3> QED
      BY <2>1
  <2> QED
    BY <2>3, <2>4 DEF UpstreamSent
<1>11. TcpInv /\ NobodyTold
  <2>1. /\ downstream = [d \in tcp |-> << >>] /\ newest = [d \in tcp |-> NoMessage]
        /\ heard = [d \in Client |-> NoMessage] /\ cut = [d \in tcp |-> FALSE]
    BY DEF Init
  <2>2. ASSUME NEW d \in tcp PROVE Line(d) /\ Latest(d)
    <3>1. d \in Client /\ downstream[d] = << >> /\ newest[d] = NoMessage /\ heard[d] = NoMessage
      BY <2>1 DEF tcp
    <3> QED
      BY <3>1 DEF Line, Latest, InLines
  <2>3. NobodyTold
    BY <2>1 DEF NobodyTold
  <2> QED
    BY <2>1, <2>2, <2>3 DEF TcpInv
<1>12. OpenKnown
  BY <1>2 DEF OpenKnown
<1> QED
  BY <1>4, <1>5, <1>6, <1>7, <1>8, <1>9, <1>10, <1>11, <1>12 DEF Inv

\* A step of a device leads to the invariant again, a step of the proxy too.
LEMMA DeviceStepInv ==
  ASSUME Inv, NEW d \in Client, DeviceActs(d), ByDevice, HeardInv'
  PROVE  Inv'
BY DeviceKeeps DEF Inv, HeardInv

LEMMA ProxyStepInv ==
  ASSUME Inv, ProxyActs, ByProxy, UpstreamSent'
  PROVE  Inv'
<1>1. UNCHANGED deviceVars
  BY DEF ByProxy
<1>2. /\ Grows /\ PartsInv' /\ DevicesKnown' /\ SentKnown' /\ KeptSaid' /\ SendsDue'
      /\ OutDue' /\ OpenKnown'
  BY <1>1, ProxyKeeps
<1> QED
  BY <1>2, NetworksKeep DEF Inv

\* What a step of the system is to the proxy
Parted ==
  ProxyActs \/ UNCHANGED <<list, stickers, delayed, conn, mode, out, issued, high>>

\* A line that is read from a connection leaves what the device has sent after it.
LEMMA UpstreamRead ==
  ASSUME UpstreamSent, NEW d \in tcp, upstream[d] # << >>,
         upstream' = [upstream EXCEPT ![d] = Tail(@)], sent' = sent
  PROVE  /\ UpstreamSent'
         /\ Head(upstream[d]) \in sent /\ Head(upstream[d]).from = d
<1> DEFINE mine == {m \in sent : m.from = d}
<1>1. upstream[d] \in Seq(mine) /\ upstream = [e \in tcp |-> upstream[e]]
  BY DEF UpstreamSent
<1>2. Head(upstream[d]) \in mine /\ Tail(upstream[d]) \in Seq(mine)
  <2> HIDE DEF mine
  <2> QED
    BY <1>1
<1>3. ASSUME NEW e \in tcp PROVE upstream'[e] \in Seq({m \in sent : m.from = e})
  <2>1. CASE e = d
    BY <1>1, <1>2, <2>1
  <2>2. CASE e # d
    BY <1>1, <2>2 DEF UpstreamSent
  <2> QED
    BY <2>1, <2>2
<1>4. upstream' = [e \in tcp |-> upstream'[e]]
  BY <1>1
<1> QED
  BY <1>2, <1>3, <1>4 DEF UpstreamSent

\* What nobody but the networks' upstream takes part in keeps the invariant.
LEMMA QuietInv ==
  ASSUME Inv, UpstreamSent',
         UNCHANGED <<list, stickers, delayed, conn, mode, out, issued, high>>,
         UNCHANGED <<dev, sent, answered, air, downstream, heard, newest, cut>>
  PROVE  Inv'
<1>1. PartsInv' /\ Grows
  <2>1. UNCHANGED PP!vars
    BY DEF PP!vars
  <2>2. DD!DeviceTypeOK'
    BY DEF Inv, PartsInv, DD!DeviceTypeOK
  <2> QED
    BY <2>1, <2>2, ProxyPartStep DEF Inv, PartsInv, Grows
<1>2. DevicesKnown' /\ SentKnown' /\ KeptSaid' /\ OpenKnown' /\ NobodyTold'
  BY DEF Inv, DevicesKnown, SentKnown, KeptSaid, Said, OpenKnown, NobodyTold, Told, Given
<1>3. OutDue' /\ PacketsDue' /\ HeardDue'
  BY <1>1, DueMessageStable, DueStable DEF Inv, OutDue, PacketsDue, HeardDue
<1>4. \A d \in tcp : Line(d)' /\ Latest(d)'
  BY <1>1, LineStable, LatestStable DEF Inv, TcpInv
<1>5. TcpInv'
  BY <1>4 DEF Inv, TcpInv
<1> QED
  BY <1>1, <1>2, <1>3, <1>5 DEF Inv

LEMMA StepInv == Inv /\ [Next]_vars => Inv' /\ Parted
<1> SUFFICES ASSUME Inv, [Next]_vars PROVE Inv' /\ Parted
  OBVIOUS
<1>1. ASSUME NEW d \in Client, DeviceStep(d) \/ ReceivePacket(d) PROVE Inv' /\ Parted
  BY <1>1, StepUnheard, PacketHeard, DeviceStepInv DEF Parted, ByDevice
<1>2. ASSUME NEW d \in tcp, ReceiveChunk(d) \/ ConnectionLost(d) PROVE Inv' /\ Parted
  <2>1. d \in Client
    BY DEF tcp
  <2> QED
    BY <1>2, <2>1, ChunkHeard, LostUnheard, DeviceStepInv DEF Parted, ByDevice
<1>3. ASSUME NEW d \in Client, PacketArrives(d) PROVE Inv' /\ Parted
  <2>1. PICK r \in sent : r.from = d /\ Arrives(r.from, parsedByProxy(r))
    BY <1>3 DEF PacketArrives
  <2>2. ByProxy /\ upstream' = upstream /\ UNCHANGED deviceVars
    BY <1>3 DEF PacketArrives, ByProxy
  <2>3. ProxyActs
    BY <2>1, ArrivesAnswers DEF ProxyActs
  <2>4. UpstreamSent'
    BY <2>2 DEF Inv, UpstreamSent, deviceVars
  <2> QED
    BY <2>2, <2>3, <2>4, ProxyStepInv DEF Parted
<1>4. ASSUME NEW d \in tcp, LineArrives(d) PROVE Inv' /\ Parted
  <2>1. /\ upstream[d] # << >> /\ UpstreamSent
        /\ upstream' = [upstream EXCEPT ![d] = Tail(@)]
        /\ Arrives(d, parsedByProxy(Head(upstream[d])))
        /\ ByProxy /\ sent' = sent
    BY <1>4 DEF LineArrives, ByProxy, deviceVars, Inv
  <2>2. UpstreamSent' /\ Head(upstream[d]) \in sent /\ Head(upstream[d]).from = d
    BY <2>1, UpstreamRead
  <2>3. ProxyActs
    BY <2>1, <2>2, ArrivesAnswers DEF ProxyActs
  <2> QED
    BY <2>1, <2>2, <2>3, ProxyStepInv DEF Parted
<1>7. ASSUME NEW d \in tcp, LineRefused(d) PROVE Inv' /\ Parted
  <2>1. /\ upstream[d] # << >> /\ UpstreamSent
        /\ upstream' = [upstream EXCEPT ![d] = Tail(@)]
        /\ UNCHANGED <<list, stickers, delayed, conn, mode, out, issued, high>>
        /\ UNCHANGED <<dev, sent, answered, air, downstream, heard, newest, cut>>
    BY <1>7 DEF LineRefused, deviceVars, Inv
  <2>2. UpstreamSent'
    BY <2>1, UpstreamRead
  <2> QED
    BY <2>1, <2>2, QuietInv DEF Parted
<1>5. ASSUME ProxyStep PROVE Inv' /\ Parted
  <2>1. ByProxy /\ upstream' = upstream /\ UNCHANGED deviceVars
    BY <1>5 DEF ProxyStep, ByProxy
  <2>2. UpstreamSent'
    BY <2>1 DEF Inv, UpstreamSent, deviceVars
  <2> QED
    BY <1>5, <2>1, <2>2, ProxyStepActs, ProxyStepInv DEF Parted
<1>6. ASSUME UNCHANGED vars PROVE Inv' /\ Parted
  <2>1. /\ UNCHANGED <<list, stickers, delayed, conn, mode, out, issued, high>>
        /\ UNCHANGED <<dev, sent, answered, air, downstream, heard, newest, cut>>
        /\ upstream' = upstream /\ UpstreamSent
    BY <1>6 DEF vars, deviceVars, Inv
  <2>2. UpstreamSent'
    BY <2>1 DEF UpstreamSent
  <2> QED
    BY <2>1, <2>2, QuietInv DEF Parted
<1> QED
  BY <1>1, <1>2, <1>3, <1>4, <1>5, <1>6, <1>7 DEF Next

LEMMA Invariant == Spec => []Inv
<1>1. Inv /\ [Next]_vars => Inv'
  BY StepInv
<1> QED
  BY InitInv, <1>1, PTL DEF Spec

-----------------------------------------------------------------------------
(* Theorems. *)

\* A device only has, and only sends, uids the proxy gave to itself, whatever is
\* late, repeated, retried, evicted or restarted (Device, registerResponseHandler
\* and registerDevice() of Proxy): Proxy assumes this of its clients.
THEOREM OwnUidUsed == Spec => []UsesOwnUid
<1>1. Inv => UsesOwnUid
  BY DEF Inv, DevicesKnown, SentKnown, UsesOwnUid, Given, D!NoUid
<1> QED
  BY <1>1, Invariant, PTL

\* All that is under way to a device answers something it has sent, or is a status
\* or command, and a denied message is one that isAllowedAction() refuses rightly:
\* ClientDevice assumes this of its proxy.
THEOREM OnlyAnswers == Spec => []AnswersSolicited
<1>1. Inv => AnswersSolicited
  <2> SUFFICES ASSUME Inv, NEW d \in Client, NEW msgObj \in UnderWay(d),
                      msgObj.type \notin Payloads
               PROVE  \E m \in sent : m.from = d /\ m.seq = msgObj.seq /\ mayBeAnswer(msgObj, m)
    BY DEF AnswersSolicited
  <2>1. PICK o : Due(d, o) /\ o.type = msgObj.type /\ o.seq = msgObj.seq /\ o.data = msgObj.data
    <3>1. CASE d \in tcp
      <4>1. Line(d) /\ \E i \in DOMAIN downstream[d] : msgObj = downstream[d][i].of
        BY <3>1 DEF Inv, TcpInv, UnderWay
      <4>2. DOMAIN downstream[d] = 1 .. Len(downstream[d])
        BY <4>1 DEF Line
      <4> QED
        BY <4>1, <4>2 DEF Line
    <3>2. CASE d \notin tcp
      <4>1. PICK m \in air : m.socket = d /\ msgObj = proxyObject(m)
        BY <3>2 DEF UnderWay
      <4>2. m \in ProxyMessage /\ Due(d, wire(msgObj))
        BY <4>1 DEF Inv, PacketsDue, DueMessage
      <4> QED
        BY <4>1, <4>2, ParsedByDevice
    <3> QED
      BY <3>1, <3>2
  <2> QED
    BY <2>1 DEF Due, Payloads, mayBeAnswer
<1> QED
  BY <1>1, Invariant, PTL

\* Whatever packOutgoingMessage() makes of what one side has just sent is accepted by
\* parseIncomingMessage() of the other side, under any uid, with compression or without,
\* but for a payload without data, and for wide text where it is cut to bytes.
THEOREM PackedIsAccepted == Spec => []OnlyTextRefused
<1>1. Inv => OnlyTextRefused
  <2> SUFFICES ASSUME Inv PROVE OnlyTextRefused
    OBVIOUS
  <2>1. ASSUME NEW m \in sent PROVE parsedByProxy(m) = Corrupt <=> Refused(m)
    <3>1. /\ m.type \in MessageType /\ m.seq \in 1 .. MaxSeq /\ m.uid \in Nat
          /\ m.from \in Client /\ (m.type # "register" => m.uid # 0)
      BY SentFields DEF Inv, PartsInv
    <3> QED
      BY <3>1, ParsedByProxy DEF MessageType
  <2>2. ASSUME NEW m \in out
        PROVE  parseIncomingMessage(packedByProxy(m), enable_compression(m.socket)) = Corrupt
                 <=> Misread(m)
    <3>1. m \in ProxyMessage
      BY DEF Inv, OutDue, DueMessage
    <3> QED
      BY <3>1, ParsedByDevice DEF Accepted
  <2> QED
    BY <2>1, <2>2 DEF OnlyTextRefused, Refused, Misread
<1> QED
  BY <1>1, Invariant, PTL

\* From end to end: a status or command a device handles is meant for its type, and
\* a device of its channel entitled to it has sent it under the uid it carries, be
\* it relayed, repeated as a sticky message, read from a torn chunk or late.
THEOREM HeardOnlyWhatWasSaid == Spec => []HeardWasSaid
<1>1. Inv => HeardWasSaid
  BY DEF Inv, HeardDue, Due, HeardWasSaid, P!forwardTo, PP!forwardTo, P!senderType,
       PP!senderType
<1> QED
  BY <1>1, Invariant, PTL

\* However the lines of a TCP connection are cut into chunks, of which only the last
\* line is parsed, a device that has read all of them has handled the newest one,
\* unless that one was read in two pieces.
THEOREM NewestIsHeard == Spec => []NewestHeard
<1>1. Inv => NewestHeard
  BY DEF Inv, TcpInv, Latest, NewestHeard
<1> QED
  BY <1>1, Invariant, PTL

\* A device whose TCP connection is open is known to the proxy: evictions, restarts
\* and 'socket-close' end the connection along with the entry.
THEOREM OnlyUdpIsTold == Spec => []ToldOnlyOverUdp
<1>1. Inv => ToldOnlyOverUdp
  <2> SUFFICES ASSUME Inv, NEW d \in tcp, NEW msgObj \in UnderWay(d)
               PROVE  msgObj.type = "error" => msgObj.data.code # "DEVICE_NOT_REGISTERED"
    BY DEF ToldOnlyOverUdp
  <2>1. Line(d) /\ \E i \in DOMAIN downstream[d] : msgObj = downstream[d][i].of
    BY DEF Inv, TcpInv, UnderWay
  <2>2. DOMAIN downstream[d] = 1 .. Len(downstream[d])
    BY <2>1 DEF Line
  <2> QED
    BY <2>1, <2>2 DEF Inv, NobodyTold, Told
<1> QED
  BY <1>1, Invariant, PTL

-----------------------------------------------------------------------------
(* The system implements what its proxy implements. *)

LEMMA StepOfProxy == Inv /\ [Next]_vars => [P!Next]_(P!vars)
<1> SUFFICES ASSUME Inv, [Next]_vars PROVE P!Next \/ UNCHANGED P!vars
  OBVIOUS
<1>1. Parted
  BY StepInv
<1>2. CASE ProxyActs
  BY <1>2, ActsNext, SameNext
<1>3. CASE UNCHANGED <<list, stickers, delayed, conn, mode, out, issued, high>>
  BY <1>3 DEF P!vars
<1> QED
  BY <1>1, <1>2, <1>3 DEF Parted

\* In the system the proxy does what Proxy says: its clients never send what Proxy
\* does not let them send.
LEMMA ActsAsProxy == Spec => P!Spec
<1>1. Init => P!Init
  BY DEF Init
<1> QED
  BY <1>1, Invariant, StepOfProxy, PTL DEF Spec, P!Spec

\* The system, where channels are strings, implements Channels: devices that register
\* themselves, over networks that lose, repeat and reorder, join, replace each other,
\* tell and remind each other as the abstract specification allows.
THEOREM SystemKeepsPromise == Spec => P!KeepsPromise
<1>1. \A c, e \in Channel : ownKey[c] = ownKey[e] => c = e
  BY DEF ownKey
<1>2. PP!Spec => PP!KeepsPromise
  BY <1>1, PP!ProxyKeepsPromise, SetUp
<1>3. P!Init <=> PP!Init
  BY SameInit
<1>4. [P!Next]_(P!vars) <=> [PP!Next]_(PP!vars)
  BY SameNext DEF P!vars, PP!vars
<1> QED
  BY <1>2, <1>3, <1>4, ActsAsProxy, SamePromise, PTL
     DEF P!Spec, PP!Spec, P!KeepsPromise, PP!KeepsPromise, P!Promise!ChannelsSpec,
         PP!Promise!ChannelsSpec
=============================================================================
