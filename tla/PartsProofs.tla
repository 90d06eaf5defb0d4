-------------------------------- MODULE PartsProofs --------------------------------
(***************************************************************************)
(* What the proofs about the whole system need of its parts: the theorems  *)
(* of the parts hold of the instances in WebRemoteControl, and the objects *)
(* the parts exchange are what the other side gets.                        *)
(***************************************************************************)
EXTENDS WebRemoteControl, MessageFormatProofs

\* The same instances as P and D, with the proofs about them
PP == INSTANCE RelayProofs WITH
  Device <- Client, Socket <- Client, peer <- itself, Key <- Channel, channelKey <- ownKey,
  onlyOneControllerPerChannel <- proxySettings.onlyOneControllerPerChannel,
  onlyOneToyPerChannel <- proxySettings.onlyOneToyPerChannel,
  allowObservers <- proxySettings.allowObservers,
  SeqNum <- 1 .. MaxSeq, uses <- anyUse

DD == INSTANCE ClientDeviceProofs WITH
  errorListener <- Client, misread <- Client, closers <- {}, MaxPings <- 0

-----------------------------------------------------------------------------
(* The assumptions of the parts. *)

LEMMA SetUp ==
  /\ /\ proxySettings.onlyOneControllerPerChannel \in BOOLEAN
     /\ proxySettings.onlyOneToyPerChannel \in BOOLEAN
     /\ proxySettings.allowObservers \in BOOLEAN
  /\ ownKey \in [Channel -> Channel]
  /\ /\ itself \in [Client -> Client]
     /\ deviceType \in [Client -> PP!DeviceType]
     /\ channel \in [Client -> Channel]
     /\ protocol \in [Client -> {"udp4", "tcp", "socketio"}]
     /\ \A s, t \in Client : protocol[s] = "tcp" /\ itself[s] = itself[t] => s = t
  /\ /\ 1 .. MaxSeq \subseteq Nat \ {0}
     /\ anyUse \in [1 .. MaxSeq -> SUBSET {"register", "ping", "payload"}]
     /\ MaxUid \in Nat
     /\ MaxDelayed \in Nat
<1>1. /\ proxySettings.onlyOneControllerPerChannel \in BOOLEAN
     /\ proxySettings.onlyOneToyPerChannel \in BOOLEAN
     /\ proxySettings.allowObservers \in BOOLEAN
  BY SettingsAssumption
<1>2. ownKey \in [Channel -> Channel] /\ itself \in [Client -> Client]
  BY DEF ownKey, itself
<1>3. deviceType \in [Client -> PP!DeviceType]
  BY SettingsAssumption DEF PP!DeviceType, deviceType, settingsOf, S!init, S!chosen
<1>4. channel \in [Client -> Channel]
  BY SettingsAssumption
<1>5. protocol \in [Client -> {"udp4", "tcp", "socketio"}]
  BY NetworkAssumption DEF protocol
<1>6. \A s, t \in Client : protocol[s] = "tcp" /\ itself[s] = itself[t] => s = t
  BY DEF itself
<1>7. /\ 1 .. MaxSeq \subseteq Nat \ {0}
     /\ anyUse \in [1 .. MaxSeq -> SUBSET {"register", "ping", "payload"}]
     /\ MaxUid \in Nat
     /\ MaxDelayed \in Nat
  BY BoundsAssumption DEF anyUse
<1> QED BY <1>1, <1>2, <1>3, <1>4, <1>5, <1>6, <1>7


LEMMA DeviceSetUp ==
  /\ /\ keepalive \subseteq Client
     /\ Client \subseteq Client
     /\ tcp \subseteq Client
     /\ Client \subseteq Client
     /\ {} \subseteq Client
     /\ deviceType \in [Client -> {"toy", "controller", "observer"}]
  /\ MaxSeq \in Nat \ {0} /\ 0 \in Nat /\ MaxUid \in Nat
<1>1. deviceType \in [Client -> {"toy", "controller", "observer"}]
  BY SetUp DEF PP!DeviceType
<1> QED
  BY <1>1, BoundsAssumption DEF keepalive, tcp

-----------------------------------------------------------------------------
(* The actions of the instances. *)

LEMMA SameRegister ==
  ASSUME NEW d, NEW seq
  PROVE  P!RegisterDevice(d, seq) <=> PP!RegisterDevice(d, seq)
BY
   DEF P!RegisterDevice, PP!RegisterDevice, P!Receives, PP!Receives, P!validDeviceType,
       PP!validDeviceType, P!superseded, PP!superseded, P!exclusive, PP!exclusive,
       P!findByDeviceTypeAndChannel, PP!findByDeviceTypeAndChannel, P!onChannel,
       PP!onChannel, P!lastMatch, PP!lastMatch, P!Max, PP!Max, P!NoUid, PP!NoUid, P!add,
       PP!add, P!remove, PP!remove, P!Restrict, PP!Restrict, P!close, PP!close, P!_send,
       PP!_send, P!Reply, PP!Reply, P!stickyFor, PP!stickyFor, P!stickyTypeFor,
       PP!stickyTypeFor, P!get, PP!get, P!NoSticky, PP!NoSticky, P!Payload, PP!Payload

LEMMA SameRespond ==
  ASSUME NEW d, NEW uid, NEW seq
  PROVE  P!RespondToPing(d, uid, seq) <=> PP!RespondToPing(d, uid, seq)
BY
   DEF P!RespondToPing, PP!RespondToPing, P!Sends, PP!Sends, P!Receives, PP!Receives,
       P!update, PP!update, P!_send, PP!_send, P!Reply, PP!Reply

LEMMA SamePingUnknown ==
  ASSUME NEW d, NEW uid, NEW seq
  PROVE  P!PingUnknown(d, uid, seq) <=> PP!PingUnknown(d, uid, seq)
BY
   DEF P!PingUnknown, PP!PingUnknown, P!Sends, PP!Sends, P!Receives, PP!Receives,
       P!_send, PP!_send, P!Error, PP!Error, P!NoUid, PP!NoUid

LEMMA SameUnknown ==
  ASSUME NEW type, NEW d, NEW uid, NEW seq
  PROVE  P!ForwardUnknown(type, d, uid, seq) <=> PP!ForwardUnknown(type, d, uid, seq)
BY
   DEF P!ForwardUnknown, PP!ForwardUnknown, P!Sends, PP!Sends, P!Receives, PP!Receives,
       P!_send, PP!_send, P!errors, PP!errors, P!Error, PP!Error, P!forwardTo,
       PP!forwardTo, P!NoUid, PP!NoUid

LEMMA SameDenied ==
  ASSUME NEW type, NEW d, NEW uid, NEW seq
  PROVE  P!ForwardDenied(type, d, uid, seq) <=> PP!ForwardDenied(type, d, uid, seq)
BY
   DEF P!ForwardDenied, PP!ForwardDenied, P!Sends, PP!Sends, P!Receives, PP!Receives,
       P!isAllowedAction, PP!isAllowedAction, P!_send, PP!_send, P!errors, PP!errors,
       P!Error, PP!Error, P!forwardTo, PP!forwardTo, P!NoUid, PP!NoUid

LEMMA SameDropped ==
  ASSUME NEW type, NEW d, NEW uid, NEW seq
  PROVE  P!ForwardDropped(type, d, uid, seq) <=> PP!ForwardDropped(type, d, uid, seq)
BY
   DEF P!ForwardDropped, PP!ForwardDropped, P!Sends, PP!Sends, P!Receives, PP!Receives,
       P!isAllowedAction, PP!isAllowedAction, P!isLatestSeqNum, PP!isLatestSeqNum

LEMMA SameForward ==
  ASSUME NEW type, NEW d, NEW uid, NEW seq, NEW sticky
  PROVE  P!Forward(type, d, uid, seq, sticky) <=> PP!Forward(type, d, uid, seq, sticky)
BY
   DEF P!Forward, PP!Forward, P!Sends, PP!Sends, P!Receives, PP!Receives,
       P!isAllowedAction, PP!isAllowedAction, P!isLatestSeqNum, PP!isLatestSeqNum,
       P!update, PP!update, P!_send, PP!_send, P!copies, PP!copies, P!Payload,
       PP!Payload, P!getAll, PP!getAll, P!onChannel, PP!onChannel, P!validDeviceType,
       PP!validDeviceType, P!forwardTo, PP!forwardTo, P!set, PP!set

LEMMA SameSticky ==
  P!SendSticky <=> PP!SendSticky
BY
   DEF P!SendSticky, PP!SendSticky, P!_send, PP!_send

LEMMA SameRestart ==
  P!Restart <=> PP!Restart
BY
   DEF P!Restart, PP!Restart, P!noStickers, PP!noStickers, P!StickyType, PP!StickyType,
       P!NoSticky, PP!NoSticky

LEMMA SameClose ==
  ASSUME NEW d
  PROVE  P!SocketClose(d) <=> PP!SocketClose(d)
BY
   DEF P!SocketClose, PP!SocketClose, P!removeBySocketId, PP!removeBySocketId,
       P!findBySocketId, PP!findBySocketId, P!lastMatch, PP!lastMatch, P!Max, PP!Max,
       P!NoUid, PP!NoUid, P!remove, PP!remove, P!Restrict, PP!Restrict

LEMMA SameRefused ==
  ASSUME NEW d
  PROVE  P!RegisterRefused(d) <=> PP!RegisterRefused(d)
BY
   DEF P!RegisterRefused, PP!RegisterRefused, P!Receives, PP!Receives, P!validDeviceType,
       PP!validDeviceType

LEMMA SameStop ==
  P!Close <=> PP!Close
BY
   DEF P!Close, PP!Close

LEMMA SameNext ==
  P!Next <=> PP!Next
<1>1. P!Uid = PP!Uid /\ P!StickyType = PP!StickyType
  BY DEF P!Uid, PP!Uid, P!StickyType, PP!StickyType
<1> QED
  BY <1>1, SameRegister, SameRespond, SamePingUnknown, SameUnknown, SameDenied, SameDropped,
     SameForward, SameSticky, SameRestart, SameClose, SameRefused, SameStop
     DEF P!Next, PP!Next

LEMMA SameInit ==
  P!Init <=> PP!Init
BY
   DEF P!Init, PP!Init, P!noStickers, PP!noStickers, P!StickyType, PP!StickyType,
       P!NoSticky, PP!NoSticky


LEMMA SameSend ==
  ASSUME NEW d, NEW type
  PROVE  D!Send(d, type) <=> DD!Send(d, type)
BY
   DEF D!Send, DD!Send, D!running, DD!running, D!mayCount, DD!mayCount, D!messages, DD!messages, D!maySend,
       DD!maySend, D!Message, DD!Message, D!NoUid, DD!NoUid, D!sending, DD!sending

LEMMA SameKeepalive ==
  ASSUME NEW d
  PROVE  D!KeepaliveTimer(d) <=> DD!KeepaliveTimer(d)
BY
   DEF D!KeepaliveTimer, DD!KeepaliveTimer, D!PingUnheard, DD!PingUnheard, D!running,
       DD!running, D!mayCount, DD!mayCount, D!messages,
       DD!messages, D!maySend, DD!maySend, D!Message, DD!Message, D!NoUid, DD!NoUid,
       D!sending, DD!sending, D!addPing, DD!addPing, D!NoCallback, DD!NoCallback

LEMMA SameRecheck ==
  ASSUME NEW d
  PROVE  D!RecheckTimer(d) <=> DD!RecheckTimer(d)
BY
   DEF D!RecheckTimer, DD!RecheckTimer, D!mayCount, DD!mayCount, D!registerMessages,
       DD!registerMessages, D!messages, DD!messages, D!maySend, DD!maySend, D!Message,
       DD!Message, D!NoUid, DD!NoUid, D!registering, DD!registering, D!sending,
       DD!sending

LEMMA SameReceiveRegister ==
  ASSUME NEW d, NEW uid
  PROVE  D!ReceiveRegister(d, uid) <=> DD!ReceiveRegister(d, uid)
BY
   DEF D!ReceiveRegister, DD!ReceiveRegister, D!Listening, DD!Listening, D!NoUid,
       DD!NoUid

LEMMA SameReceivePing ==
  ASSUME NEW d, NEW seq
  PROVE  D!ReceivePing(d, seq) <=> DD!ReceivePing(d, seq)
BY
   DEF D!ReceivePing, DD!ReceivePing, D!Listening, DD!Listening, D!hasSent, DD!hasSent,
       D!endPing, DD!endPing, D!CallbackCloses, DD!CallbackCloses, D!calling, DD!calling,
       D!callbacks, DD!callbacks, D!NoCallback, DD!NoCallback, D!removePing, DD!removePing,
       D!Restrict, DD!Restrict

LEMMA SameNotRegistered ==
  ASSUME NEW d
  PROVE  D!ReceiveNotRegistered(d) <=> DD!ReceiveNotRegistered(d)
BY
   DEF D!ReceiveNotRegistered, DD!ReceiveNotRegistered, D!Listening, DD!Listening,
       D!hasSent, DD!hasSent, D!mayCount, DD!mayCount, D!registerMessages,
       DD!registerMessages, D!messages, DD!messages, D!maySend, DD!maySend, D!Message,
       DD!Message, D!NoUid, DD!NoUid, D!registering, DD!registering, D!sending,
       DD!sending, D!raising, DD!raising, D!closing, DD!closing, D!noPings, DD!noPings,
       D!NoCallback, DD!NoCallback

LEMMA SameOtherError ==
  ASSUME NEW d
  PROVE  D!ReceiveOtherError(d) <=> DD!ReceiveOtherError(d)
BY
   DEF D!ReceiveOtherError, DD!ReceiveOtherError, D!Listening, DD!Listening, D!hasSent,
       DD!hasSent, D!raising, DD!raising, D!closing, DD!closing, D!noPings, DD!noPings,
       D!NoCallback, DD!NoCallback, D!NoUid, DD!NoUid

LEMMA SameLost ==
  ASSUME NEW d
  PROVE  D!ConnectionLost(d) <=> DD!ConnectionLost(d)
BY
   DEF D!ConnectionLost, DD!ConnectionLost

LEMMA SameDevices ==
  D!Init <=> DD!Init
BY
   DEF D!Init, DD!Init, D!newDevice, DD!newDevice, D!noPings, DD!noPings, D!NoCallback,
       DD!NoCallback, D!NoUid, DD!NoUid

-----------------------------------------------------------------------------
(* What the proxy promises (Channels), through either instance. *)

LEMMA SameRivals ==
  ASSUME NEW d
  PROVE  P!Promise!rivals(d) = PP!Promise!rivals(d)
BY DEF P!Promise!rivals, PP!Promise!rivals, P!exclusive, PP!exclusive, P!DeviceType, PP!DeviceType

LEMMA SameDeliveries == P!deliveries = PP!deliveries
BY DEF P!deliveries, PP!deliveries, P!StickyType, PP!StickyType

LEMMA SameDeliveriesNext == P!deliveries' = PP!deliveries'
BY DEF P!deliveries, PP!deliveries, P!StickyType, PP!StickyType

LEMMA SameSpoken == P!Uid = PP!Uid /\ P!Uid' = PP!Uid'
BY DEF P!Uid, PP!Uid

LEMMA SamePromise ==
  /\ P!Promise!ChannelsInit <=> PP!Promise!ChannelsInit
  /\ [P!Promise!ChannelsNext]_(P!Promise!chanVars) <=> [PP!Promise!ChannelsNext]_(PP!Promise!chanVars)
<1>1. P!Promise!ChannelsInit <=> PP!Promise!ChannelsInit
  BY SameDeliveries, SameSpoken DEF P!Promise!ChannelsInit, PP!Promise!ChannelsInit
<1>2. P!Promise!chanVars' = P!Promise!chanVars <=> PP!Promise!chanVars' = PP!Promise!chanVars
  BY SameDeliveries, SameDeliveriesNext, SameSpoken DEF P!Promise!chanVars, PP!Promise!chanVars
<1>3. \A d : P!Promise!Join(d) <=> PP!Promise!Join(d)
  BY SameDeliveriesNext, SameRivals, SameSpoken DEF P!Promise!Join, PP!Promise!Join
<1>4. \A u : P!Promise!Leave(u) <=> PP!Promise!Leave(u)
  BY SameDeliveriesNext, SameSpoken DEF P!Promise!Leave, PP!Promise!Leave
<1>5. P!Promise!Forget <=> PP!Promise!Forget
  BY SameDeliveriesNext, SameSpoken DEF P!Promise!Forget, PP!Promise!Forget
<1>6. P!Promise!Pause <=> PP!Promise!Pause
  BY SameDeliveriesNext, SameSpoken DEF P!Promise!Pause, PP!Promise!Pause
<1>7. \A u, type : P!Promise!Tell(u, type) <=> PP!Promise!Tell(u, type)
  BY SameDeliveriesNext, SameSpoken
     DEF P!Promise!Tell, PP!Promise!Tell, P!Promise!maySpeak, PP!Promise!maySpeak,
         P!Promise!mayHear, PP!Promise!mayHear, P!Promise!sameChannel, PP!Promise!sameChannel
<1>8. \A u, v, type : P!Promise!Remind(u, v, type) <=> PP!Promise!Remind(u, v, type)
  BY SameDeliveriesNext, SameSpoken
     DEF P!Promise!Remind, PP!Promise!Remind, P!Promise!maySpeak, PP!Promise!maySpeak,
         P!Promise!mayHear, PP!Promise!mayHear, P!Promise!sameChannel, PP!Promise!sameChannel
<1>9. P!Promise!Member = PP!Promise!Member
  BY DEF P!Promise!Member, PP!Promise!Member
<1>10. P!Promise!ChannelsNext <=> PP!Promise!ChannelsNext
  BY <1>3, <1>4, <1>5, <1>6, <1>7, <1>8, <1>9 DEF P!Promise!ChannelsNext, PP!Promise!ChannelsNext
<1> QED
  BY <1>1, <1>2, <1>10

-----------------------------------------------------------------------------
(* Finite sets, which are sent one message after the other. *)

LEMMA ToSeq ==
  ASSUME NEW M, IsFiniteSet(M)
  PROVE  SetToSeq(M) \in Seq(M) /\ (SetToSeq(M) = << >> <=> M = {})
<1> DEFINE n == Cardinality(M)
<1>1. n \in Nat /\ ExistsBijection(1 .. n, M)
  BY FS_CardinalityType
<1>2. \E f \in [1 .. n -> M] : IsInjective(f)
  BY <1>1 DEF ExistsBijection, Bijection, Injection
<1>3. SetToSeq(M) \in [1 .. n -> M]
  BY <1>2 DEF SetToSeq
<1>4. n = 0 <=> M = {}
  BY FS_EmptySet
<1> HIDE DEF n
<1>5. SetToSeq(M) \in Seq(M) /\ Len(SetToSeq(M)) = n
  BY <1>1, <1>3, AsSequence
<1> QED
  BY <1>4, <1>5

LEMMA FiniteImage ==
  ASSUME NEW M, IsFiniteSet(M), NEW f, f = [x \in M |-> f[x]]
  PROVE  IsFiniteSet({f[x] : x \in M})
<1>1. f \in Surjection(M, {f[x] : x \in M})
  BY DEF Surjection
<1> QED
  BY <1>1, FS_Surjection

LEMMA FinitePart ==
  ASSUME NEW M, IsFiniteSet(M), NEW N, N \subseteq M
  PROVE  IsFiniteSet(N)
BY FS_Subset

LEMMA FiniteUnion ==
  ASSUME NEW M, IsFiniteSet(M), NEW N, IsFiniteSet(N)
  PROVE  IsFiniteSet(M \cup N)
BY FS_Union

LEMMA FiniteUids ==
  ASSUME NEW n \in Nat, NEW M, M \subseteq 1 .. n
  PROVE  IsFiniteSet(M)
<1>1. IsFiniteSet(1 .. n)
  BY FS_Interval
<1> QED
  BY <1>1, FinitePart

-----------------------------------------------------------------------------
(* What arrives at the other side. *)

ProxyMessage == PP!ReplyMessage \cup PP!ErrorMessage \cup PP!PayloadMessage

LEMMA Networks ==
  ASSUME NEW d \in Client
  PROVE  /\ enable_compression(d) \in BOOLEAN
         /\ enable_compression(d) <=> d \notin tcp
<1>1. protocol[d] = "udp4" \/ protocol[d] = "tcp"
  BY NetworkAssumption
<1> QED
  BY <1>1 DEF enable_compression, tcp

\* The proxy gets the type and the numbers of what a device has sent, unless it
\* refuses the data.
Refused(m) ==
  /\ m.type \in Payloads
  /\ \/ text[m.type][m.seq] = "none"
     \/ text[m.type][m.seq] = "wide" /\ m.from \notin tcp

LEMMA ParsedByProxy ==
  ASSUME NEW m, m.type \in {"register", "ping", "status", "command"}, m.seq \in 1 .. MaxSeq,
         m.uid \in Nat, m.type # "register" => m.uid # 0, m.from \in Client
  PROVE  LET w == parsedByProxy(m)
         IN  /\ w = Corrupt <=> Refused(m)
             /\ w # Corrupt => /\ w.type = m.type /\ w.seq = m.seq
                               /\ m.type # "register" => w.uid = m.uid
<1> DEFINE o == clientObject(m)
           w == wire(o)
           data == CASE m.type \notin Payloads -> [by |-> m.uid, text |-> "plain"]
                     [] m.type \in Payloads /\ text[m.type][m.seq] = "none" -> undefined
                     [] OTHER -> payloadOf(m.type, m.uid, m.seq)
           none == m.type \in Payloads /\ text[m.type][m.seq] = "none"
           wide == m.type \in Payloads /\ text[m.type][m.seq] = "wide"
<1>1. /\ DOMAIN o = {"type", "seq", "data", "uid", "sticky"}
      /\ o.type = m.type /\ o.seq = m.seq /\ o.data = data
      /\ m.uid # 0 => o.uid = m.uid
  BY DEF clientObject, D!NoUid
<1>2. m.type # undefined /\ m.seq # undefined /\ m.uid # undefined
  BY ValueAssumption, BoundsAssumption
<1>3. /\ none => data = undefined
      /\ ~none => data # undefined /\ (data.text = "wide" <=> wide)
  <2>1. m.type \in Payloads => text[m.type][m.seq] \in Texts
    BY DataAssumption DEF Payloads
  <2>2. CASE m.type \notin Payloads
    <3>1. data = [by |-> m.uid, text |-> "plain"]
      BY <2>2
    <3> HIDE DEF data
    <3> QED
      BY <2>2, <3>1, DataAssumption DEF Texts
  <2>3. CASE none
    BY <2>3
  <2>4. CASE m.type \in Payloads /\ ~none
    <3>1. data = [by |-> m.uid, text |-> text[m.type][m.seq]]
      BY <2>4 DEF payloadOf
    <3> HIDE DEF data
    <3> QED
      BY <2>1, <2>4, <3>1, DataAssumption
  <2> QED
    BY <2>2, <2>3, <2>4
<1> HIDE DEF o, data
<1>4. /\ {"type", "seq"} \subseteq kept(o) /\ (m.uid # 0 => "uid" \in kept(o))
      /\ "data" \in kept(o) <=> ~none
  BY <1>1, <1>2, <1>3 DEF kept
<1>5. DOMAIN w = kept(o) /\ \A p \in kept(o) : w[p] = o[p]
  BY WireShape
<1> HIDE DEF w, none
<1>6. /\ w.type = m.type /\ w.seq = m.seq /\ (m.type # "register" => w.uid = m.uid)
      /\ ~none => (w.data.text = "wide" <=> wide)
  BY <1>1, <1>3, <1>4, <1>5
<1>7. w # Corrupt
  <2>1. "type" \in DOMAIN w /\ DOMAIN Corrupt = {}
    BY <1>4, <1>5 DEF Corrupt
  <2> QED
    BY <2>1
<1>8. Accepted(w) <=> ~none
  <2>1. requiresList(w.type) \subseteq DOMAIN w <=> ~none
    BY <1>4, <1>5, <1>6 DEF requiresList
  <2> QED
    BY <1>7, <2>1 DEF Accepted
<1> HIDE DEF wide
<1>9. arriving(o, enable_compression(m.from)) = IF wide /\ ~none /\ m.from \notin tcp THEN Corrupt ELSE w
  BY <1>4, <1>5, <1>6, Networks DEF arriving, inBytes, w
<1>10. parsedByProxy(m) = IF none \/ (wide /\ m.from \notin tcp) THEN Corrupt ELSE w
  <2>1. parsedByProxy(m) = IF Accepted(arriving(o, enable_compression(m.from)))
                             THEN arriving(o, enable_compression(m.from)) ELSE Corrupt
    BY RoundTrip DEF parsedByProxy, packedByClient, o
  <2>2. ~Accepted(Corrupt)
    BY DEF Accepted
  <2> QED
    BY <1>8, <1>9, <2>1, <2>2
<1> QED
  BY <1>6, <1>7, <1>10 DEF Refused, none, wide

\* A device gets whatever the proxy sends it, but for text that is no text over UDP.
Misread(m) == m.type \in Payloads /\ text[m.type][m.seq] = "wide" /\ m.socket \notin tcp

LEMMA ParsedByDevice ==
  ASSUME NEW m \in ProxyMessage
  PROVE  LET o == proxyObject(m)
             w == wire(o)
         IN  /\ parseIncomingMessage(packedByProxy(m), enable_compression(m.socket)) =
                  IF Misread(m) THEN Corrupt ELSE w
             /\ m.socket \in tcp => packedByProxy(m).parts = line(w)
             /\ Accepted(w) /\ w.type = m.type /\ w.seq = m.seq
             /\ w.data = o.data /\ o.type = m.type /\ o.seq = m.seq
             /\ m.type = "register" /\ m.uid # 0 => w.uid = m.uid
             /\ m.type = "error" => w.data.code = m.code
             /\ m.type \in Payloads => w.data.by = m.data
<1> DEFINE o == proxyObject(m)
           w == wire(o)
           data == CASE m.type = "error" -> [code |-> m.code, text |-> "plain"]
                     [] m.type \in Payloads -> payloadOf(m.type, m.data, m.seq)
                     [] OTHER -> [uid |-> m.uid, text |-> "plain"]
           wide == m.type \in Payloads /\ text[m.type][m.seq] = "wide"
<1>1. /\ DOMAIN o = {"type", "seq", "socket", "data", "uid"}
      /\ o.type = m.type /\ o.seq = m.seq /\ o.data = data
      /\ o.uid = IF m.uid = 0 THEN null ELSE m.uid
  BY DEF proxyObject, P!NoUid
<1> HIDE DEF o
<1>2. /\ m.type \in {"register", "ping", "error", "status", "command"}
      /\ m.seq \in 1 .. MaxSeq /\ m.seq \in Nat /\ m.uid \in Nat /\ m.socket \in Client
      /\ m.type = "error" => m.code \in {"DEVICE_NOT_REGISTERED", "PERMISSION_DENIED"}
      /\ m.type \in Payloads => m.data \in Nat
  BY BoundsAssumption DEF ProxyMessage, PP!ReplyMessage, PP!ErrorMessage, PP!PayloadMessage,
       PP!StickyType, PP!NoUid, Payloads
<1>3. /\ m.type = "error" => data = [code |-> m.code, text |-> "plain"]
      /\ m.type \in Payloads => data = [by |-> m.data, text |-> text[m.type][m.seq]]
      /\ m.type \notin Payloads \cup {"error"} => data = [uid |-> m.uid, text |-> "plain"]
  BY DEF Payloads, payloadOf
<1> HIDE DEF data
<1>4. data # undefined /\ (data.text = "wide" <=> wide)
  <2>1. (m.type \in Payloads => text[m.type][m.seq] \in Texts) /\ "plain" \in Texts
    BY <1>2, DataAssumption DEF Texts, Payloads
  <2>2. CASE m.type = "error"
    BY <1>2, <1>3, <2>1, <2>2, DataAssumption DEF Payloads
  <2>3. CASE m.type \in Payloads
    BY <1>2, <1>3, <2>1, <2>3, DataAssumption
  <2>4. CASE m.type \notin Payloads \cup {"error"}
    BY <1>2, <1>3, <2>1, <2>4, DataAssumption
  <2> QED
    BY <2>2, <2>3, <2>4
<1>5. m.type # undefined /\ m.seq # undefined /\ o.uid # undefined
  BY <1>1, <1>2, ValueAssumption
<1>6. {"type", "seq", "data", "uid"} \subseteq kept(o)
  BY <1>1, <1>4, <1>5 DEF kept
<1>7. DOMAIN w = kept(o) /\ \A p \in kept(o) : w[p] = o[p]
  BY WireShape
<1> HIDE DEF w, wide
<1>8. w.type = m.type /\ w.seq = m.seq /\ w.data = data /\ w.uid = o.uid
  BY <1>1, <1>6, <1>7
<1>9. Accepted(w)
  <2>1. "type" \in DOMAIN w /\ DOMAIN Corrupt = {}
    BY <1>6, <1>7 DEF Corrupt
  <2>2. requiresList(w.type) \subseteq DOMAIN w
    BY <1>6, <1>7 DEF requiresList
  <2> QED
    BY <2>1, <2>2 DEF Accepted
<1>10. arriving(o, enable_compression(m.socket)) =
         IF wide /\ m.socket \notin tcp THEN Corrupt ELSE w
  BY <1>2, <1>4, <1>6, <1>7, <1>8, Networks DEF arriving, inBytes, w
<1>11. parseIncomingMessage(packedByProxy(m), enable_compression(m.socket)) =
         IF Misread(m) THEN Corrupt ELSE w
  <2>1. parseIncomingMessage(packedByProxy(m), enable_compression(m.socket)) =
          IF Accepted(arriving(o, enable_compression(m.socket)))
            THEN arriving(o, enable_compression(m.socket)) ELSE Corrupt
    BY RoundTrip DEF packedByProxy, o
  <2> QED
    BY <1>9, <1>10, <2>1 DEF Accepted, Misread, wide
<1>12. m.socket \in tcp => packedByProxy(m).parts = line(w)
  <2>1. packedByProxy(m) = chunkOf(line(arriving(o, enable_compression(m.socket))),
                                   enable_compression(m.socket))
    BY PackIsLine DEF packedByProxy, o
  <2> QED
    BY <1>10, <2>1 DEF chunkOf
<1>13. /\ m.type = "error" => w.data.code = m.code
       /\ m.type \in Payloads => w.data.by = m.data
  BY <1>3, <1>8
<1> QED
  BY <1>1, <1>8, <1>9, <1>11, <1>12, <1>13 DEF o, w

-----------------------------------------------------------------------------
(* What a device does to the rest of the system. *)

MessageType == {"register", "ping", "status", "command"}

Given(uid, d) == uid \in 1 .. Len(issued) /\ issued[uid] = d

\* Device d sends under the uid it has, and has the same uid afterwards, none, or
\* another one it was given.
Effect(d) ==
  /\ \A e \in Client \ {d} : dev'[e] = dev[e]
  /\ dev'[d].uid \in {0, dev[d].uid} \/ Given(dev'[d].uid, d)
  /\ dev'[d].connected => dev[d].connected
  /\ sent \subseteq sent' /\ IsFiniteSet(sent' \ sent)
  /\ \A m \in sent' \ sent :
       /\ m.from = d /\ m.type \in MessageType /\ m.uid \in {0, dev[d].uid}
       /\ m.type # "register" => m.uid # 0
       /\ m.type = "command" => deviceType[d] = "controller"

NewMessages(d, type, uid) ==
  /\ sent \subseteq sent' /\ IsFiniteSet(sent' \ sent)
  /\ \A m \in sent' \ sent :
       /\ m.from = d /\ m.type = type /\ m.uid = uid
       /\ m.type # "register" => m.uid # 0

LEMMA SentOne ==
  ASSUME NEW d, NEW dv, NEW type, sent' = sent \cup DD!messages(d, dv, type)
  PROVE  NewMessages(d, type, dv.uid)
<1>1. DD!messages(d, dv, type) \subseteq {DD!Message(d, dv, type)}
  BY DEF DD!messages
<1>2. IsFiniteSet({DD!Message(d, dv, type)})
  BY FS_Singleton
<1>3. IsFiniteSet(sent' \ sent)
  BY <1>1, <1>2, FinitePart
<1>4. \A m \in sent' \ sent : m = DD!Message(d, dv, type) /\ DD!maySend(dv, type)
  BY <1>1 DEF DD!messages
<1> QED
  BY <1>3, <1>4 DEF NewMessages, DD!Message, DD!maySend, DD!NoUid

LEMMA SentRegister ==
  ASSUME NEW d, NEW dv, sent' = sent \cup DD!registerMessages(d, dv)
  PROVE  NewMessages(d, "register", dv.uid)
<1>1. CASE dv.recheck
  <2>1. sent' \ sent = {} /\ sent \subseteq sent'
    BY <1>1 DEF DD!registerMessages
  <2> QED
    BY <2>1, FS_EmptySet DEF NewMessages
<1>2. CASE ~dv.recheck
  <2>1. sent' = sent \cup DD!messages(d, dv, "register")
    BY <1>2 DEF DD!registerMessages
  <2> QED
    BY <2>1, SentOne
<1> QED
  BY <1>1, <1>2

LEMMA SendingEffect ==
  ASSUME NEW d \in Client, \A e \in Client \ {d} : dev'[e] = dev[e],
         NEW type \in MessageType, NEW uid \in {0, dev[d].uid}, NewMessages(d, type, uid),
         type = "command" => deviceType[d] = "controller",
         dev'[d].uid = uid, dev'[d].connected = dev[d].connected
  PROVE  Effect(d)
BY DEF Effect, NewMessages

LEMMA DeviceFieldsShape ==
  DD!DeviceFields = [uid : 0 .. MaxUid, recheck : BOOLEAN, mySeqNum : 1 .. MaxSeq + 1,
                     pingList : DD!PingLists, interval : BOOLEAN, connected : BOOLEAN,
                     mode : {"open", "closed", "crashed", "exhausted"}]
BY DD!FieldsShape, DeviceSetUp

LEMMA RegisteringFields ==
  ASSUME NEW dv \in DD!DeviceFields
  PROVE  DD!registering(dv).uid = dv.uid /\ DD!registering(dv).connected = dv.connected
<1> DEFINE counted == DD!sending(dv, "register")
<1>1. counted.uid = dv.uid /\ counted.connected = dv.connected
  BY DeviceFieldsShape DEF DD!sending
<1>2. CASE dv.recheck
  BY <1>2 DEF DD!registering
<1>3. CASE ~dv.recheck
  <2>1. DD!registering(dv) = [counted EXCEPT !.recheck = TRUE]
    BY <1>3 DEF DD!registering
  <2> HIDE DEF counted
  <2> QED
    BY <1>1, <2>1
<1> QED
  BY <1>2, <1>3

LEMMA SendEffect ==
  ASSUME DD!DeviceTypeOK, NEW d \in Client, NEW type \in {"status", "command"}, DD!Send(d, type)
  PROVE  Effect(d)
<1>1. /\ dev[d] \in DD!DeviceFields
      /\ dev' = [dev EXCEPT ![d] = DD!sending(dev[d], type)]
      /\ dev \in [Client -> DD!DeviceFields]
      /\ sent' = sent \cup DD!messages(d, dev[d], type)
      /\ type = "command" => deviceType[d] = "controller"
  BY DEF DD!DeviceTypeOK, DD!Send
<1>2. /\ DD!sending(dev[d], type).uid = dev[d].uid
      /\ DD!sending(dev[d], type).connected = dev[d].connected
  BY <1>1, DD!SendingKeeps, DeviceSetUp
<1>3. dev'[d] = DD!sending(dev[d], type) /\ \A e \in Client \ {d} : dev'[e] = dev[e]
  BY <1>1
<1>4. NewMessages(d, type, dev[d].uid) /\ type \in MessageType
  BY <1>1, SentOne DEF MessageType
<1> QED
  BY <1>1, <1>2, <1>3, <1>4, SendingEffect

LEMMA KeepaliveEffect ==
  ASSUME DD!DeviceTypeOK, NEW d \in Client, DD!KeepaliveTimer(d)
  PROVE  Effect(d)
<1> DEFINE waiting == [dev[d] EXCEPT !.pingList = DD!addPing(@, dev[d].mySeqNum, DD!NoCallback)]
<1>1. /\ dev[d] \in DD!DeviceFields /\ DD!mayCount(dev[d]) /\ DD!NoCallback \in 0 .. 0
      /\ dev' = [dev EXCEPT ![d] = DD!sending(waiting, "ping")]
      /\ dev \in [Client -> DD!DeviceFields]
      /\ sent' = sent \cup DD!messages(d, dev[d], "ping")
  BY DEF DD!DeviceTypeOK, DD!KeepaliveTimer, DD!PingUnheard, DD!NoCallback
<1>2. waiting \in DD!DeviceFields
  BY <1>1, DD!WaitingType, DeviceSetUp
<1>3. waiting.uid = dev[d].uid /\ waiting.connected = dev[d].connected
  BY <1>1, DeviceFieldsShape, BoundsAssumption
<1> HIDE DEF waiting
<1>4. /\ DD!sending(waiting, "ping").uid = dev[d].uid
      /\ DD!sending(waiting, "ping").connected = dev[d].connected
  BY <1>2, <1>3, DD!SendingKeeps, DeviceSetUp
<1>5. dev'[d] = DD!sending(waiting, "ping") /\ \A e \in Client \ {d} : dev'[e] = dev[e]
  BY <1>1
<1>6. NewMessages(d, "ping", dev[d].uid) /\ "ping" \in MessageType
  BY <1>1, SentOne DEF MessageType
<1> QED
  BY <1>4, <1>5, <1>6, SendingEffect

LEMMA RecheckEffect ==
  ASSUME DD!DeviceTypeOK, NEW d \in Client, DD!RecheckTimer(d)
  PROVE  Effect(d)
<1> DEFINE cleared == [dev[d] EXCEPT !.recheck = FALSE]
<1>1. /\ dev[d] \in DD!DeviceFields
      /\ dev' = [dev EXCEPT ![d] = DD!registering(cleared)]
      /\ dev \in [Client -> DD!DeviceFields]
      /\ sent' = sent \cup DD!registerMessages(d, cleared)
  BY DEF DD!DeviceTypeOK, DD!RecheckTimer
<1>2. /\ cleared \in DD!DeviceFields
      /\ cleared.uid = dev[d].uid /\ cleared.connected = dev[d].connected
  BY <1>1, DeviceFieldsShape, BoundsAssumption
<1> HIDE DEF cleared
<1>3. dev'[d] = DD!registering(cleared) /\ \A e \in Client \ {d} : dev'[e] = dev[e]
  BY <1>1
<1>4. NewMessages(d, "register", cleared.uid) /\ "register" \in MessageType
  BY <1>1, SentRegister DEF MessageType
<1> QED
  BY <1>2, <1>3, <1>4, RegisteringFields, SendingEffect

LEMMA NotRegisteredEffect ==
  ASSUME DD!DeviceTypeOK, NEW d \in Client, DD!ReceiveNotRegistered(d)
  PROVE  Effect(d)
<1> DEFINE lost == [dev[d] EXCEPT !.uid = 0]
<1>1. /\ dev[d] \in DD!DeviceFields
      /\ dev' = [dev EXCEPT ![d] = DD!registering(lost)]
      /\ dev \in [Client -> DD!DeviceFields]
      /\ sent' = sent \cup DD!registerMessages(d, lost)
  BY DEF DD!DeviceTypeOK, DD!ReceiveNotRegistered, DD!raising, DD!NoUid
<1>2. /\ lost \in DD!DeviceFields
      /\ lost.uid = 0 /\ lost.connected = dev[d].connected
  BY <1>1, DeviceFieldsShape, BoundsAssumption
<1> HIDE DEF lost
<1>3. dev'[d] = DD!registering(lost) /\ \A e \in Client \ {d} : dev'[e] = dev[e]
  BY <1>1
<1>4. NewMessages(d, "register", lost.uid) /\ "register" \in MessageType
  BY <1>1, SentRegister DEF MessageType
<1> QED
  BY <1>2, <1>3, <1>4, RegisteringFields, SendingEffect

\* What else a device receives makes it send nothing.
LEMMA SilentEffect ==
  ASSUME sent' = sent, NEW d \in Client, \A e \in Client \ {d} : dev'[e] = dev[e],
         dev'[d].uid \in {0, dev[d].uid} \/ Given(dev'[d].uid, d),
         dev'[d].connected => dev[d].connected
  PROVE  Effect(d)
<1>1. sent' \ sent = {} /\ IsFiniteSet({})
  BY FS_EmptySet
<1> QED
  BY <1>1 DEF Effect

LEMMA RegisterEffect ==
  ASSUME DD!DeviceTypeOK, NEW d \in Client, NEW uid, Given(uid, d), DD!ReceiveRegister(d, uid)
  PROVE  Effect(d)
<1> DEFINE known == IF dev[d].uid = 0 THEN uid ELSE dev[d].uid
           dv == [[dev[d] EXCEPT !.uid = known] EXCEPT !.recheck = FALSE]
<1>1. /\ dev[d] \in DD!DeviceFields /\ dev \in [Client -> DD!DeviceFields]
      /\ sent' = sent
  BY DEF DD!DeviceTypeOK, DD!ReceiveRegister
<1>2. dev' = [dev EXCEPT ![d] = dv]
  BY <1>1 DEF DD!ReceiveRegister, DD!NoUid
<1>3. dv.uid = known /\ dv.connected = dev[d].connected
  BY <1>1, DeviceFieldsShape, BoundsAssumption
<1> HIDE DEF dv
<1> QED
  BY <1>1, <1>2, <1>3, SilentEffect

LEMMA OtherEffect ==
  ASSUME DD!DeviceTypeOK, NEW d \in Client,
         (\E seq : DD!ReceivePing(d, seq)) \/ DD!ReceiveOtherError(d) \/ DD!ConnectionLost(d)
  PROVE  Effect(d)
<1>1. dev[d] \in DD!DeviceFields /\ dev \in [Client -> DD!DeviceFields]
  BY DEF DD!DeviceTypeOK
<1>2. ASSUME NEW seq, DD!ReceivePing(d, seq) PROVE Effect(d)
  <2> DEFINE dv == [dev[d] EXCEPT !.pingList = DD!removePing(@, seq)]
  <2>1. \A callback : ~DD!CallbackCloses(d, callback)
    BY DEF DD!CallbackCloses
  <2>2. dev' = [dev EXCEPT ![d] = dv] /\ sent' = sent
    BY <1>1, <1>2, <2>1 DEF DD!ReceivePing, DD!endPing
  <2>3. dv.uid = dev[d].uid /\ dv.connected = dev[d].connected
    BY <1>1, DeviceFieldsShape, BoundsAssumption
  <2> HIDE DEF dv
  <2> QED
    BY <1>1, <2>2, <2>3, SilentEffect
<1>3. CASE DD!ReceiveOtherError(d)
  BY <1>1, <1>3, SilentEffect DEF DD!ReceiveOtherError, DD!raising
<1>4. CASE DD!ConnectionLost(d)
  <2> DEFINE dv == [dev[d] EXCEPT !.connected = FALSE]
  <2>1. dev' = [dev EXCEPT ![d] = dv] /\ sent' = sent
    BY <1>1, <1>4 DEF DD!ConnectionLost
  <2>2. dv.uid = dev[d].uid /\ ~dv.connected
    BY <1>1, DeviceFieldsShape, BoundsAssumption
  <2> HIDE DEF dv
  <2> QED
    BY <1>1, <2>1, <2>2, SilentEffect
<1> QED
  BY <1>2, <1>3, <1>4
=============================================================================
