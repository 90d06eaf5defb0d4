--------------------------- MODULE WebRemoteControl ---------------------------
(***************************************************************************)
(* The whole system: devices (ClientDevice), the proxy (Proxy), and the    *)
(* two networks between them, each message packed and parsed on its way    *)
(* (MessageFormat), each part set up by index.js (Settings).               *)
(*                                                                         *)
(* UDP loses, repeats and reorders.  A TCP connection keeps the order, the *)
(* reader gets it in chunks of any length, and it may end at any time for  *)
(* either side.  Left to the parts' own models: observers that are         *)
(* refused, close() of either side, and ping() of the program.             *)
(***************************************************************************)
EXTENDS MessageFormat

CONSTANTS
  Client,          \* devices
  role,            \* the function of index.js a device was created with
  params,          \* its parameters
  proxyParams,     \* the parameters of the proxy
  Channel, DefaultChannel, FalsyChannel,
  program,         \* what the program of a device sends under each number
  text,            \* what data it sends in each of them under each number
  stickySeq,       \* the numbers used by stickyStatus() and stickyCommand()
  MaxSeq,          \* bound: messages a device sends
  MaxUid,          \* bound: registrations the proxy accepts
  MaxDelayed,      \* bound: sticky messages waiting for their timer
  MaxUnread        \* bound: lines waiting on a TCP connection

S == INSTANCE Settings

settingsOf == [d \in Client |-> S!init(role[d], params[d], FALSE)]
proxySettings == S!init("proxy", proxyParams, FALSE)

protocol == [d \in Client |-> S!clientProtocol(settingsOf[d])]
deviceType == [d \in Client |-> settingsOf[d].deviceType]
channel == [d \in Client |-> settingsOf[d].channel]
tcp == {d \in Client : protocol[d] = "tcp"}
keepalive == {d \in Client : S!hasKeepalive(settingsOf[d])}

itself == [d \in Client |-> d]    \* one socket per device
ownKey == [c \in Channel |-> c]   \* all channels are strings
anyUse == [n \in 1 .. MaxSeq |-> {"register", "ping", "payload"}]

ASSUME SettingsAssumption ==
  /\ role \in [Client -> {"toy", "controller", "observer"}]
  /\ channel \in [Client -> Channel]
  /\ proxySettings.onlyOneControllerPerChannel \in BOOLEAN
  /\ proxySettings.onlyOneToyPerChannel \in BOOLEAN
  /\ proxySettings.allowObservers \in BOOLEAN

ASSUME NetworkAssumption ==
  /\ \A d \in Client : protocol[d] \in S!serverProtocols(proxySettings) \cap {"udp4", "tcp"}
  /\ program \in [Client -> [1 .. MaxSeq + 1 -> SUBSET {"status", "command"}]]
  /\ stickySeq \subseteq 1 .. MaxSeq

\* Text is none if the program calls status() or command() without an argument.
Texts == {"plain", "wide", "none"}

ASSUME DataAssumption ==
  /\ text \in [{"status", "command"} -> [1 .. MaxSeq -> Texts]]
  /\ undefined \notin [by : Nat, text : Texts] \cup [uid : Nat, text : Texts]
       \cup [code : {"DEVICE_NOT_REGISTERED", "PERMISSION_DENIED"}, text : Texts]

ASSUME BoundsAssumption ==
  MaxSeq \in Nat \ {0} /\ MaxUid \in Nat /\ MaxDelayed \in Nat /\ MaxUnread \in Nat

VARIABLES
  list, stickers, delayed, conn, mode, out, issued, high,  \* of the proxy
  dev, sent, answered,                                     \* of the devices
  air,         \* UDP packets the proxy has sent, to arrive at any time
  upstream,    \* per TCP connection: the lines the proxy has not read
  downstream,  \* per TCP connection: the parts its device has not read
  heard,       \* history: the last message a device handled
  newest,      \* history: the last line sent on a TCP connection
  cut          \* history: was the text of that line torn?

P == INSTANCE Proxy WITH
  Device <- Client, Socket <- Client, peer <- itself, Key <- Channel, channelKey <- ownKey,
  onlyOneControllerPerChannel <- proxySettings.onlyOneControllerPerChannel,
  onlyOneToyPerChannel <- proxySettings.onlyOneToyPerChannel,
  allowObservers <- proxySettings.allowObservers,
  SeqNum <- 1 .. MaxSeq, uses <- anyUse

D == INSTANCE ClientDevice WITH
  errorListener <- Client, misread <- Client, closers <- {}, MaxPings <- 0

deviceVars == <<dev, sent, answered>>
vars == <<list, stickers, delayed, conn, mode, out, issued, high,
          deviceVars, air, upstream, downstream, heard, newest, cut>>

Payloads == {"status", "command"}

NoMessage == Corrupt
-----------------------------------------------------------------------------
(* Messages as objects.  A payload is known by the uid it was sent under,   *)
(* as in Proxy.                                                            *)

payloadOf(type, uid, seq) == [by |-> uid, text |-> text[type][seq]]

clientObject(m) ==
  [type |-> m.type, seq |-> m.seq,
   data |-> CASE m.type \notin Payloads -> [by |-> m.uid, text |-> "plain"]
              [] m.type \in Payloads /\ text[m.type][m.seq] = "none" -> undefined
              [] OTHER -> payloadOf(m.type, m.uid, m.seq),
   uid |-> IF m.uid = D!NoUid THEN undefined ELSE m.uid,
   sticky |-> m.type \in Payloads /\ m.seq \in stickySeq]

proxyObject(m) ==
  [type |-> m.type, seq |-> m.seq, socket |-> m.socket,
   uid |-> IF m.uid = P!NoUid THEN null ELSE m.uid,
   data |-> CASE m.type = "error" -> [code |-> m.code, text |-> "plain"]
              [] m.type \in Payloads -> payloadOf(m.type, m.data, m.seq)
              [] OTHER -> [uid |-> m.uid, text |-> "plain"]]

\* ClientConnection compresses on UDP, and ServerConnection for a UDP socket.
enable_compression(d) == protocol[d] = "udp4"

packedByClient(m) == packOutgoingMessage(clientObject(m), enable_compression(m.from))
packedByProxy(m) == packOutgoingMessage(proxyObject(m), enable_compression(m.socket))

\* split('\n') gives the proxy one line at a time, whatever the chunks were.
parsedByProxy(m) == parseIncomingMessage(packedByClient(m), enable_compression(m.from))

\* A slip: what one device is sent goes to all.
toEverySocket(messages, d) == messages

toSocket(messages, d) == {m \in messages : m.socket = d}

-----------------------------------------------------------------------------
(* The devices. *)

\* What a device sends enters its network: a UDP packet is in `sent` already.
ByDevice ==
  /\ upstream' = [d \in tcp |-> upstream[d] \o SetToSeq({m \in sent' \ sent : m.from = d})]
  /\ UNCHANGED <<list, stickers, delayed, conn, mode, out, issued, high, air>>

DeviceStep(d) ==
  /\ \/ \E type \in program[d][dev[d].mySeqNum] : D!Send(d, type)
     \/ D!KeepaliveTimer(d)
     \/ D!RecheckTimer(d)
  /\ ByDevice
  /\ UNCHANGED <<downstream, heard, newest, cut>>

\* The connection emits the type of a message, or 'error' for what did not parse.
Handle(d, msgObj) ==
  \/ msgObj = Corrupt /\ D!ReceiveOtherError(d) /\ UNCHANGED heard
  \/ /\ msgObj # Corrupt
     /\ \/ msgObj.type = "register" /\ D!ReceiveRegister(d, msgObj.uid)
        \/ msgObj.type = "ping" /\ D!ReceivePing(d, msgObj.seq)
        \/ msgObj.type = "error" /\ IF msgObj.data.code = "DEVICE_NOT_REGISTERED"
                                     THEN D!ReceiveNotRegistered(d)
                                     ELSE D!ReceiveOtherError(d)
        \/ msgObj.type \in Payloads /\ UNCHANGED deviceVars
     /\ heard' = [heard EXCEPT ![d] = msgObj]

ReceivePacket(d) ==
  /\ \E m \in toSocket(air, d) :
       Handle(d, parseIncomingMessage(packedByProxy(m), enable_compression(d)))
  /\ ByDevice
  /\ UNCHANGED <<downstream, newest, cut>>

\* A read of the connection returns what has arrived: a chunk of n parts.
ReceiveChunk(d) ==
  \E n \in 1 .. Len(downstream[d]) :
    LET parts == SubSeq(downstream[d], 1, n)
    IN  /\ dev[d].connected
        /\ Handle(d, parseIncomingMessage(chunkOf(parts, FALSE), enable_compression(d)))
        /\ downstream' = [downstream EXCEPT ![d] = SubSeq(@, n + 1, Len(@))]
        /\ cut' = [cut EXCEPT ![d] = @ \/ n = Len(downstream[d]) - 2]
        /\ ByDevice
        /\ UNCHANGED newest

\* What the device has not read is lost with the connection.
ConnectionLost(d) ==
  /\ D!ConnectionLost(d)
  /\ downstream' = [downstream EXCEPT ![d] = << >>]
  /\ ByDevice
  /\ UNCHANGED <<heard, newest, cut>>

-----------------------------------------------------------------------------
(* The proxy. *)

\* What the proxy sends enters the networks.
ByProxy ==
  LET lines == [d \in tcp |-> IF dev[d].connected THEN SetToSeq(toSocket(out', d)) ELSE << >>]
      parts(d) == stream([i \in DOMAIN lines[d] |-> packedByProxy(lines[d][i])])
  IN  /\ air' = air \cup UNION {toSocket(out', d) : d \in Client \ tcp}
      /\ downstream' = [d \in tcp |-> downstream[d] \o parts(d)]
      /\ \A d \in tcp : Len(downstream'[d]) <= 3 * MaxUnread
      /\ newest' = [d \in tcp |-> IF lines[d] = << >> THEN newest[d] ELSE Last(parts(d)).of]
      /\ cut' = [d \in tcp |-> cut[d] /\ lines[d] = << >>]
      /\ UNCHANGED <<deviceVars, heard>>

\* A message of device d has been parsed, and its handler runs.
Arrives(d, msgObj) ==
  /\ msgObj # Corrupt
  /\ \/ msgObj.type = "register" /\ P!RegisterDevice(d, msgObj.seq)
     \/ /\ msgObj.type = "ping"
        /\ \/ P!RespondToPing(d, msgObj.uid, msgObj.seq)
           \/ P!PingUnknown(d, msgObj.uid, msgObj.seq)
     \/ /\ msgObj.type \in Payloads
        /\ \/ P!ForwardUnknown(msgObj.type, d, msgObj.uid, msgObj.seq)
           \/ P!ForwardDenied(msgObj.type, d, msgObj.uid, msgObj.seq)
           \/ P!ForwardDropped(msgObj.type, d, msgObj.uid, msgObj.seq)
           \/ P!Forward(msgObj.type, d, msgObj.uid, msgObj.seq, "sticky" \in DOMAIN msgObj)

\* Any packet a device has sent; of one that does not parse nothing comes but a log.
PacketArrives(d) ==
  /\ d \notin tcp
  /\ \E m \in {m \in sent : m.from = d} : Arrives(d, parsedByProxy(m))
  /\ ByProxy
  /\ UNCHANGED upstream

LineArrives(d) ==
  /\ d \in tcp /\ upstream[d] # << >>
  /\ Arrives(d, parsedByProxy(Head(upstream[d])))
  /\ upstream' = [upstream EXCEPT ![d] = Tail(@)]
  /\ ByProxy

\* handleError(): a line that does not parse is logged, and that is all.
LineRefused(d) ==
  /\ d \in tcp /\ upstream[d] # << >>
  /\ P!Receives(d)
  /\ parsedByProxy(Head(upstream[d])) = Corrupt
  /\ upstream' = [upstream EXCEPT ![d] = Tail(@)]
  /\ UNCHANGED <<list, stickers, delayed, conn, mode, out, issued, high>>
  /\ UNCHANGED <<deviceVars, air, downstream, heard, newest, cut>>

\* The proxy's own steps; a new proxy knows nothing of the old connections.
ProxyStep ==
  /\ P!SendSticky \/ P!Restart \/ \E d \in tcp : P!SocketClose(d)
  /\ ByProxy
  /\ UNCHANGED upstream

-----------------------------------------------------------------------------
Init ==
  /\ P!Init
  /\ D!Init
  /\ air = {}
  /\ upstream = [d \in tcp |-> SetToSeq({m \in sent : m.from = d})]
  /\ downstream = [d \in tcp |-> << >>]
  /\ heard = [d \in Client |-> NoMessage]
  /\ newest = [d \in tcp |-> NoMessage]
  /\ cut = [d \in tcp |-> FALSE]

Next ==
  \/ \E d \in Client : DeviceStep(d) \/ ReceivePacket(d) \/ PacketArrives(d)
  \/ \E d \in tcp : ReceiveChunk(d) \/ ConnectionLost(d) \/ LineArrives(d) \/ LineRefused(d)
  \/ ProxyStep

Spec == Init /\ [][Next]_vars

-----------------------------------------------------------------------------
(* Properties. *)

\* A device only ever has, and only ever sends, uids the proxy gave to itself,
\* through late and repeated answers, retries, evictions and restarts: this
\* is what Proxy assumes of its clients.
UsesOwnUid ==
  /\ \A d \in Client : dev[d].uid # D!NoUid => issued[dev[d].uid] = d
  /\ \A m \in sent : m.uid # D!NoUid => issued[m.uid] = m.from

\* Whatever is under way to a device answers something it has sent, or is a
\* status or command, and only a status of a device that is no toy is denied:
\* this is what ClientDevice assumes of its proxy.
UnderWay(d) ==
  IF d \in tcp THEN {downstream[d][i].of : i \in DOMAIN downstream[d]}
  ELSE {proxyObject(m) : m \in {m \in air : m.socket = d}}

mayBeAnswer(msgObj, m) ==
  IF msgObj.type = "error"
    THEN /\ m.type # "register"
         /\ msgObj.data.code = "PERMISSION_DENIED" =>
              m.type = "status" /\ deviceType[m.from] # "toy"
    ELSE m.type = msgObj.type

AnswersSolicited ==
  \A d \in Client : \A msgObj \in UnderWay(d) :
    msgObj.type \notin Payloads =>
      \E m \in sent : m.from = d /\ m.seq = msgObj.seq /\ mayBeAnswer(msgObj, m)

\* What either side has just sent parses on the other side, unless it is a status
\* or command: the proxy refuses one without data, and whoever gets one over UDP
\* cannot read wide text.  A reader on TCP can, relayed by the proxy or not.
OnlyTextRefused ==
  /\ \A m \in sent : m.seq = dev[m.from].mySeqNum - 1 =>
       (parsedByProxy(m) = Corrupt <=>
          /\ m.type \in Payloads
          /\ text[m.type][m.seq] = "none" \/ (text[m.type][m.seq] = "wide" /\ m.from \notin tcp))
  /\ \A m \in out :
       (parseIncomingMessage(packedByProxy(m), enable_compression(m.socket)) = Corrupt <=>
          m.type \in Payloads /\ text[m.type][m.seq] = "wide" /\ m.socket \notin tcp)

\* What a device last handled, if it is a status or command, is one it should
\* hear, and was sent by a device of its channel, under that device's uid.
HeardWasSaid ==
  \A d \in Client : heard[d] # NoMessage /\ heard[d].type \in Payloads =>
    /\ deviceType[d] \in P!forwardTo(heard[d].type)
    /\ \E m \in sent :
         /\ m.type = heard[d].type /\ m.seq = heard[d].seq /\ m.uid = heard[d].data.by
         /\ deviceType[m.from] = P!senderType(m.type)
         /\ channel[m.from] = channel[d]

\* A device on TCP that has read all there is has handled the newest line, even
\* though it loses lines that share a chunk, unless that line's text was torn.
NewestHeard ==
  \A d \in tcp : dev[d].connected /\ downstream[d] = << >> /\ ~cut[d] => heard[d] = newest[d]

\* No device on TCP is told that it is not registered: as long as it is
\* connected the proxy knows it.
ToldOnlyOverUdp ==
  \A d \in tcp : \A msgObj \in UnderWay(d) :
    msgObj.type = "error" => msgObj.data.code # "DEVICE_NOT_REGISTERED"

\* A device never emits a command after a later one of the same sender.
CommandsInOrder ==
  [][\A d \in Client :
       /\ heard[d] # NoMessage /\ heard[d].type = "command"
       /\ heard'[d].type = "command" /\ heard'[d].data.by = heard[d].data.by
       => heard'[d].seq >= heard[d].seq]_heard
=============================================================================
