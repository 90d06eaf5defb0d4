-------------------------------- MODULE Proxy --------------------------------
(***************************************************************************)
(* The proxy (src/Proxy.js) over its server connection                     *)
(* (src/ServerConnection.js), in the most general environment its clients  *)
(* make: any message a Device can send may arrive at any time, in any      *)
(* order, again, or not at all.                                            *)
(*                                                                         *)
(* A client is a Device object.  Its type and channel never change, and it *)
(* keeps its transport for life: a TCP client has one connection and never *)
(* a second one, the address of a UDP client may change on the way (NAT),  *)
(* so such a client may own several sockets.                               *)
(*                                                                         *)
(* The payload of a status or command is identified by the uid it was sent *)
(* under and its sequence number: field `data` holds that uid.  A Device   *)
(* numbers everything it sends, so it has one use for each number; where   *)
(* `uses` leaves a choice the model covers every numbering.                *)
(***************************************************************************)
EXTENDS DeviceManager, StickyMessages, Sequences

CONSTANTS
  Device,      \* clients
  Socket,      \* transport endpoints the proxy can see
  peer,        \* the client behind a socket
  deviceType,  \* settings.deviceType of a client
  channel,     \* settings.channel of a client
  protocol,    \* "udp4", "tcp" or "socketio", per socket
  SeqNum,      \* sequence numbers clients use
  uses,        \* what they may use each for: "register", "ping", "payload"
  MaxUid,      \* bound: registrations the proxy accepts
  MaxDelayed   \* bound: sticky messages waiting for their timer

ASSUME ClientAssumption ==
  /\ peer \in [Socket -> Device]
  /\ deviceType \in [Device -> DeviceType]
  /\ channel \in [Device -> Channel]
  /\ protocol \in [Socket -> {"udp4", "tcp", "socketio"}]
  /\ \A s, t \in Socket : protocol[s] = "tcp" /\ peer[s] = peer[t] => s = t

ASSUME BoundsAssumption ==
  /\ SeqNum \subseteq Nat \ {0}
  /\ uses \in [SeqNum -> SUBSET {"register", "ping", "payload"}]
  /\ MaxUid \in Nat
  /\ MaxDelayed \in Nat

VARIABLES
  list,      \* devices.list: uid -> entry
  stickers,  \* stickers.command and stickers.status
  delayed,   \* sticky messages whose 20 ms timer is pending, in timer order
  conn,      \* per socket: "open", "destroyed" (by the proxy) or "closed"
  mode,      \* "listening", "closed" (by close()) or "crashed"
  out,       \* the messages the last step handed to the transport
  issued,    \* history: issued[uid] is the client that registered as uid
  high       \* history: high[uid] is the highest sequence number relayed

vars == <<list, stickers, delayed, conn, mode, out, issued, high>>

Uid == 1 .. Len(issued)

-----------------------------------------------------------------------------
(* Messages.  Field `via` is no field of the protocol: it tells which call  *)
(* of the proxy sent the message.                                          *)

Reply(type, socket, uid, seq) ==
  [type |-> type, socket |-> socket, uid |-> uid, seq |-> seq]

Error(code, socket, seq, via) ==
  [type |-> "error", socket |-> socket, uid |-> NoUid, seq |-> seq,
   code |-> code, via |-> via]

Payload(type, socket, uid, seq, data, via) ==
  [type |-> type, socket |-> socket, uid |-> uid, seq |-> seq,
   data |-> data, via |-> via]

ReplyMessage ==
  [type : {"register", "ping"}, socket : Socket, uid : Nat, seq : SeqNum]

ErrorMessage ==
  [type : {"error"}, socket : Socket, uid : {NoUid}, seq : SeqNum,
   code : {"DEVICE_NOT_REGISTERED", "PERMISSION_DENIED"}, via : DeviceType]

PayloadMessage ==
  [type : StickyType, socket : Socket, uid : Nat, seq : SeqNum,
   data : Nat, via : DeviceType \cup {"sticky"}]

\* The receivers of forwardCommand() and forwardStatus(): the latter calls
\* forward() once for the controllers and once for the observers.
forwardTo(type) == IF type = "command" THEN {"toy"} ELSE {"controller", "observer"}

-----------------------------------------------------------------------------
(* Transport. *)

\* ServerConnection._send(): writing to a socket that is gone has no effect.
_send(messages, connections) ==
  {m \in messages : connections[m.socket] = "open"}

\* A slip: the connection of a removed device is left open.
closeNothing(connections, sockets) == connections

\* A slip: a removed device takes its transport with it, whatever that is.
closeAny(connections, sockets) ==
  [s \in Socket |-> IF s \in sockets THEN "destroyed" ELSE connections[s]]

\* socketInfo.close(): only the one of a TCP socket does anything.
close(connections, sockets) ==
  [s \in Socket |-> IF s \in sockets /\ protocol[s] = "tcp" /\ connections[s] = "open"
                      THEN "destroyed" ELSE connections[s]]

\* A message of socket s reaches its handler.  The lines of a chunk that was
\* read before its socket was destroyed are still handled.
Receives(s) == mode = "listening" /\ conn[s] # "closed"

\* A client uses a uid it was given, and only a controller sends commands.
Sends(s, uid, type, seq) ==
  /\ Receives(s)
  /\ issued[uid] = peer[s]
  /\ (IF type = "ping" THEN "ping" ELSE "payload") \in uses[seq]
  /\ type = "command" => deviceType[peer[s]] = "controller"

-----------------------------------------------------------------------------
(* Handlers. *)

\* registerDevice() of an observer when observers are not allowed: no answer.
RegisterRefused(s) ==
  /\ Receives(s)
  /\ ~validDeviceType(deviceType[peer[s]])
  /\ out' = {}
  /\ UNCHANGED <<list, stickers, delayed, conn, mode, issued, high>>

\* The sticky message registerDevice() schedules, as it is at that time.
stickyFor(s, uid) ==
  LET d == peer[s]
      type == stickyTypeFor(deviceType[d])
      content == get(stickers, channel[d], deviceType[d])
  IN  IF content = NoSticky THEN << >>
      ELSE <<Payload(type, s, uid, content.seq, content.data, "sticky")>>

RegisterDevice(s, seq) ==
  LET d == peer[s]
      uid == Len(issued) + 1
      old == superseded(list, deviceType[d], channel[d])
  IN  /\ Receives(s)
      /\ "register" \in uses[seq]
      /\ validDeviceType(deviceType[d])
      /\ uid <= MaxUid
      /\ list' = add(list, deviceType[d], channel[d], s, seq, uid)
      /\ conn' = close(conn, {list[u].socket : u \in {old} \cap DOMAIN list})
      /\ out' = _send({Reply("register", s, uid, seq)}, conn')
      /\ delayed' = delayed \o stickyFor(s, uid)
      /\ Len(delayed') <= MaxDelayed
      /\ issued' = Append(issued, d)
      /\ high' = Append(high, 0)
      /\ UNCHANGED <<stickers, mode>>

\* The 20 ms timer of a sticky message.  Sending on the UDP socket after
\* close() throws out of the timer and ends the process.
SendSticky ==
  /\ delayed # << >>
  /\ mode \in {"listening", "closed"}
  /\ delayed' = Tail(delayed)
  /\ IF mode = "closed" /\ protocol[Head(delayed).socket] = "udp4"
       THEN mode' = "crashed" /\ out' = {}
       ELSE mode' = mode /\ out' = _send({Head(delayed)}, conn)
  /\ UNCHANGED <<list, stickers, conn, issued, high>>

RespondToPing(s, uid, seq) ==
  /\ Sends(s, uid, "ping", seq)
  /\ uid \in DOMAIN list
  /\ list' = update(list, uid, s, seq)
  /\ out' = _send({Reply("ping", s, uid, seq)}, conn)
  /\ UNCHANGED <<stickers, delayed, conn, mode, issued, high>>

\* A ping of a device the registry does not know
PingUnknown(s, uid, seq) ==
  /\ Sends(s, uid, "ping", seq)
  /\ uid \notin DOMAIN list
  /\ out' = _send({Error("DEVICE_NOT_REGISTERED", s, seq, deviceType[peer[s]])}, conn)
  /\ UNCHANGED <<list, stickers, delayed, conn, mode, issued, high>>

\* Every call of forward() answers with an error of its own.
errors(code, s, type, seq) == {Error(code, s, seq, t) : t \in forwardTo(type)}

ForwardUnknown(type, s, uid, seq) ==
  /\ Sends(s, uid, type, seq)
  /\ uid \notin DOMAIN list
  /\ out' = _send(errors("DEVICE_NOT_REGISTERED", s, type, seq), conn)
  /\ UNCHANGED <<list, stickers, delayed, conn, mode, issued, high>>

ForwardDenied(type, s, uid, seq) ==
  /\ Sends(s, uid, type, seq)
  /\ uid \in DOMAIN list
  /\ ~isAllowedAction(list, uid, type)
  /\ out' = _send(errors("PERMISSION_DENIED", s, type, seq), conn)
  /\ UNCHANGED <<list, stickers, delayed, conn, mode, issued, high>>

ForwardDropped(type, s, uid, seq) ==
  /\ Sends(s, uid, type, seq)
  /\ isAllowedAction(list, uid, type)
  /\ ~isLatestSeqNum(list, uid, seq)
  /\ out' = {}
  /\ UNCHANGED <<list, stickers, delayed, conn, mode, issued, high>>

\* A slip: the message is sent on under the uid of its sender.
copiesOfSender(before, after, type, to, uid, seq) ==
  {Payload(type, after[u].socket, uid, seq, uid, to) :
     u \in {v \in getAll(after, to, after[uid].channel) :
             isLatestSeqNum(before, uid, seq)}}

\* The copies one call of forward() sends.  It checks the sequence number
\* against `before` and sends to the devices of `after`, its own update done.
copies(before, after, type, to, uid, seq) ==
  {Payload(type, after[u].socket, u, seq, uid, to) :
     u \in {v \in getAll(after, to, after[uid].channel) :
             isLatestSeqNum(before, uid, seq)}}

\* forward() for the first receivers, then, for a status, forward() once more
\* on the list the first call has left.
Forward(type, s, uid, seq, sticky) ==
  LET first == IF type = "command" THEN "toy" ELSE "controller"
  IN  /\ Sends(s, uid, type, seq)
      /\ isAllowedAction(list, uid, type)
      /\ isLatestSeqNum(list, uid, seq)
      /\ list' = update(list, uid, s, seq)
      /\ out' = _send(copies(list, list', type, first, uid, seq) \cup
                      UNION {copies(list', list', type, to, uid, seq) :
                               to \in forwardTo(type) \ {first}}, conn)
      /\ stickers' = set(stickers, list[uid].channel, type, seq, uid, sticky)
      /\ high' = [high EXCEPT ![uid] = IF seq > @ THEN seq ELSE @]
      /\ UNCHANGED <<delayed, conn, mode, issued>>

\* The 'socket-close' event of a TCP connection.  The reader of its lines ends
\* when the client ends the connection; a socket the proxy has destroyed never
\* tells its reader.
SocketClose(s) ==
  /\ mode = "listening"
  /\ protocol[s] = "tcp"
  /\ conn[s] = "open"
  /\ conn' = [conn EXCEPT ![s] = "closed"]
  /\ list' = removeBySocketId(list, s)
  /\ out' = {}
  /\ UNCHANGED <<stickers, delayed, mode, issued, high>>

\* close(): no message is handled any more; the TCP server stops listening,
\* established connections and pending timers stay.
Close ==
  /\ mode = "listening"
  /\ mode' = "closed"
  /\ out' = {}
  /\ UNCHANGED <<list, stickers, delayed, conn, issued, high>>

\* The process ends at any time and a new proxy is started in its place.
Restart ==
  /\ list' = << >>
  /\ stickers' = noStickers
  /\ delayed' = << >>
  /\ conn' = [s \in Socket |-> IF protocol[s] = "tcp" THEN "closed" ELSE conn[s]]
  /\ mode' = "listening"
  /\ out' = {}
  /\ UNCHANGED <<issued, high>>

-----------------------------------------------------------------------------
Init ==
  /\ list = << >>
  /\ stickers = noStickers
  /\ delayed = << >>
  /\ conn = [s \in Socket |-> "open"]
  /\ mode = "listening"
  /\ out = {}
  /\ issued = << >>
  /\ high = << >>

Next ==
  \/ \E s \in Socket : RegisterRefused(s) \/ SocketClose(s)
  \/ \E s \in Socket, seq \in SeqNum : RegisterDevice(s, seq)
  \/ \E s \in Socket, seq \in SeqNum, uid \in Uid :
       RespondToPing(s, uid, seq) \/ PingUnknown(s, uid, seq)
  \/ \E s \in Socket, seq \in SeqNum, uid \in Uid, type \in StickyType :
       \/ ForwardUnknown(type, s, uid, seq)
       \/ ForwardDenied(type, s, uid, seq)
       \/ ForwardDropped(type, s, uid, seq)
       \/ \E sticky \in BOOLEAN : Forward(type, s, uid, seq, sticky)
  \/ SendSticky
  \/ Close
  \/ Restart

Spec == Init /\ [][Next]_vars

-----------------------------------------------------------------------------
(* Properties. *)

Entry ==
  [deviceType : DeviceType, channel : Channel, socket : Socket, seqNum : SeqNum]

Sticky == {NoSticky} \cup [seq : SeqNum, data : Nat]

\* The shape of the state, and what links it: every uid of the registry and of
\* a sticky was issued, and only a running proxy answers.
TypeOK ==
  /\ DOMAIN list \subseteq Uid
  /\ list \in [DOMAIN list -> Entry]
  /\ stickers \in [StickyType -> [Key -> Sticky]]
  /\ delayed \in Seq(PayloadMessage)
  /\ conn \in [Socket -> {"open", "destroyed", "closed"}]
  /\ mode \in {"listening", "closed", "crashed"}
  /\ out \subseteq ReplyMessage \cup ErrorMessage \cup PayloadMessage
  /\ issued \in Seq(Device)
  /\ high \in Seq(Nat) /\ Len(high) = Len(issued)

\* With the onlyOne... settings a channel never has two controllers, or two
\* toys, whatever devices register, move to another address, vanish or return.
OnlyOnePerChannel ==
  \A u, v \in DOMAIN list :
    /\ exclusive(list[u].deviceType)
    /\ list[u].deviceType = list[v].deviceType
    /\ list[u].channel = list[v].channel
    => u = v

\* The type of the devices that may send a status or command
senderType(type) == IF type = "command" THEN "controller" ELSE "toy"

\* A status or command can be traced to the device that sent it, and goes to
\* the device it is addressed to, as far as the keys of the channels tell.
Attributed(m) ==
  /\ m.data \in Uid
  /\ m.uid \in Uid
  /\ peer[m.socket] = issued[m.uid]
  /\ deviceType[issued[m.data]] = senderType(m.type)
  /\ deviceType[issued[m.uid]] \in forwardTo(m.type)
  /\ channelKey[channel[issued[m.data]]] = channelKey[channel[issued[m.uid]]]

EntriesOwned ==
  \A u \in DOMAIN list :
    /\ list[u].deviceType = deviceType[issued[u]]
    /\ list[u].channel = channel[issued[u]]
    /\ peer[list[u].socket] = issued[u]

StickersAuthored ==
  \A type \in StickyType, key \in Key :
    LET sticky == stickers[type][key]
    IN  sticky # NoSticky =>
          /\ sticky.data \in Uid
          /\ deviceType[issued[sticky.data]] = senderType(type)
          /\ channelKey[channel[issued[sticky.data]]] = key

DelayedAttributed == \A i \in 1 .. Len(delayed) : Attributed(delayed[i])

OutAttributed == \A m \in out : m.type \in StickyType => Attributed(m)

\* Whatever the proxy keeps for later can still be traced: an entry belongs to
\* the client it was made for, wherever that has moved; a sticky message was
\* sent by a device entitled to it; a message waiting for its timer, or handed
\* to the transport, is attributed.
Provenance ==
  EntriesOwned /\ StickersAuthored /\ DelayedAttributed /\ OutAttributed

\* A status or command, relayed at once or kept as a sticky message, possibly
\* after its sender has gone, reaches only devices that registered on the
\* channel of its sender; commands go from controllers to toys, statuses from
\* toys to controllers and observers.
ChannelIsolation ==
  \A m \in out : m.type \in StickyType =>
    /\ channel[issued[m.data]] = channel[issued[m.uid]]
    /\ deviceType[issued[m.data]] = senderType(m.type)
    /\ deviceType[issued[m.uid]] \in forwardTo(m.type)

\* What is sent under a uid goes to a socket of the client that was given this
\* uid: the registry never attaches one client's uid to another's address.
Addressed ==
  \A m \in out : m.uid # NoUid => issued[m.uid] = peer[m.socket]

\* The proxy never relays a message of a device after a later one of it.
ForwardedInOrder ==
  [][\A m \in out' :
       m.type \in StickyType /\ m.via # "sticky" => m.seq >= high[m.data]]_vars

\* Every registration the proxy accepts is answered with the new uid.
RegisterAnswered ==
  [][Len(issued') > Len(issued) =>
       \E m \in out' : m.type = "register" /\ m.uid = Len(issued')]_vars

\* A status that reaches one receiver of the channel reaches all of them that
\* can be reached, although forwardStatus() checks its sequence number twice.
StatusReachesAll ==
  [][\A m \in out' : m.type = "status" /\ m.via # "sticky" =>
       \A u \in DOMAIN list' :
         /\ list'[u].deviceType \in forwardTo("status")
         /\ list'[u].channel = channel[issued[m.data]]
         /\ conn'[list'[u].socket] = "open"
         => \E n \in out' : n.type = "status" /\ n.uid = u /\ n.seq = m.seq]_vars

\* No device of a type of which a channel has only one stays in the registry
\* when its connection has ended, although 'socket-close' removes one entry and
\* destroying a socket none.  One case is left: a client that registers again
\* over its connection makes the proxy destroy it, and keeps the new entry.
NoGhosts ==
  \A u \in DOMAIN list :
    exclusive(list[u].deviceType) /\ conn[list[u].socket] # "open" =>
      /\ conn[list[u].socket] = "destroyed"
      /\ \E v \in 1 .. u - 1 : issued[v] = issued[u]

\* A TCP client that has registered and is still connected has an entry: no
\* eviction, close or restart leaves it talking to a proxy that forgot it.
ConnectedIsRegistered ==
  \A s \in Socket, uid \in Uid :
    protocol[s] = "tcp" /\ conn[s] = "open" /\ issued[uid] = peer[s]
      => \E u \in DOMAIN list : list[u].socket = s

\* A sticky message a new device is sent is the current one of its channel.
StickyIsCurrent ==
  [][\A m \in out' : m.type \in StickyType /\ m.via = "sticky" =>
       stickers'[m.type][channelKey[channel[issued[m.uid]]]] =
         [seq |-> m.seq, data |-> m.data]]_vars

-----------------------------------------------------------------------------
(* Refinement: uids are memberships, and the registry holds those that last. *)

deliveries ==
  {[type |-> m.type, from |-> m.data, to |-> m.uid] : m \in {n \in out : n.type \in StickyType}}

Promise == INSTANCE Channels WITH
  Exclusive <- {type \in DeviceType : exclusive(type)},
  joined <- issued,
  members <- DOMAIN list,
  spoken <- {uid \in Uid : high[uid] > 0},
  delivered <- deliveries

\* Whatever the proxy does is a step of Channels: a registration replaces the
\* holders of its own slot and nobody else, a message reaches members of its
\* sender's channel, and only what a member once sent is repeated later.
KeepsPromise == Promise!ChannelsSpec
=============================================================================
