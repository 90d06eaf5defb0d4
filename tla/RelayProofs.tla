----------------------------- MODULE RelayProofs -----------------------------
(***************************************************************************)
(* Proofs about what the proxy answers and relays: registrations are       *)
(* answered, messages are relayed in order, a status reaches all its       *)
(* receivers.  Together they are what Channels specifies, and the proxy    *)
(* implements it: every step of Proxy is one of Channels, uids read as     *)
(* memberships and the registry as those that last.                        *)
(***************************************************************************)
EXTENDS ConnectionProofs

-----------------------------------------------------------------------------
(* Who sends what. *)

\* What waits for its timer is marked as such.
DelayedMarked == \A i \in 1 .. Len(delayed) : delayed[i].via = "sticky"

LEMMA StepDelayedMarked == TypeOK /\ DelayedMarked /\ [Next]_vars => DelayedMarked'
<1> SUFFICES ASSUME TypeOK, DelayedMarked, [Next]_vars PROVE DelayedMarked'
  OBVIOUS
<1>1. CASE UNCHANGED delayed
  BY <1>1 DEF DelayedMarked
<1>2. ASSUME NEW s \in Socket, NEW seq \in SeqNum, RegisterDevice(s, seq) PROVE DelayedMarked'
  <2> DEFINE more == stickyFor(s, Len(issued) + 1)
  <2>1. Len(issued) + 1 \in Nat
    BY DEF TypeOK
  <2>2. more \in Seq(PayloadMessage) /\ delayed \in Seq(PayloadMessage)
    BY <2>1, StickyForType DEF TypeOK
  <2>3. \A i \in 1 .. Len(more) : more[i].via = "sticky"
    BY DEF stickyFor, Payload
  <2>4. delayed' = delayed \o more
    BY <1>2 DEF RegisterDevice
  <2> HIDE DEF more
  <2>5. ASSUME NEW i \in 1 .. Len(delayed') PROVE delayed'[i].via = "sticky"
    <3>1. CASE i <= Len(delayed)
      BY <2>2, <2>4, <3>1 DEF DelayedMarked
    <3>2. CASE i > Len(delayed)
      <4>1. i - Len(delayed) \in 1 .. Len(more) /\ delayed'[i] = more[i - Len(delayed)]
        BY <2>2, <2>4, <3>2
      <4> QED
        BY <2>3, <4>1
    <3> QED
      BY <2>2, <3>1, <3>2
  <2> QED
    BY <2>5 DEF DelayedMarked
<1>3. CASE SendSticky
  <2>1. delayed \in Seq(PayloadMessage) /\ delayed # << >> /\ delayed' = Tail(delayed)
    BY <1>3 DEF SendSticky, TypeOK
  <2>2. \A i \in 1 .. Len(delayed') : i + 1 \in 1 .. Len(delayed) /\ delayed'[i] = delayed[i + 1]
    BY <2>1
  <2> QED
    BY <2>2 DEF DelayedMarked
<1>4. CASE Restart
  BY <1>4 DEF Restart, DelayedMarked
<1>5. ASSUME NEW s \in Socket, NEW seq \in SeqNum, NEW uid \in Uid, NEW type \in StickyType,
             \/ ForwardUnknown(type, s, uid, seq)
             \/ ForwardDenied(type, s, uid, seq)
             \/ ForwardDropped(type, s, uid, seq)
      PROVE  DelayedMarked'
  BY <1>1, <1>5 DEF ForwardUnknown, ForwardDenied, ForwardDropped
<1>6. ASSUME NEW s \in Socket, NEW seq \in SeqNum, NEW uid \in Uid, NEW type \in StickyType,
             NEW sticky \in BOOLEAN, Forward(type, s, uid, seq, sticky)
      PROVE  DelayedMarked'
  BY <1>1, <1>6 DEF Forward
<1>7. ASSUME NEW s \in Socket, NEW seq \in SeqNum, NEW uid \in Uid,
             PingUnknown(s, uid, seq) \/ RespondToPing(s, uid, seq)
      PROVE  DelayedMarked'
  BY <1>1, <1>7 DEF PingUnknown, RespondToPing
<1>8. ASSUME NEW s \in Socket, RegisterRefused(s) \/ SocketClose(s) PROVE DelayedMarked'
  BY <1>1, <1>8 DEF RegisterRefused, SocketClose
<1>9. CASE Close \/ UNCHANGED vars
  BY <1>1, <1>9 DEF Close, vars
<1> QED
  BY <1>2, <1>3, <1>4, <1>5, <1>6, <1>7, <1>8, <1>9 DEF Next

LEMMA DelayedStayMarked == Spec => []DelayedMarked
<1>1. Init => DelayedMarked
  BY DEF Init, DelayedMarked
<1> QED
  BY <1>1, StepDelayedMarked, TypeCorrect, PTL DEF Spec

\* Only forward() relays, and what it relays is its own message.
LEMMA RelayedByForward ==
  ASSUME TypeOK, DelayedMarked, [Next]_vars,
         NEW m \in out', m.type \in StickyType, m.via # "sticky"
  PROVE  \/ UNCHANGED vars
         \/ \E s \in Socket, seq \in SeqNum, uid \in Uid, type \in StickyType :
              /\ \E sticky \in BOOLEAN : Forward(type, s, uid, seq, sticky)
              /\ m.type = type /\ m.seq = seq /\ m.data = uid
<1>1. ASSUME NEW s \in Socket, NEW seq \in SeqNum, RegisterDevice(s, seq) PROVE FALSE
  <2>1. m = Reply("register", s, Len(issued) + 1, seq)
    BY <1>1, SendSubset DEF RegisterDevice
  <2> QED
    BY <2>1 DEF Reply, StickyType
<1>2. ASSUME SendSticky PROVE FALSE
  <2>1. m = delayed[1] /\ 1 \in 1 .. Len(delayed)
    BY <1>2, SendSubset DEF SendSticky, TypeOK
  <2> QED
    BY <2>1 DEF DelayedMarked
<1>3. ASSUME NEW s \in Socket, NEW seq \in SeqNum, NEW uid \in Uid,
             RespondToPing(s, uid, seq) \/ PingUnknown(s, uid, seq)
      PROVE  FALSE
  <2>1. \/ m = Reply("ping", s, uid, seq)
        \/ m = Error("DEVICE_NOT_REGISTERED", s, seq, deviceType[peer[s]])
    BY <1>3, SendSubset DEF RespondToPing, PingUnknown
  <2> QED
    BY <2>1 DEF Reply, Error, StickyType
<1>4. ASSUME NEW s \in Socket, NEW seq \in SeqNum, NEW uid \in Uid, NEW type \in StickyType,
             \/ ForwardUnknown(type, s, uid, seq)
             \/ ForwardDenied(type, s, uid, seq)
             \/ ForwardDropped(type, s, uid, seq)
      PROVE  FALSE
  <2>1. \E c : m \in errors(c, s, type, seq)
    BY <1>4, SendSubset DEF ForwardUnknown, ForwardDenied, ForwardDropped
  <2> QED
    BY <2>1 DEF errors, Error, StickyType
<1>5. ASSUME NEW s \in Socket, NEW seq \in SeqNum, NEW uid \in Uid, NEW type \in StickyType,
             NEW sticky \in BOOLEAN, Forward(type, s, uid, seq, sticky)
      PROVE  m.type = type /\ m.seq = seq /\ m.data = uid
  <2>1. \E before, after, to : m \in copies(before, after, type, to, uid, seq)
    BY <1>5, SendSubset DEF Forward
  <2> QED
    BY <2>1 DEF copies, Payload
<1>6. ASSUME NEW s \in Socket, RegisterRefused(s) \/ SocketClose(s) PROVE FALSE
  BY <1>6 DEF RegisterRefused, SocketClose
<1>7. ASSUME Close \/ Restart PROVE FALSE
  BY <1>7 DEF Close, Restart
<1> QED
  BY <1>1, <1>2, <1>3, <1>4, <1>5, <1>6, <1>7 DEF Next

-----------------------------------------------------------------------------
(* Order. *)

\* The stored number of a device is never behind what was relayed for it.
NeverBehind == \A u \in DOMAIN list : high[u] <= list[u].seqNum

LEMMA StepNeverBehind ==
  ASSUME \A n \in SeqNum : "ping" \notin uses[n], TypeOK, NeverBehind, [Next]_vars
  PROVE  NeverBehind'
<1> USE DEF NeverBehind
<1>1. CASE UNCHANGED <<list, high>>
  BY <1>1
<1>2. ASSUME NEW s \in Socket, NEW seq \in SeqNum, RegisterDevice(s, seq) PROVE NeverBehind'
  <2> DEFINE uid == Len(issued) + 1
  <2>1. /\ list'[uid].seqNum = seq
        /\ \A u \in DOMAIN list' \ {uid} : u \in DOMAIN list /\ list'[u] = list[u]
    BY <1>2, RegisterEntries
  <2>2. high' = Append(high, 0) /\ high \in Seq(Nat) /\ Len(high) = Len(issued)
    BY <1>2 DEF RegisterDevice, TypeOK
  <2>3. high'[uid] = 0 /\ \A u \in DOMAIN list : high'[u] = high[u]
    BY <2>2 DEF TypeOK, Uid
  <2>4. 0 <= seq
    BY BoundsAssumption
  <2> HIDE DEF uid
  <2> QED
    BY <2>1, <2>3, <2>4
<1>3. ASSUME NEW type \in StickyType, NEW s \in Socket, NEW uid \in Uid, NEW seq \in SeqNum,
             NEW sticky \in BOOLEAN, Forward(type, s, uid, seq, sticky)
      PROVE  NeverBehind'
  <2>1. Moved(s, seq, uid)
    BY <1>3 DEF Forward, Moved, Sends, isAllowedAction
  <2>2. list'[uid].seqNum = seq
    BY <1>3, <2>1 DEF Forward, update, Moved, TypeOK, Entry
  <2>3. seq \in Nat /\ list[uid].seqNum <= seq
    BY <1>3, <2>1, BoundsAssumption DEF Forward, isLatestSeqNum, Moved, TypeOK, Entry
  <2>4. high' = [high EXCEPT ![uid] = IF seq > @ THEN seq ELSE @] /\ high \in Seq(Nat)
    BY <1>3 DEF Forward, TypeOK
  <2>5. uid \in DOMAIN high /\ high[uid] \in Nat /\ uid \in DOMAIN list
    BY <2>1, <2>4 DEF TypeOK, Uid, Moved
  <2>6. high'[uid] = (IF seq > high[uid] THEN seq ELSE high[uid])
    BY <2>4, <2>5
  <2>7. \A u \in DOMAIN list \ {uid} : high'[u] = high[u]
    BY <2>4 DEF TypeOK, Uid
  <2>8. list[uid].seqNum \in Nat
    BY <2>5, BoundsAssumption DEF TypeOK, Entry
  <2>9. high'[uid] <= list'[uid].seqNum
    BY <2>2, <2>3, <2>5, <2>6, <2>8
  <2> QED
    BY <2>1, <2>7, <2>9, MovedEntries
<1>4. ASSUME NEW s \in Socket, NEW seq \in SeqNum, NEW uid \in Uid, RespondToPing(s, uid, seq)
      PROVE  FALSE
  BY <1>4 DEF RespondToPing, Sends
<1>5. ASSUME NEW s \in Socket, SocketClose(s) PROVE NeverBehind'
  <2> DEFINE gone == findBySocketId(list, s)
  <2>1. list' = remove(list, gone) /\ list \in [DOMAIN list -> Entry] /\ high' = high
    BY <1>5 DEF SocketClose, removeBySocketId, TypeOK
  <2> HIDE DEF gone
  <2>2. DOMAIN list' \subseteq DOMAIN list /\ \A u \in DOMAIN list' : list'[u] = list[u]
    BY <2>1, RemoveLemma
  <2> QED
    BY <2>1, <2>2
<1>6. CASE Restart
  BY <1>6 DEF Restart
<1>7. ASSUME NEW s \in Socket, NEW seq \in SeqNum, NEW uid \in Uid, NEW type \in StickyType,
             \/ ForwardUnknown(type, s, uid, seq)
             \/ ForwardDenied(type, s, uid, seq)
             \/ ForwardDropped(type, s, uid, seq)
             \/ PingUnknown(s, uid, seq)
      PROVE  NeverBehind'
  BY <1>1, <1>7 DEF ForwardUnknown, ForwardDenied, ForwardDropped, PingUnknown
<1>8. ASSUME NEW s \in Socket, RegisterRefused(s) PROVE NeverBehind'
  BY <1>1, <1>8 DEF RegisterRefused
<1>9. CASE SendSticky \/ Close \/ UNCHANGED vars
  BY <1>1, <1>9 DEF SendSticky, Close, vars
<1>10. \E type : type \in StickyType
  BY DEF StickyType
<1> QED
  BY <1>2, <1>3, <1>4, <1>5, <1>6, <1>7, <1>8, <1>9, <1>10 DEF Next

\* While clients send no pings, the proxy never relays a message of a device
\* after a later one of it, whatever the network does to them.
THEOREM OrderWithoutPings ==
  ASSUME \A n \in SeqNum : "ping" \notin uses[n]
  PROVE  Spec => ForwardedInOrder
<1>1. Init => NeverBehind
  BY DEF Init, NeverBehind
<1>2. TypeOK /\ NeverBehind /\ [Next]_vars => NeverBehind'
  BY StepNeverBehind
<1>3. TypeOK /\ NeverBehind /\ DelayedMarked /\ [Next]_vars =>
        [\A m \in out' :
           m.type \in StickyType /\ m.via # "sticky" => m.seq >= high[m.data]]_vars
  <2> SUFFICES ASSUME TypeOK, NeverBehind, DelayedMarked, [Next]_vars, ~UNCHANGED vars,
                      NEW m \in out', m.type \in StickyType, m.via # "sticky"
               PROVE  m.seq >= high[m.data]
    OBVIOUS
  <2>1. PICK s \in Socket, seq \in SeqNum, uid \in Uid, type \in StickyType :
          /\ \E sticky \in BOOLEAN : Forward(type, s, uid, seq, sticky)
          /\ m.type = type /\ m.seq = seq /\ m.data = uid
    BY RelayedByForward
  <2>2. uid \in DOMAIN list /\ ~(list[uid].seqNum > seq)
    BY <2>1 DEF Forward, isLatestSeqNum
  <2>3. seq \in Nat /\ list[uid].seqNum \in Nat /\ high[uid] \in Nat
    BY <2>2, BoundsAssumption DEF TypeOK, Entry, Uid
  <2>4. high[uid] <= list[uid].seqNum
    BY <2>2 DEF NeverBehind
  <2> QED
    BY <2>1, <2>2, <2>3, <2>4
<1> QED
  BY <1>1, <1>2, <1>3, TypeCorrect, DelayedStayMarked, PTL DEF Spec, ForwardedInOrder

-----------------------------------------------------------------------------
(* Answers. *)

\* Without TCP every registration that is accepted is answered with its uid.
THEOREM RegisterAnsweredWithoutTcp ==
  ASSUME \A s \in Socket : protocol[s] # "tcp"
  PROVE  Spec => RegisterAnswered
<1> DEFINE AllOpen == \A s \in Socket : conn[s] = "open"
<1>1. Init => AllOpen
  BY DEF Init
<1>2. TypeOK /\ AllOpen /\ [Next]_vars => AllOpen'
  <2> SUFFICES ASSUME TypeOK, AllOpen, [Next]_vars PROVE AllOpen'
    OBVIOUS
  <2>1. ASSUME NEW s \in Socket, NEW seq \in SeqNum, RegisterDevice(s, seq) PROVE AllOpen'
    BY <2>1 DEF RegisterDevice, close
  <2>2. ASSUME NEW s \in Socket, SocketClose(s) PROVE FALSE
    BY <2>2 DEF SocketClose
  <2>3. CASE Restart
    BY <2>3 DEF Restart
  <2>4. ASSUME NEW s \in Socket, NEW seq \in SeqNum, NEW uid \in Uid, Moved(s, seq, uid)
        PROVE  AllOpen'
    BY <2>4 DEF Moved
  <2> QED
    BY <2>1, <2>2, <2>3, <2>4, RegistrySteps
<1>3. TypeOK /\ AllOpen /\ [Next]_vars =>
        [Len(issued') > Len(issued) =>
           \E m \in out' : m.type = "register" /\ m.uid = Len(issued')]_vars
  <2> SUFFICES ASSUME TypeOK, AllOpen, [Next]_vars, Len(issued') > Len(issued)
               PROVE  \E m \in out' : m.type = "register" /\ m.uid = Len(issued')
    OBVIOUS
  <2>1. issued' # issued
    BY DEF TypeOK
  <2>2. PICK s \in Socket, seq \in SeqNum : RegisterDevice(s, seq)
    BY <2>1, RegistrySteps DEF Moved, SocketClose, Restart
  <2>3. out' = _send({Reply("register", s, Len(issued) + 1, seq)}, conn')
    BY <2>2 DEF RegisterDevice
  <2>4. conn'[s] = "open"
    BY <2>2 DEF RegisterDevice, close
  <2>5. Reply("register", s, Len(issued) + 1, seq) \in out'
    BY <2>3, <2>4 DEF _send, Reply
  <2>6. Len(issued') = Len(issued) + 1
    BY <2>2, ClientAssumption DEF RegisterDevice, TypeOK
  <2> QED
    BY <2>5, <2>6 DEF Reply
<1> HIDE DEF AllOpen
<1> QED
  BY <1>1, <1>2, <1>3, TypeCorrect, PTL DEF Spec, RegisterAnswered

-----------------------------------------------------------------------------
(* Receivers. *)

\* The registry holds only devices of types it accepts.
Accepted == \A u \in DOMAIN list : validDeviceType(list[u].deviceType)

LEMMA StepAccepted == TypeOK /\ Accepted /\ [Next]_vars => Accepted'
<1> SUFFICES ASSUME TypeOK, Accepted, [Next]_vars PROVE Accepted'
  OBVIOUS
<1>1. CASE UNCHANGED <<list, conn, issued>>
  BY <1>1 DEF Accepted
<1>2. ASSUME NEW s \in Socket, NEW seq \in SeqNum, RegisterDevice(s, seq) PROVE Accepted'
  <2> DEFINE uid == Len(issued) + 1
  <2>1. /\ list'[uid].deviceType = deviceType[peer[s]]
        /\ \A u \in DOMAIN list' \ {uid} : u \in DOMAIN list /\ list'[u] = list[u]
    BY <1>2, RegisterEntries
  <2>2. validDeviceType(deviceType[peer[s]])
    BY <1>2 DEF RegisterDevice
  <2> HIDE DEF uid
  <2> QED
    BY <2>1, <2>2 DEF Accepted
<1>3. ASSUME NEW s \in Socket, NEW seq \in SeqNum, NEW uid \in Uid, Moved(s, seq, uid)
      PROVE  Accepted'
  BY <1>3, MovedEntries DEF Accepted
<1>4. ASSUME NEW s \in Socket, SocketClose(s) PROVE Accepted'
  <2> DEFINE gone == findBySocketId(list, s)
  <2>1. list' = remove(list, gone) /\ list \in [DOMAIN list -> Entry]
    BY <1>4 DEF SocketClose, removeBySocketId, TypeOK
  <2> HIDE DEF gone
  <2>2. DOMAIN list' \subseteq DOMAIN list /\ \A u \in DOMAIN list' : list'[u] = list[u]
    BY <2>1, RemoveLemma
  <2> QED
    BY <2>2 DEF Accepted
<1>5. CASE Restart
  BY <1>5 DEF Restart, Accepted
<1> QED
  BY <1>1, <1>2, <1>3, <1>4, <1>5, RegistrySteps

\* forward(), called once or twice, sends to every device of the channel whose
\* type is to receive the message: the first call's update does not make the
\* second call drop it.
LEMMA ForwardReaches ==
  ASSUME TypeOK, EntriesOwned, Accepted',
         NEW s \in Socket, NEW seq \in SeqNum, NEW uid \in Uid, NEW sticky \in BOOLEAN,
         Forward("status", s, uid, seq, sticky),
         NEW u \in DOMAIN list', list'[u].deviceType \in forwardTo("status"),
         list'[u].channel = channel[issued[uid]], conn[list'[u].socket] = "open"
  PROVE  \E n \in out' : n.type = "status" /\ n.uid = u /\ n.seq = seq
<1> DEFINE to == list'[u].deviceType
           all == copies(list, list', "status", "controller", uid, seq) \cup
                  UNION {copies(list', list', "status", t, uid, seq) :
                           t \in forwardTo("status") \ {"controller"}}
           n == Payload("status", list'[u].socket, u, seq, uid, to)
<1>1. uid \in DOMAIN list /\ isLatestSeqNum(list, uid, seq) /\ out' = _send(all, conn)
  BY DEF Forward, isAllowedAction
<1>2. list' = update(list, uid, s, seq)
  BY DEF Forward
<1>3. DOMAIN list' = DOMAIN list /\ list'[uid].seqNum = seq
      /\ list'[uid].channel = list[uid].channel
  BY <1>1, <1>2 DEF update, TypeOK, Entry
<1>4. isLatestSeqNum(list', uid, seq)
  BY <1>1, <1>3, BoundsAssumption DEF isLatestSeqNum
<1>5. list'[u].channel = list'[uid].channel
  BY <1>1, <1>3 DEF EntriesOwned
<1>6. u \in getAll(list', to, list'[uid].channel)
  BY <1>5 DEF Accepted, getAll, onChannel
<1>7. /\ n \in copies(list, list', "status", to, uid, seq)
      /\ n \in copies(list', list', "status", to, uid, seq)
  BY <1>1, <1>4, <1>6 DEF copies
<1>8. n \in all
  <2>1. CASE to = "controller"
    BY <1>7, <2>1
  <2>2. CASE to # "controller"
    BY <1>7, <2>2
  <2> QED
    BY <2>1, <2>2
<1>9. n.socket = list'[u].socket /\ n.type = "status" /\ n.uid = u /\ n.seq = seq
  BY DEF Payload
<1> HIDE DEF n, all
<1>10. n \in out'
  BY <1>1, <1>8, <1>9 DEF _send
<1> QED
  BY <1>9, <1>10

\* A status that reaches one receiver reaches all of its channel that can be
\* reached.
THEOREM StatusReachesEveryone == Spec => StatusReachesAll
<1>1. Init => Accepted
  BY DEF Init, Accepted
<1>2. TypeOK /\ Provenance /\ Accepted /\ Accepted' /\ DelayedMarked /\ [Next]_vars =>
        [\A m \in out' : m.type = "status" /\ m.via # "sticky" =>
           \A u \in DOMAIN list' :
             /\ list'[u].deviceType \in forwardTo("status")
             /\ list'[u].channel = channel[issued[m.data]]
             /\ conn'[list'[u].socket] = "open"
             => \E n \in out' : n.type = "status" /\ n.uid = u /\ n.seq = m.seq]_vars
  <2> SUFFICES ASSUME TypeOK, Provenance, Accepted', DelayedMarked, [Next]_vars, ~UNCHANGED vars,
                      NEW m \in out', m.type = "status", m.via # "sticky",
                      NEW u \in DOMAIN list',
                      list'[u].deviceType \in forwardTo("status"),
                      list'[u].channel = channel[issued[m.data]],
                      conn'[list'[u].socket] = "open"
               PROVE  \E n \in out' : n.type = "status" /\ n.uid = u /\ n.seq = m.seq
    OBVIOUS
  <2>1. PICK s \in Socket, seq \in SeqNum, uid \in Uid, type \in StickyType :
          /\ \E sticky \in BOOLEAN : Forward(type, s, uid, seq, sticky)
          /\ m.type = type /\ m.seq = seq /\ m.data = uid
    BY RelayedByForward DEF StickyType
  <2>2. PICK sticky \in BOOLEAN : Forward("status", s, uid, seq, sticky)
    BY <2>1
  <2>3. conn' = conn
    BY <2>2 DEF Forward
  <2> QED
    BY <2>1, <2>2, <2>3, ForwardReaches DEF Provenance
<1> QED
  BY <1>1, <1>2, StepAccepted, TypeCorrect, ProvenanceKept, DelayedStayMarked, PTL
     DEF Spec, StatusReachesAll


-----------------------------------------------------------------------------
(* What is kept for later was said once.                                   *)

\* A message of uid was relayed.
Said(uid) == uid \in Uid /\ high[uid] > 0

SaidStays == \A u : Said(u) => Said(u)'

StickersSaid ==
  \A type \in StickyType, key \in Key :
    stickers[type][key] # NoSticky => Said(stickers[type][key].data)

DelayedSaid == \A i \in 1 .. Len(delayed) : Said(delayed[i].data)

LEMMA RegisterSaid ==
  ASSUME TypeOK, NEW s \in Socket, NEW seq \in SeqNum, RegisterDevice(s, seq)
  PROVE  \A u : Said(u) <=> Said(u)'
<1>1. /\ issued' = Append(issued, peer[s]) /\ high' = Append(high, 0)
      /\ issued \in Seq(Device) /\ high \in Seq(Nat) /\ Len(high) = Len(issued)
  BY DEF RegisterDevice, TypeOK
<1>2. Len(issued') = Len(issued) + 1 /\ Len(issued) \in Nat
  BY <1>1, ClientAssumption
<1>3. high'[Len(issued) + 1] = 0 /\ \A u \in 1 .. Len(issued) : high'[u] = high[u]
  BY <1>1
<1>4. \A u : u \in Uid' <=> u \in Uid \/ u = Len(issued) + 1
  BY <1>2 DEF Uid
<1>5. Len(issued) + 1 \notin Uid
  BY <1>2 DEF Uid
<1> QED
  BY <1>3, <1>4, <1>5 DEF Said, Uid

LEMMA ForwardSaid ==
  ASSUME TypeOK, NEW type \in StickyType, NEW s \in Socket, NEW uid \in Uid, NEW seq \in SeqNum,
         NEW sticky \in BOOLEAN, Forward(type, s, uid, seq, sticky)
  PROVE  \A u : Said(u)' <=> Said(u) \/ u = uid
<1>1. /\ high' = [high EXCEPT ![uid] = IF seq > @ THEN seq ELSE @]
      /\ issued' = issued /\ Uid' = Uid
      /\ high \in Seq(Nat) /\ uid \in DOMAIN high
  BY DEF Forward, TypeOK, Uid
<1>2. seq > 0 /\ seq \in Nat /\ high[uid] \in Nat
  BY <1>1, BoundsAssumption
<1>3. high'[uid] = (IF seq > high[uid] THEN seq ELSE high[uid])
  BY <1>1
<1>4. high'[uid] > 0
  BY <1>2, <1>3
<1>5. \A u \in Uid \ {uid} : high'[u] = high[u]
  BY <1>1 DEF TypeOK, Uid
<1> QED
  BY <1>1, <1>4, <1>5 DEF Said

\* Only these two kinds of steps concern `high`.
LEMMA HighSteps ==
  ASSUME [Next]_vars
  PROVE  \/ UNCHANGED <<issued, high>>
         \/ \E s \in Socket, seq \in SeqNum : RegisterDevice(s, seq)
         \/ \E s \in Socket, seq \in SeqNum, uid \in Uid, type \in StickyType,
               sticky \in BOOLEAN : Forward(type, s, uid, seq, sticky)
<1>1. ASSUME NEW s \in Socket, NEW seq \in SeqNum, NEW uid \in Uid, NEW type \in StickyType,
             \/ ForwardUnknown(type, s, uid, seq)
             \/ ForwardDenied(type, s, uid, seq)
             \/ ForwardDropped(type, s, uid, seq)
      PROVE  UNCHANGED <<issued, high>>
  BY <1>1 DEF ForwardUnknown, ForwardDenied, ForwardDropped
<1>2. ASSUME NEW s \in Socket, NEW seq \in SeqNum, NEW uid \in Uid,
             PingUnknown(s, uid, seq) \/ RespondToPing(s, uid, seq)
      PROVE  UNCHANGED <<issued, high>>
  BY <1>2 DEF PingUnknown, RespondToPing
<1>3. ASSUME NEW s \in Socket, RegisterRefused(s) \/ SocketClose(s)
      PROVE  UNCHANGED <<issued, high>>
  BY <1>3 DEF RegisterRefused, SocketClose
<1>4. CASE SendSticky \/ Close \/ Restart \/ UNCHANGED vars
  BY <1>4 DEF SendSticky, Close, Restart, vars
<1> QED
  BY <1>1, <1>2, <1>3, <1>4 DEF Next

LEMMA StepSaid == ASSUME TypeOK, [Next]_vars PROVE SaidStays
<1>1. CASE UNCHANGED <<issued, high>>
  BY <1>1 DEF SaidStays, Said, Uid
<1>2. ASSUME NEW s \in Socket, NEW seq \in SeqNum, RegisterDevice(s, seq) PROVE SaidStays
  BY <1>2, RegisterSaid DEF SaidStays
<1>3. ASSUME NEW s \in Socket, NEW seq \in SeqNum, NEW uid \in Uid, NEW type \in StickyType,
             NEW sticky \in BOOLEAN, Forward(type, s, uid, seq, sticky)
      PROVE  SaidStays
  BY <1>3, ForwardSaid DEF SaidStays
<1> QED
  BY <1>1, <1>2, <1>3, HighSteps

LEMMA StepStickersSaid ==
  ASSUME TypeOK, StickersSaid, SaidStays, [Next]_vars
  PROVE  StickersSaid'
<1>1. CASE UNCHANGED stickers
  BY <1>1 DEF StickersSaid, SaidStays
<1>2. ASSUME NEW type \in StickyType, NEW s \in Socket, NEW uid \in Uid, NEW seq \in SeqNum,
             NEW sticky \in BOOLEAN, Forward(type, s, uid, seq, sticky)
      PROVE  StickersSaid'
  <2>1. stickers' = set(stickers, list[uid].channel, type, seq, uid, sticky)
    BY <1>2 DEF Forward
  <2>2. Said(uid)'
    BY <1>2, ForwardSaid
  <2>3. ASSUME sticky PROVE StickersSaid'
    <3> DEFINE key == channelKey[list[uid].channel]
               stored == [seq |-> seq, data |-> uid]
    <3>1. stickers' = [stickers EXCEPT ![type][key] = stored]
      BY <2>1, <2>3 DEF set
    <3>2. stored.data = uid
      OBVIOUS
    <3> HIDE DEF key, stored
    <3>3. ASSUME NEW t \in StickyType, NEW k \in Key, stickers'[t][k] # NoSticky
          PROVE  Said(stickers[t][k].data)'
      <4>1. CASE t = type /\ k = key
        <5>1. stickers'[t][k] = stored
          BY <3>1, <4>1 DEF TypeOK
        <5> QED
          BY <2>2, <3>2, <5>1 DEF Said
      <4>2. CASE ~(t = type /\ k = key)
        <5>1. stickers'[t][k] = stickers[t][k]
          BY <3>1, <4>2 DEF TypeOK
        <5>2. Said(stickers[t][k].data)
          BY <3>3, <5>1 DEF StickersSaid
        <5> QED
          BY <5>1, <5>2 DEF SaidStays, Said
      <4> QED
        BY <4>1, <4>2
    <3> QED
      BY <3>3 DEF StickersSaid
  <2>4. CASE ~sticky
    BY <1>1, <2>1, <2>4 DEF set
  <2> QED
    BY <2>3, <2>4
<1>3. CASE Restart
  BY <1>3 DEF Restart, noStickers, StickersSaid
<1>4. ASSUME NEW s \in Socket, NEW seq \in SeqNum, NEW uid \in Uid, NEW type \in StickyType,
             \/ ForwardUnknown(type, s, uid, seq)
             \/ ForwardDenied(type, s, uid, seq)
             \/ ForwardDropped(type, s, uid, seq)
      PROVE  StickersSaid'
  BY <1>1, <1>4 DEF ForwardUnknown, ForwardDenied, ForwardDropped
<1>5. ASSUME NEW s \in Socket, NEW seq \in SeqNum, NEW uid \in Uid,
             PingUnknown(s, uid, seq) \/ RespondToPing(s, uid, seq)
      PROVE  StickersSaid'
  BY <1>1, <1>5 DEF PingUnknown, RespondToPing
<1>6. ASSUME NEW s \in Socket, NEW seq \in SeqNum, RegisterDevice(s, seq) PROVE StickersSaid'
  BY <1>1, <1>6 DEF RegisterDevice
<1>7. ASSUME NEW s \in Socket, RegisterRefused(s) \/ SocketClose(s) PROVE StickersSaid'
  BY <1>1, <1>7 DEF RegisterRefused, SocketClose
<1>8. CASE SendSticky \/ Close \/ UNCHANGED vars
  BY <1>1, <1>8 DEF SendSticky, Close, vars
<1> QED
  BY <1>2, <1>3, <1>4, <1>5, <1>6, <1>7, <1>8 DEF Next

LEMMA StickyForSaid ==
  ASSUME StickersSaid, NEW s \in Socket, NEW uid,
         NEW i \in 1 .. Len(stickyFor(s, uid))
  PROVE  Said(stickyFor(s, uid)[i].data)
<1> DEFINE t == deviceType[peer[s]]
           type == stickyTypeFor(t)
           key == channelKey[channel[peer[s]]]
           content == get(stickers, channel[peer[s]], t)
<1>1. type \in StickyType /\ key \in Key
  BY ClientAssumption, ChannelKeyAssumption DEF stickyTypeFor, StickyType
<1>2. content = stickers[type][key]
  BY DEF get
<1>3. content # NoSticky
  BY DEF stickyFor
<1>4. stickyFor(s, uid)[i] = Payload(type, s, uid, content.seq, content.data, "sticky")
  BY <1>3 DEF stickyFor
<1>5. Said(content.data)
  <2> HIDE DEF content, type, key
  <2> QED
    BY <1>1, <1>2, <1>3 DEF StickersSaid
<1> QED
  BY <1>4, <1>5 DEF Payload

LEMMA StepDelayedSaid ==
  ASSUME TypeOK, StickersSaid, DelayedSaid, SaidStays, [Next]_vars
  PROVE  DelayedSaid'
<1>1. CASE UNCHANGED delayed
  BY <1>1 DEF DelayedSaid, SaidStays, Said
<1>2. ASSUME NEW s \in Socket, NEW seq \in SeqNum, RegisterDevice(s, seq) PROVE DelayedSaid'
  <2> DEFINE more == stickyFor(s, Len(issued) + 1)
  <2>1. Len(issued) + 1 \in Nat
    BY DEF TypeOK
  <2>2. more \in Seq(PayloadMessage) /\ delayed \in Seq(PayloadMessage)
    BY <2>1, StickyForType DEF TypeOK
  <2>3. \A i \in 1 .. Len(more) : Said(more[i].data)
    BY StickyForSaid
  <2>4. delayed' = delayed \o more
    BY <1>2 DEF RegisterDevice
  <2> HIDE DEF more
  <2>5. ASSUME NEW i \in 1 .. Len(delayed') PROVE Said(delayed'[i].data)
    <3>1. CASE i <= Len(delayed)
      BY <2>2, <2>4, <3>1 DEF DelayedSaid
    <3>2. CASE i > Len(delayed)
      <4>1. i - Len(delayed) \in 1 .. Len(more) /\ delayed'[i] = more[i - Len(delayed)]
        BY <2>2, <2>4, <3>2
      <4> QED
        BY <2>3, <4>1
    <3> QED
      BY <2>2, <3>1, <3>2
  <2> QED
    BY <2>5 DEF DelayedSaid, SaidStays, Said
<1>3. CASE SendSticky
  <2>1. delayed \in Seq(PayloadMessage) /\ delayed # << >> /\ delayed' = Tail(delayed)
    BY <1>3 DEF SendSticky, TypeOK
  <2>2. \A i \in 1 .. Len(delayed') : i + 1 \in 1 .. Len(delayed) /\ delayed'[i] = delayed[i + 1]
    BY <2>1
  <2> QED
    BY <2>2 DEF DelayedSaid, SaidStays, Said
<1>4. CASE Restart
  BY <1>4 DEF Restart, DelayedSaid
<1>5. ASSUME NEW s \in Socket, NEW seq \in SeqNum, NEW uid \in Uid, NEW type \in StickyType,
             \/ ForwardUnknown(type, s, uid, seq)
             \/ ForwardDenied(type, s, uid, seq)
             \/ ForwardDropped(type, s, uid, seq)
      PROVE  DelayedSaid'
  BY <1>1, <1>5 DEF ForwardUnknown, ForwardDenied, ForwardDropped
<1>6. ASSUME NEW s \in Socket, NEW seq \in SeqNum, NEW uid \in Uid, NEW type \in StickyType,
             NEW sticky \in BOOLEAN, Forward(type, s, uid, seq, sticky)
      PROVE  DelayedSaid'
  BY <1>1, <1>6 DEF Forward
<1>7. ASSUME NEW s \in Socket, NEW seq \in SeqNum, NEW uid \in Uid,
             PingUnknown(s, uid, seq) \/ RespondToPing(s, uid, seq)
      PROVE  DelayedSaid'
  BY <1>1, <1>7 DEF PingUnknown, RespondToPing
<1>8. ASSUME NEW s \in Socket, RegisterRefused(s) \/ SocketClose(s) PROVE DelayedSaid'
  BY <1>1, <1>8 DEF RegisterRefused, SocketClose
<1>9. CASE Close \/ UNCHANGED vars
  BY <1>1, <1>9 DEF Close, vars
<1> QED
  BY <1>2, <1>3, <1>4, <1>5, <1>6, <1>7, <1>8, <1>9 DEF Next

LEMMA KeptWasSaid == Spec => [](StickersSaid /\ DelayedSaid)
<1>1. Init => StickersSaid /\ DelayedSaid
  <2>1. ASSUME NEW type \in StickyType, NEW key \in Key
        PROVE  noStickers[type][key] = NoSticky
    BY DEF noStickers
  <2> QED
    BY <2>1 DEF Init, StickersSaid, DelayedSaid
<1>2. TypeOK /\ StickersSaid /\ DelayedSaid /\ [Next]_vars => StickersSaid' /\ DelayedSaid'
  BY StepSaid, StepStickersSaid, StepDelayedSaid
<1> QED
  BY <1>1, <1>2, TypeCorrect, PTL DEF Spec

-----------------------------------------------------------------------------
(* Steps nobody is told of.                                                *)

Silent == \A m \in out' : m.type \notin StickyType

LEMMA SilentStep == ASSUME Silent PROVE deliveries' = {}
BY DEF Silent, deliveries

LEMMA Pausing ==
  ASSUME Silent, UNCHANGED <<issued, high>>, DOMAIN list' = DOMAIN list
  PROVE  Promise!Pause
<1>1. {uid \in Uid : high[uid] > 0}' = {uid \in Uid : high[uid] > 0}
  BY DEF Uid
<1> QED
  BY <1>1, SilentStep DEF Promise!Pause

\* A new device replaces the holder of its slot, and nobody else.
LEMMA Replaced ==
  ASSUME TypeOK, OnlyOnePerChannel, EntriesOwned, NEW d \in Device
  PROVE  DOMAIN list \ {superseded(list, deviceType[d], channel[d])}
           = DOMAIN list \ Promise!rivals(d)
<1> DEFINE t == deviceType[d]
           c == channel[d]
           old == superseded(list, t, c)
<1>1. t \in DeviceType /\ NoUid \notin DOMAIN list
  BY ClientAssumption DEF TypeOK, Uid, NoUid
<1>2. Promise!rivals(d) = {u \in DOMAIN list : /\ exclusive(t)
                                               /\ list[u].deviceType = t
                                               /\ list[u].channel = c}
  BY <1>1 DEF Promise!rivals, EntriesOwned
<1>3. CASE \E u \in DOMAIN list : exclusive(t) /\ list[u].deviceType = t /\ list[u].channel = c
  <2>1. PICK u \in DOMAIN list : exclusive(t) /\ list[u].deviceType = t /\ list[u].channel = c
    BY <1>3
  <2>2. old = u
    BY <2>1, SupersededIsHolder
  <2>3. \A v \in DOMAIN list : list[v].deviceType = t /\ list[v].channel = c => v = u
    BY <2>1 DEF OnlyOnePerChannel
  <2> QED
    BY <1>2, <2>1, <2>2, <2>3
<1>4. CASE ~\E u \in DOMAIN list : exclusive(t) /\ list[u].deviceType = t /\ list[u].channel = c
  <2>1. old = NoUid
    <3>1. CASE exclusive(t)
      <4>1. onChannel(list, t, c) = {}
        BY <1>4, <3>1 DEF onChannel
      <4> QED
        BY <3>1, <4>1 DEF superseded, findByDeviceTypeAndChannel, lastMatch
    <3>2. CASE ~exclusive(t)
      BY <3>2 DEF superseded
    <3> QED
      BY <3>1, <3>2
  <2> QED
    BY <1>1, <1>2, <1>4, <2>1
<1> QED
  BY <1>3, <1>4

LEMMA RegisterJoins ==
  ASSUME TypeOK, OnlyOnePerChannel, EntriesOwned,
         NEW s \in Socket, NEW seq \in SeqNum, RegisterDevice(s, seq)
  PROVE  Promise!Join(peer[s])
<1>1. Silent
  <2>1. \A m \in out' : m = Reply("register", s, Len(issued) + 1, seq)
    BY SendSubset DEF RegisterDevice
  <2> QED
    BY <2>1 DEF Silent, Reply, StickyType
<1>2. {uid \in Uid : high[uid] > 0}' = {uid \in Uid : high[uid] > 0}
  BY RegisterSaid DEF Said
<1>3. DOMAIN list' = (DOMAIN list \ Promise!rivals(peer[s])) \cup {Len(issued) + 1}
  BY RegisterEntries, Replaced, ClientAssumption
<1>4. issued' = Append(issued, peer[s])
  BY DEF RegisterDevice
<1> QED
  BY <1>1, <1>2, <1>3, <1>4, SilentStep DEF Promise!Join

LEMMA CloseLeaves ==
  ASSUME TypeOK, NEW s \in Socket, SocketClose(s)
  PROVE  Promise!Pause \/ \E u \in Uid : Promise!Leave(u)
<1> DEFINE gone == findBySocketId(list, s)
<1>1. /\ list' = remove(list, gone) /\ list \in [DOMAIN list -> Entry]
      /\ UNCHANGED <<issued, high>> /\ out' = {}
  BY DEF SocketClose, removeBySocketId, TypeOK
<1> HIDE DEF gone
<1>2. DOMAIN list' = DOMAIN list \ {gone}
  BY <1>1, RemoveLemma
<1>3. Silent
  BY <1>1 DEF Silent
<1>4. {uid \in Uid : high[uid] > 0}' = {uid \in Uid : high[uid] > 0}
  BY <1>1 DEF Uid
<1>5. CASE gone \in DOMAIN list
  <2>1. Promise!Leave(gone)
    BY <1>1, <1>2, <1>3, <1>4, <1>5, SilentStep DEF Promise!Leave
  <2>2. gone \in Uid
    BY <1>5 DEF TypeOK
  <2> QED
    BY <2>1, <2>2
<1>6. CASE gone \notin DOMAIN list
  BY <1>1, <1>2, <1>3, <1>6, Pausing
<1> QED
  BY <1>5, <1>6

LEMMA RestartForgets == ASSUME Restart PROVE Promise!Forget
<1>1. UNCHANGED <<issued, high>> /\ out' = {} /\ DOMAIN list' = {}
  BY DEF Restart
<1>2. {uid \in Uid : high[uid] > 0}' = {uid \in Uid : high[uid] > 0}
  BY <1>1 DEF Uid
<1>3. Silent
  BY <1>1 DEF Silent
<1> QED
  BY <1>1, <1>2, <1>3, SilentStep DEF Promise!Forget

-----------------------------------------------------------------------------
(* Steps that tell.                                                        *)

LEMMA CopyHeard ==
  ASSUME TypeOK', EntriesOwned', NEW type, NEW to, NEW uid \in DOMAIN list', NEW seq,
         NEW before, NEW m \in copies(before, list', type, to, uid, seq)
  PROVE  /\ m.type = type /\ m.data = uid /\ m.uid \in DOMAIN list'
         /\ deviceType[issued'[m.uid]] = to
         /\ channel[issued'[m.uid]] = channel[issued'[uid]]
<1>1. PICK u \in DOMAIN list' :
        /\ list'[u].deviceType = to
        /\ list'[u].channel = list'[uid].channel
        /\ m = Payload(type, list'[u].socket, u, seq, uid, to)
  BY DEF copies, getAll, onChannel
<1>2. m.type = type /\ m.uid = u /\ m.data = uid
  BY <1>1 DEF Payload
<1> QED
  BY <1>1, <1>2 DEF EntriesOwned

\* Whatever forward() sends are copies of its message for one of its receivers.
LEMMA ForwardCopies ==
  ASSUME NEW type \in StickyType, NEW s, NEW uid, NEW seq, NEW sticky,
         Forward(type, s, uid, seq, sticky), NEW m \in out'
  PROVE  \E before : \E to \in forwardTo(type) : m \in copies(before, list', type, to, uid, seq)
<1> DEFINE first == IF type = "command" THEN "toy" ELSE "controller"
           all == copies(list, list', type, first, uid, seq) \cup
                  UNION {copies(list', list', type, to, uid, seq) :
                           to \in forwardTo(type) \ {first}}
<1>1. first \in forwardTo(type)
  BY DEF forwardTo
<1>2. out' = _send(all, conn)
  BY DEF Forward
<1>3. m \in all
  <2> HIDE DEF all
  <2> QED
    BY <1>2, SendSubset
<1> QED
  BY <1>1, <1>3

LEMMA ForwardTells ==
  ASSUME TypeOK, EntriesOwned, TypeOK', EntriesOwned',
         NEW type \in StickyType, NEW s \in Socket, NEW uid \in Uid, NEW seq \in SeqNum,
         NEW sticky \in BOOLEAN, Forward(type, s, uid, seq, sticky)
  PROVE  Promise!Tell(uid, type)
<1>1. /\ uid \in DOMAIN list
      /\ deviceType[issued[uid]] = senderType(type)
  BY AllowedSender DEF Forward
<1>2. issued' = issued /\ DOMAIN list' = DOMAIN list
  BY DEF Forward, update
<1>3. ASSUME NEW m \in out'
      PROVE  /\ m.type = type /\ m.data = uid /\ m.uid \in DOMAIN list
             /\ deviceType[issued[m.uid]] \in forwardTo(type)
             /\ channel[issued[m.uid]] = channel[issued[uid]]
  <2>1. PICK to \in forwardTo(type) :
          \E before : m \in copies(before, list', type, to, uid, seq)
    BY <1>3, ForwardCopies
  <2>2. PICK before : m \in copies(before, list', type, to, uid, seq)
    BY <2>1
  <2>3. /\ m.type = type /\ m.data = uid /\ m.uid \in DOMAIN list'
        /\ deviceType[issued'[m.uid]] = to
        /\ channel[issued'[m.uid]] = channel[issued'[uid]]
    BY <1>1, <1>2, <2>2, CopyHeard
  <2> QED
    BY <1>2, <2>1, <2>3
<1> DEFINE hearers == {m.uid : m \in out'}
<1>4. deliveries' = {[type |-> type, from |-> uid, to |-> v] : v \in hearers}
  BY <1>3 DEF deliveries
<1>5. hearers \in SUBSET {v \in DOMAIN list :
                            Promise!mayHear(v, type) /\ Promise!sameChannel(uid, v)}
  BY <1>3 DEF Promise!mayHear, Promise!sameChannel, forwardTo
<1>6. Promise!maySpeak(uid, type)
  BY <1>1 DEF Promise!maySpeak, senderType
<1>7. {u \in Uid : high[u] > 0}' = {u \in Uid : high[u] > 0} \cup {uid}
  <2>1. \A u : Said(u)' <=> Said(u) \/ u = uid
    BY ForwardSaid
  <2> QED
    BY <2>1 DEF Said
<1> HIDE DEF hearers
<1> QED
  BY <1>1, <1>2, <1>4, <1>5, <1>6, <1>7 DEF Promise!Tell

\* Different channels have different property keys.
KeysDiffer == \A c, e \in Channel : channelKey[c] = channelKey[e] => c = e

LEMMA StickyReminds ==
  ASSUME KeysDiffer, TypeOK, DelayedAttributed, DelayedSaid, SendSticky
  PROVE  \/ Promise!Pause
         \/ \E u, v \in Uid, type \in StickyType : Promise!Remind(u, v, type)
<1> DEFINE m == delayed[1]
<1>1. delayed \in Seq(PayloadMessage) /\ 1 \in 1 .. Len(delayed) /\ Head(delayed) = m
  BY DEF SendSticky, TypeOK
<1>2. m \in PayloadMessage
  BY <1>1
<1>3. Attributed(m) /\ Said(m.data)
  BY <1>1 DEF DelayedAttributed, DelayedSaid
<1>4. UNCHANGED <<list, issued, high>>
  BY DEF SendSticky
<1>5. out' = {} \/ out' = {m}
  <2>1. out' \subseteq {m}
    BY <1>1, SendSubset DEF SendSticky
  <2> HIDE DEF m
  <2> QED
    BY <2>1
<1> HIDE DEF m
<1>6. CASE out' = {}
  BY <1>4, <1>6, Pausing DEF Silent
<1>7. CASE out' = {m}
  <2>1. m.type \in StickyType
    BY <1>2 DEF PayloadMessage
  <2>2. deliveries' = {[type |-> m.type, from |-> m.data, to |-> m.uid]}
    BY <1>7, <2>1 DEF deliveries
  <2>3. m.data \in Uid /\ m.uid \in Uid
    BY <1>3 DEF Attributed
  <2>4. channel[issued[m.data]] \in Channel /\ channel[issued[m.uid]] \in Channel
    BY <2>3, ClientAssumption DEF TypeOK, Uid
  <2>5. Promise!sameChannel(m.data, m.uid)
    BY <1>3, <2>4 DEF KeysDiffer, Attributed, Promise!sameChannel
  <2>6. Promise!maySpeak(m.data, m.type) /\ Promise!mayHear(m.uid, m.type)
    BY <1>3 DEF Attributed, senderType, forwardTo, Promise!maySpeak, Promise!mayHear
  <2>7. m.data \in {uid \in Uid : high[uid] > 0}
    BY <1>3 DEF Said
  <2>8. {uid \in Uid : high[uid] > 0}' = {uid \in Uid : high[uid] > 0}
    BY <1>4 DEF Uid
  <2>9. Promise!Remind(m.data, m.uid, m.type)
    BY <1>4, <2>2, <2>5, <2>6, <2>7, <2>8 DEF Promise!Remind
  <2> QED
    BY <2>1, <2>3, <2>9
<1> QED
  BY <1>5, <1>6, <1>7

-----------------------------------------------------------------------------
(* The refinement.                                                         *)

LEMMA QuietSteps ==
  ASSUME TypeOK, NEW s \in Socket, NEW seq \in SeqNum, NEW uid \in Uid, NEW type \in StickyType,
         \/ RegisterRefused(s)
         \/ RespondToPing(s, uid, seq)
         \/ PingUnknown(s, uid, seq)
         \/ ForwardUnknown(type, s, uid, seq)
         \/ ForwardDenied(type, s, uid, seq)
         \/ ForwardDropped(type, s, uid, seq)
  PROVE  Promise!Pause
<1>1. CASE RegisterRefused(s)
  BY <1>1, Pausing DEF RegisterRefused, Silent
<1>2. CASE RespondToPing(s, uid, seq)
  <2>1. \A m \in out' : m = Reply("ping", s, uid, seq)
    BY <1>2, SendSubset DEF RespondToPing
  <2>2. Silent
    BY <2>1 DEF Silent, Reply, StickyType
  <2> QED
    BY <1>2, <2>2, Pausing DEF RespondToPing, update
<1>3. CASE PingUnknown(s, uid, seq)
  <2>1. \A m \in out' : m = Error("DEVICE_NOT_REGISTERED", s, seq, deviceType[peer[s]])
    BY <1>3, SendSubset DEF PingUnknown
  <2>2. Silent
    BY <2>1 DEF Silent, Error, StickyType
  <2> QED
    BY <1>3, <2>2, Pausing DEF PingUnknown
<1>4. CASE ForwardUnknown(type, s, uid, seq) \/ ForwardDenied(type, s, uid, seq)
  <2>1. \A m \in out' : \E c : m \in errors(c, s, type, seq)
    BY <1>4, SendSubset DEF ForwardUnknown, ForwardDenied
  <2>2. Silent
    BY <2>1 DEF Silent, errors, Error, StickyType
  <2> QED
    BY <1>4, <2>2, Pausing DEF ForwardUnknown, ForwardDenied
<1>5. CASE ForwardDropped(type, s, uid, seq)
  BY <1>5, Pausing DEF ForwardDropped, Silent
<1> QED
  BY <1>1, <1>2, <1>3, <1>4, <1>5

LEMMA StepPromise ==
  ASSUME KeysDiffer, TypeOK, TypeOK', OnlyOnePerChannel, Provenance, Provenance', DelayedSaid,
         [Next]_vars
  PROVE  Promise!ChannelsNext \/ UNCHANGED Promise!chanVars
<1> USE DEF Provenance
<1>1. ASSUME NEW s \in Socket, NEW seq \in SeqNum, RegisterDevice(s, seq)
      PROVE  Promise!ChannelsNext
  BY <1>1, RegisterJoins, ClientAssumption DEF Promise!ChannelsNext
<1>2. ASSUME NEW s \in Socket, SocketClose(s) PROVE Promise!ChannelsNext
  BY <1>2, CloseLeaves DEF Promise!ChannelsNext, Promise!Member, Uid
<1>3. ASSUME NEW s \in Socket, NEW seq \in SeqNum, NEW uid \in Uid, NEW type \in StickyType,
             NEW sticky \in BOOLEAN, Forward(type, s, uid, seq, sticky)
      PROVE  Promise!ChannelsNext
  BY <1>3, ForwardTells DEF Promise!ChannelsNext, Promise!Member, Uid, StickyType
<1>4. CASE SendSticky
  BY <1>4, StickyReminds DEF Promise!ChannelsNext, Promise!Member, Uid, StickyType
<1>5. CASE Restart
  BY <1>5, RestartForgets DEF Promise!ChannelsNext
<1>6. CASE Close
  BY <1>6, Pausing DEF Close, Silent, Promise!ChannelsNext
<1>7. ASSUME NEW s \in Socket, RegisterRefused(s) PROVE Promise!ChannelsNext
  BY <1>7, Pausing DEF RegisterRefused, Silent, Promise!ChannelsNext
<1>8. ASSUME NEW s \in Socket, NEW seq \in SeqNum, NEW uid \in Uid,
             RespondToPing(s, uid, seq) \/ PingUnknown(s, uid, seq)
      PROVE  Promise!ChannelsNext
  BY <1>8, QuietSteps DEF Promise!ChannelsNext, StickyType
<1>9. ASSUME NEW s \in Socket, NEW seq \in SeqNum, NEW uid \in Uid, NEW type \in StickyType,
             \/ ForwardUnknown(type, s, uid, seq)
             \/ ForwardDenied(type, s, uid, seq)
             \/ ForwardDropped(type, s, uid, seq)
      PROVE  Promise!ChannelsNext
  BY <1>9, QuietSteps DEF Promise!ChannelsNext
<1>10. CASE UNCHANGED vars
  BY <1>10 DEF vars, Promise!chanVars, deliveries, Uid
<1> QED
  BY <1>1, <1>2, <1>3, <1>4, <1>5, <1>6, <1>7, <1>8, <1>9, <1>10 DEF Next

LEMMA InitPromise == Init => Promise!ChannelsInit
BY DEF Init, Promise!ChannelsInit, deliveries, Uid

\* Where different channels have different property keys, the proxy implements
\* Channels: under any arrival order, duplication, move, close and restart each
\* step replaces, tells or reminds exactly the members Channels lets it.
THEOREM ProxyKeepsPromise ==
  ASSUME \A c, e \in Channel : channelKey[c] = channelKey[e] => c = e
  PROVE  Spec => KeepsPromise
<1>1. KeysDiffer
  BY DEF KeysDiffer
<1>2. TypeOK /\ TypeOK' /\ OnlyOnePerChannel /\ Provenance /\ Provenance' /\ DelayedSaid
        /\ [Next]_vars => [Promise!ChannelsNext]_(Promise!chanVars)
  BY <1>1, StepPromise
<1> QED
  BY <1>2, InitPromise, TypeCorrect, OneDevicePerSlot, ProvenanceKept, KeptWasSaid, PTL
     DEF Spec, KeepsPromise, Promise!ChannelsSpec
=============================================================================
