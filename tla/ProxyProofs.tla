----------------------------- MODULE ProxyProofs -----------------------------
(***************************************************************************)
(* Proofs about the proxy, for every number of devices, sockets, channels  *)
(* and registrations.                                                      *)
(***************************************************************************)
EXTENDS Proxy, SequenceTheorems, TLAPS

-----------------------------------------------------------------------------
(* The registry's operators. *)

LEMMA RemoveLemma ==
  ASSUME NEW l, NEW uid, l \in [DOMAIN l -> Entry]
  PROVE  LET new == remove(l, uid)
         IN  /\ DOMAIN new = DOMAIN l \ {uid}
             /\ new \in [DOMAIN new -> Entry]
             /\ \A u \in DOMAIN new : new[u] = l[u]
BY DEF remove, Restrict

LEMMA AddLemma ==
  ASSUME NEW l, l \in [DOMAIN l -> Entry], NEW uid, uid \notin DOMAIN l,
         NEW t \in DeviceType, NEW c \in Channel, NEW s \in Socket, NEW seq \in SeqNum
  PROVE  LET old == superseded(l, t, c)
             new == add(l, t, c, s, seq, uid)
         IN  /\ DOMAIN new = (DOMAIN l \ {old}) \cup {uid}
             /\ new \in [DOMAIN new -> Entry]
             /\ new[uid] = [deviceType |-> t, channel |-> c, socket |-> s, seqNum |-> seq]
             /\ \A u \in DOMAIN new \ {uid} : u \in DOMAIN l /\ new[u] = l[u]
<1> DEFINE old == superseded(l, t, c)
           new == add(l, t, c, s, seq, uid)
           device == [deviceType |-> t, channel |-> c, socket |-> s, seqNum |-> seq]
<1>1. device \in Entry
  BY DEF Entry
<1>2. new = [u \in (DOMAIN l \ {old}) \cup {uid} |-> IF u = uid THEN device ELSE remove(l, old)[u]]
  BY RemoveLemma DEF add
<1>3. \A u \in DOMAIN l \ {old} : remove(l, old)[u] = l[u] /\ l[u] \in Entry
  BY RemoveLemma
<1> HIDE DEF old, new, device
<1>4. /\ DOMAIN new = (DOMAIN l \ {old}) \cup {uid}
      /\ new \in [DOMAIN new -> Entry]
      /\ new[uid] = device
      /\ \A u \in DOMAIN new \ {uid} : u \in DOMAIN l /\ new[u] = l[u]
  BY <1>1, <1>2, <1>3
<1> QED
  BY <1>4 DEF old, new, device

LEMMA UpdateLemma ==
  ASSUME NEW l, l \in [DOMAIN l -> Entry], NEW uid \in DOMAIN l,
         NEW s \in Socket, NEW seq \in SeqNum
  PROVE  LET new == update(l, uid, s, seq)
         IN  /\ DOMAIN new = DOMAIN l
             /\ new \in [DOMAIN l -> Entry]
             /\ new[uid] = [deviceType |-> l[uid].deviceType, channel |-> l[uid].channel,
                            socket |-> s, seqNum |-> seq]
             /\ \A u \in DOMAIN l \ {uid} : new[u] = l[u]
BY DEF update, Entry

\* lastMatch of one match is that match.
LEMMA LastMatchSingleton ==
  ASSUME NEW u \in Nat
  PROVE  lastMatch({u}) = u
BY DEF lastMatch, Max

-----------------------------------------------------------------------------
(* Types. *)

LEMMA MessageTypes ==
  /\ \A t \in {"register", "ping"}, s \in Socket, uid \in Nat, seq \in SeqNum :
       Reply(t, s, uid, seq) \in ReplyMessage
  /\ \A c \in {"DEVICE_NOT_REGISTERED", "PERMISSION_DENIED"}, s \in Socket,
        seq \in SeqNum, via \in DeviceType : Error(c, s, seq, via) \in ErrorMessage
  /\ \A t \in StickyType, s \in Socket, uid \in Nat, seq \in SeqNum, data \in Nat,
        via \in DeviceType \cup {"sticky"} :
       Payload(t, s, uid, seq, data, via) \in PayloadMessage
BY DEF Reply, Error, Payload, ReplyMessage, ErrorMessage, PayloadMessage

LEMMA ErrorTypes ==
  ASSUME NEW c \in {"DEVICE_NOT_REGISTERED", "PERMISSION_DENIED"}, NEW s \in Socket,
         NEW type \in StickyType, NEW seq \in SeqNum
  PROVE  errors(c, s, type, seq) \subseteq ErrorMessage
BY MessageTypes DEF errors, forwardTo, DeviceType

\* What the proxy hands to the transport is among what it means to send.
LEMMA SendSubset ==
  ASSUME NEW M, NEW c PROVE _send(M, c) \subseteq M
BY DEF _send

LEMMA StickyForType ==
  ASSUME TypeOK, NEW s \in Socket, NEW uid \in Nat
  PROVE  stickyFor(s, uid) \in Seq(PayloadMessage)
<1> DEFINE d == peer[s]
           type == stickyTypeFor(deviceType[d])
           content == get(stickers, channel[d], deviceType[d])
<1>1. type \in StickyType
  BY DEF stickyTypeFor, StickyType
<1>2. channelKey[channel[d]] \in Key
  BY ClientAssumption, ChannelKeyAssumption
<1>3. content \in Sticky
  BY <1>1, <1>2 DEF get, TypeOK
<1>4. CASE content = NoSticky
  BY <1>4 DEF stickyFor
<1>5. CASE content # NoSticky
  <2>1. content.seq \in SeqNum /\ content.data \in Nat
    BY <1>3, <1>5 DEF Sticky
  <2>2. Payload(type, s, uid, content.seq, content.data, "sticky") \in PayloadMessage
    BY <1>1, <2>1, MessageTypes
  <2> QED
    BY <1>5, <2>2 DEF stickyFor
<1> QED
  BY <1>4, <1>5

LEMMA InitType == Init => TypeOK
<1> SUFFICES ASSUME Init PROVE TypeOK
  OBVIOUS
<1>1. noStickers \in [StickyType -> [Key -> Sticky]]
  BY DEF noStickers, Sticky
<1>2. list \in [DOMAIN list -> Entry] /\ DOMAIN list = {}
  BY DEF Init
<1> QED
  BY <1>1, <1>2 DEF Init, TypeOK, Uid

\* Shorthand for what most handlers leave alone.
Unregistered == UNCHANGED <<list, stickers, delayed, conn, mode, issued, high>>

LEMMA OutOnly ==
  ASSUME TypeOK, Unregistered,
         out' \subseteq ReplyMessage \cup ErrorMessage \cup PayloadMessage
  PROVE  TypeOK'
BY DEF TypeOK, Unregistered, Uid

LEMMA RegisterDeviceType ==
  ASSUME TypeOK, NEW s \in Socket, NEW seq \in SeqNum, RegisterDevice(s, seq)
  PROVE  TypeOK'
<1> DEFINE d == peer[s]
           uid == Len(issued) + 1
<1> USE DEF TypeOK
<1>1. d \in Device /\ deviceType[d] \in DeviceType /\ channel[d] \in Channel
  BY ClientAssumption
<1>2. uid \in Nat /\ uid \notin DOMAIN list
  BY DEF Uid
<1>3. Len(issued') = uid /\ issued' \in Seq(Device)
  BY <1>1 DEF RegisterDevice
<1>4. high' \in Seq(Nat) /\ Len(high') = Len(issued')
  BY <1>3 DEF RegisterDevice
<1>5. DOMAIN list' \subseteq Uid' /\ list' \in [DOMAIN list' -> Entry]
  <2>1. list' = add(list, deviceType[d], channel[d], s, seq, uid)
    BY DEF RegisterDevice
  <2>2. /\ DOMAIN list' \subseteq DOMAIN list \cup {uid}
        /\ list' \in [DOMAIN list' -> Entry]
    BY <1>1, <1>2, <2>1, AddLemma
  <2>3. Uid' = Uid \cup {uid}
    BY <1>3 DEF Uid
  <2> QED
    BY <2>2, <2>3
<1>6. delayed' \in Seq(PayloadMessage)
  <2>1. stickyFor(s, uid) \in Seq(PayloadMessage)
    BY <1>2, StickyForType
  <2> QED
    BY <2>1 DEF RegisterDevice
<1>7. out' \subseteq ReplyMessage
  <2>1. Reply("register", s, uid, seq) \in ReplyMessage
    BY <1>2, MessageTypes
  <2> QED
    BY <2>1, SendSubset DEF RegisterDevice
<1>8. conn' \in [Socket -> {"open", "destroyed", "closed"}]
  BY DEF RegisterDevice, close
<1> QED
  BY <1>3, <1>4, <1>5, <1>6, <1>7, <1>8 DEF RegisterDevice

LEMMA SendStickyType ==
  ASSUME TypeOK, SendSticky
  PROVE  TypeOK'
<1>1. Head(delayed) \in PayloadMessage /\ delayed' \in Seq(PayloadMessage)
  BY DEF SendSticky, TypeOK
<1>2. out' \subseteq PayloadMessage
  BY <1>1, SendSubset DEF SendSticky
<1>3. mode' \in {"listening", "closed", "crashed"}
  BY DEF SendSticky, TypeOK
<1> QED
  BY <1>1, <1>2, <1>3 DEF SendSticky, TypeOK, Uid

LEMMA RespondToPingType ==
  ASSUME TypeOK, NEW s \in Socket, NEW uid \in Uid, NEW seq \in SeqNum,
         RespondToPing(s, uid, seq)
  PROVE  TypeOK'
<1>1. uid \in Nat /\ Reply("ping", s, uid, seq) \in ReplyMessage
  BY MessageTypes DEF Uid
<1>2. out' \subseteq ReplyMessage
  BY <1>1, SendSubset DEF RespondToPing
<1>3. list' \in [DOMAIN list -> Entry]
  BY UpdateLemma DEF RespondToPing, TypeOK
<1> QED
  BY <1>2, <1>3 DEF RespondToPing, TypeOK, Uid

LEMMA CopiesType ==
  ASSUME NEW before, NEW after, after \in [DOMAIN after -> Entry], DOMAIN after \subseteq Nat,
         NEW type \in StickyType, NEW to \in DeviceType, NEW uid \in Nat, NEW seq \in SeqNum
  PROVE  copies(before, after, type, to, uid, seq) \subseteq PayloadMessage
<1>1. \A u \in DOMAIN after :
        Payload(type, after[u].socket, u, seq, uid, to) \in PayloadMessage
  BY MessageTypes DEF Entry
<1> QED
  BY <1>1 DEF copies, getAll, onChannel

LEMMA ForwardType ==
  ASSUME TypeOK, NEW type \in StickyType, NEW s \in Socket, NEW uid \in Uid,
         NEW seq \in SeqNum, NEW sticky \in BOOLEAN, Forward(type, s, uid, seq, sticky)
  PROVE  TypeOK'
<1> USE DEF TypeOK
<1>1. uid \in Nat /\ uid \in DOMAIN list
  BY DEF Uid, Forward, isAllowedAction
<1>2. list' \in [DOMAIN list -> Entry] /\ DOMAIN list \subseteq Nat
  <2>1. list' = update(list, uid, s, seq)
    BY DEF Forward
  <2>2. list' \in [DOMAIN list -> Entry]
    BY <1>1, <2>1, UpdateLemma
  <2> QED
    BY <2>2 DEF Uid
<1>3. out' \subseteq PayloadMessage
  <2>1. \A before : \A to \in DeviceType :
          copies(before, list', type, to, uid, seq) \subseteq PayloadMessage
    BY <1>1, <1>2, CopiesType
  <2>2. forwardTo(type) \subseteq DeviceType
    BY DEF forwardTo, DeviceType
  <2> DEFINE first == IF type = "command" THEN "toy" ELSE "controller"
             all == copies(list, list', type, first, uid, seq) \cup
                    UNION {copies(list', list', type, to, uid, seq) :
                             to \in forwardTo(type) \ {first}}
  <2>3. first \in DeviceType
    BY DEF DeviceType
  <2>4. all \subseteq PayloadMessage
    BY <2>1, <2>2, <2>3
  <2>5. out' = _send(all, conn)
    BY DEF Forward
  <2> HIDE DEF all
  <2> QED
    BY <2>4, <2>5, SendSubset
<1>4. stickers' \in [StickyType -> [Key -> Sticky]]
  <2>1. channelKey[list[uid].channel] \in Key
    BY <1>1, ChannelKeyAssumption DEF Entry
  <2>2. [seq |-> seq, data |-> uid] \in Sticky
    BY <1>1 DEF Sticky
  <2> QED
    BY <2>1, <2>2 DEF Forward, set
<1>5. high' \in Seq(Nat) /\ Len(high') = Len(high)
  <2>1. seq \in Nat /\ uid \in 1 .. Len(high)
    BY BoundsAssumption DEF Uid
  <2> DEFINE n == IF seq > high[uid] THEN seq ELSE high[uid]
  <2>2. n \in Nat
    BY <2>1
  <2>3. high' = [high EXCEPT ![uid] = n]
    BY DEF Forward
  <2> QED
    BY <2>1, <2>2, <2>3, ExceptSeq
<1> QED
  BY <1>2, <1>3, <1>4, <1>5 DEF Forward, Uid

LEMMA SocketCloseType ==
  ASSUME TypeOK, NEW s \in Socket, SocketClose(s)
  PROVE  TypeOK'
<1>1. list' = remove(list, findBySocketId(list, s))
  BY DEF SocketClose, removeBySocketId
<1>2. list \in [DOMAIN list -> Entry]
  BY DEF TypeOK
<1>3. DOMAIN list' \subseteq DOMAIN list /\ list' \in [DOMAIN list' -> Entry]
  <2> DEFINE uid == findBySocketId(list, s)
  <2>1. /\ DOMAIN remove(list, uid) = DOMAIN list \ {uid}
        /\ remove(list, uid) \in [DOMAIN remove(list, uid) -> Entry]
    BY <1>2, RemoveLemma
  <2> HIDE DEF uid
  <2>2. list' = remove(list, uid)
    BY <1>1 DEF uid
  <2> QED
    BY <2>1, <2>2
<1> QED
  BY <1>3 DEF SocketClose, TypeOK, Uid

LEMMA RestartType ==
  ASSUME TypeOK, Restart
  PROVE  TypeOK'
<1>1. noStickers \in [StickyType -> [Key -> Sticky]]
  BY DEF noStickers, Sticky
<1>2. DOMAIN list' = {} /\ list' \in [DOMAIN list' -> Entry]
  BY DEF Restart
<1>3. conn' \in [Socket -> {"open", "destroyed", "closed"}]
  BY DEF Restart, TypeOK
<1> QED
  BY <1>1, <1>2, <1>3 DEF Restart, TypeOK, Uid


LEMMA StepType == TypeOK /\ [Next]_vars => TypeOK'
<1> SUFFICES ASSUME TypeOK, [Next]_vars PROVE TypeOK'
  OBVIOUS
<1>1. ASSUME NEW s \in Socket, RegisterRefused(s) PROVE TypeOK'
  BY <1>1, OutOnly DEF RegisterRefused, Unregistered
<1>2. ASSUME NEW s \in Socket, SocketClose(s) PROVE TypeOK'
  BY <1>2, SocketCloseType
<1>3. ASSUME NEW s \in Socket, NEW seq \in SeqNum, RegisterDevice(s, seq) PROVE TypeOK'
  BY <1>3, RegisterDeviceType
<1>4. ASSUME NEW s \in Socket, NEW seq \in SeqNum, NEW uid \in Uid, RespondToPing(s, uid, seq)
      PROVE  TypeOK'
  BY <1>4, RespondToPingType
<1>5. ASSUME NEW s \in Socket, NEW seq \in SeqNum, NEW uid \in Uid, PingUnknown(s, uid, seq)
      PROVE  TypeOK'
  <2>1. Error("DEVICE_NOT_REGISTERED", s, seq, deviceType[peer[s]]) \in ErrorMessage
    BY MessageTypes, ClientAssumption
  <2>2. out' \subseteq ErrorMessage
    BY <1>5, <2>1, SendSubset DEF PingUnknown
  <2> QED
    BY <1>5, <2>2, OutOnly DEF PingUnknown, Unregistered
<1>6. ASSUME NEW type \in StickyType, NEW s \in Socket, NEW uid \in Uid, NEW seq \in SeqNum,
             \/ ForwardUnknown(type, s, uid, seq)
             \/ ForwardDenied(type, s, uid, seq)
             \/ ForwardDropped(type, s, uid, seq)
      PROVE  TypeOK'
  <2>1. out' \subseteq ErrorMessage /\ Unregistered
    BY <1>6, ErrorTypes, SendSubset
       DEF ForwardUnknown, ForwardDenied, ForwardDropped, Unregistered
  <2> QED
    BY <2>1, OutOnly
<1>7. ASSUME NEW type \in StickyType, NEW s \in Socket, NEW uid \in Uid, NEW seq \in SeqNum,
             NEW sticky \in BOOLEAN, Forward(type, s, uid, seq, sticky)
      PROVE  TypeOK'
  BY <1>7, ForwardType
<1>8. CASE SendSticky
  BY <1>8, SendStickyType
<1>9. CASE Close
  BY <1>9 DEF Close, TypeOK, Uid
<1>10. CASE Restart
  BY <1>10, RestartType
<1>11. CASE UNCHANGED vars
  BY <1>11 DEF vars, TypeOK, Uid
<1> QED
  BY <1>1, <1>2, <1>3, <1>4, <1>5, <1>6, <1>7, <1>8, <1>9, <1>10, <1>11 DEF Next

\* The state of the proxy keeps its shape: in particular every uid it still
\* uses, in the registry, in a sticky message or a pending one, was issued.
THEOREM TypeCorrect == Spec => []TypeOK
<1>1. Init => TypeOK
  BY InitType
<1>2. TypeOK /\ [Next]_vars => TypeOK'
  BY StepType
<1> QED
  BY <1>1, <1>2, PTL DEF Spec


-----------------------------------------------------------------------------
(* One controller, one toy.                                                *)

\* What add() removes is the only device of the slot.
LEMMA SupersededIsHolder ==
  ASSUME TypeOK, OnlyOnePerChannel, NEW u \in DOMAIN list, exclusive(list[u].deviceType)
  PROVE  superseded(list, list[u].deviceType, list[u].channel) = u
<1>1. onChannel(list, list[u].deviceType, list[u].channel) = {u}
  BY DEF OnlyOnePerChannel, onChannel
<1>2. u \in Nat
  BY DEF TypeOK, Uid
<1> QED
  BY <1>1, <1>2, LastMatchSingleton DEF superseded, findByDeviceTypeAndChannel

LEMMA RegisterKeepsOne ==
  ASSUME TypeOK, OnlyOnePerChannel, NEW s \in Socket, NEW seq \in SeqNum,
         RegisterDevice(s, seq)
  PROVE  OnlyOnePerChannel'
<1> DEFINE d == peer[s]
           t == deviceType[d]
           c == channel[d]
           uid == Len(issued) + 1
<1>1. t \in DeviceType /\ c \in Channel
  BY ClientAssumption
<1>2. uid \in Nat /\ uid \notin DOMAIN list
  BY DEF TypeOK, Uid
<1>3. list \in [DOMAIN list -> Entry]
  BY DEF TypeOK
<1> HIDE DEF t, c, uid
<1>4. /\ DOMAIN list' = (DOMAIN list \ {superseded(list, t, c)}) \cup {uid}
      /\ list'[uid].deviceType = t /\ list'[uid].channel = c
      /\ \A u \in DOMAIN list' \ {uid} : u \in DOMAIN list /\ list'[u] = list[u]
  <2> DEFINE new == add(list, t, c, s, seq, uid)
  <2>1. list' = new
    BY DEF RegisterDevice, t, c, uid
  <2>2. /\ DOMAIN new = (DOMAIN list \ {superseded(list, t, c)}) \cup {uid}
        /\ new[uid] = [deviceType |-> t, channel |-> c, socket |-> s, seqNum |-> seq]
        /\ \A u \in DOMAIN new \ {uid} : u \in DOMAIN list /\ new[u] = list[u]
    BY <1>1, <1>2, <1>3, AddLemma
  <2> HIDE DEF new
  <2> QED
    BY <2>1, <2>2
<1>5. \A u \in DOMAIN list' \ {uid} :
        exclusive(t) => ~(list'[u].deviceType = t /\ list'[u].channel = c)
  BY <1>2, <1>4, SupersededIsHolder
<1> SUFFICES ASSUME NEW u \in DOMAIN list', NEW v \in DOMAIN list',
                    exclusive(list'[u].deviceType),
                    list'[u].deviceType = list'[v].deviceType,
                    list'[u].channel = list'[v].channel
             PROVE  u = v
  BY DEF OnlyOnePerChannel
<1>6. CASE u = uid
  BY <1>4, <1>5, <1>6
<1>7. CASE v = uid
  BY <1>4, <1>5, <1>7
<1>8. CASE u # uid /\ v # uid
  BY <1>4, <1>8 DEF OnlyOnePerChannel
<1> QED
  BY <1>6, <1>7, <1>8

\* Fewer entries, or the same ones at other addresses, keep the slots apart.
LEMMA FewerKeepOne ==
  ASSUME OnlyOnePerChannel, DOMAIN list' \subseteq DOMAIN list,
         \A u \in DOMAIN list' : /\ list'[u].deviceType = list[u].deviceType
                                 /\ list'[u].channel = list[u].channel
  PROVE  OnlyOnePerChannel'
BY DEF OnlyOnePerChannel

LEMMA UpdateKeepsOne ==
  ASSUME TypeOK, OnlyOnePerChannel, NEW uid \in DOMAIN list, NEW s \in Socket,
         NEW seq \in SeqNum, list' = update(list, uid, s, seq)
  PROVE  OnlyOnePerChannel'
<1>1. /\ DOMAIN list' = DOMAIN list
      /\ list'[uid].deviceType = list[uid].deviceType
      /\ list'[uid].channel = list[uid].channel
      /\ \A u \in DOMAIN list \ {uid} : list'[u] = list[u]
  <2> DEFINE new == update(list, uid, s, seq)
  <2>1. list \in [DOMAIN list -> Entry]
    BY DEF TypeOK
  <2>2. /\ DOMAIN new = DOMAIN list
        /\ new[uid] = [deviceType |-> list[uid].deviceType, channel |-> list[uid].channel,
                       socket |-> s, seqNum |-> seq]
        /\ \A u \in DOMAIN list \ {uid} : new[u] = list[u]
    BY <2>1, UpdateLemma
  <2> HIDE DEF new
  <2>3. list' = new
    BY DEF new
  <2> QED
    BY <2>2, <2>3
<1> QED
  BY <1>1, FewerKeepOne

LEMMA StepKeepsOne == TypeOK /\ OnlyOnePerChannel /\ [Next]_vars => OnlyOnePerChannel'
<1> SUFFICES ASSUME TypeOK, OnlyOnePerChannel, [Next]_vars PROVE OnlyOnePerChannel'
  OBVIOUS
<1>1. CASE UNCHANGED list
  BY <1>1, FewerKeepOne
<1>2. ASSUME NEW s \in Socket, NEW seq \in SeqNum, RegisterDevice(s, seq)
      PROVE  OnlyOnePerChannel'
  BY <1>2, RegisterKeepsOne
<1>3. ASSUME NEW s \in Socket, SocketClose(s) PROVE OnlyOnePerChannel'
  <2> DEFINE uid == findBySocketId(list, s)
  <2>1. list \in [DOMAIN list -> Entry] /\ list' = remove(list, uid)
    BY <1>3 DEF TypeOK, SocketClose, removeBySocketId
  <2> HIDE DEF uid
  <2>2. DOMAIN list' \subseteq DOMAIN list /\ \A u \in DOMAIN list' : list'[u] = list[u]
    BY <2>1, RemoveLemma
  <2> QED
    BY <2>2, FewerKeepOne
<1>4. ASSUME NEW s \in Socket, NEW seq \in SeqNum, NEW uid \in Uid, RespondToPing(s, uid, seq)
      PROVE  OnlyOnePerChannel'
  BY <1>4, UpdateKeepsOne DEF RespondToPing
<1>5. ASSUME NEW type \in StickyType, NEW s \in Socket, NEW uid \in Uid, NEW seq \in SeqNum,
             NEW sticky \in BOOLEAN, Forward(type, s, uid, seq, sticky)
      PROVE  OnlyOnePerChannel'
  BY <1>5, UpdateKeepsOne DEF Forward, isAllowedAction
<1>6. CASE Restart
  BY <1>6 DEF Restart, OnlyOnePerChannel
<1>7. ASSUME NEW s \in Socket, NEW seq \in SeqNum, NEW uid \in Uid, NEW type \in StickyType,
             \/ ForwardUnknown(type, s, uid, seq)
             \/ ForwardDenied(type, s, uid, seq)
             \/ ForwardDropped(type, s, uid, seq)
      PROVE  OnlyOnePerChannel'
  BY <1>1, <1>7 DEF ForwardUnknown, ForwardDenied, ForwardDropped
<1>8. ASSUME NEW s \in Socket, RegisterRefused(s) PROVE OnlyOnePerChannel'
  BY <1>1, <1>8 DEF RegisterRefused
<1>9. ASSUME NEW s \in Socket, NEW seq \in SeqNum, NEW uid \in Uid, PingUnknown(s, uid, seq)
      PROVE  OnlyOnePerChannel'
  BY <1>1, <1>9 DEF PingUnknown
<1>10. CASE SendSticky \/ Close \/ UNCHANGED vars
  BY <1>1, <1>10 DEF SendSticky, Close, vars
<1> QED
  BY <1>2, <1>3, <1>4, <1>5, <1>6, <1>7, <1>8, <1>9, <1>10 DEF Next

\* With the onlyOne... settings a channel never has two controllers or two
\* toys, for any number of devices and any schedule of their messages.
THEOREM OneDevicePerSlot == Spec => []OnlyOnePerChannel
<1>1. Init => OnlyOnePerChannel
  BY DEF Init, OnlyOnePerChannel
<1>2. TypeOK /\ OnlyOnePerChannel /\ [Next]_vars => OnlyOnePerChannel'
  BY StepKeepsOne
<1> QED
  BY <1>1, <1>2, TypeCorrect, PTL DEF Spec


-----------------------------------------------------------------------------
(* Where messages come from and where they go.                             *)

\* Uids keep their owners.
IssuedGrows == \A u \in Uid : u \in Uid' /\ issued'[u] = issued[u]

LEMMA StepIssued == ASSUME TypeOK, [Next]_vars PROVE IssuedGrows
<1>1. ASSUME NEW s \in Socket, NEW seq \in SeqNum, RegisterDevice(s, seq) PROVE IssuedGrows
  <2>1. issued \in Seq(Device) /\ peer[s] \in Device /\ issued' = Append(issued, peer[s])
    BY <1>1, ClientAssumption DEF TypeOK, RegisterDevice
  <2> QED
    BY <2>1 DEF IssuedGrows, Uid
<1>2. CASE UNCHANGED issued
  BY <1>2 DEF IssuedGrows, Uid
<1>3. ASSUME NEW s \in Socket, NEW seq \in SeqNum, NEW uid \in Uid, NEW type \in StickyType,
             NEW sticky \in BOOLEAN,
             \/ ForwardUnknown(type, s, uid, seq)
             \/ ForwardDenied(type, s, uid, seq)
             \/ ForwardDropped(type, s, uid, seq)
             \/ Forward(type, s, uid, seq, sticky)
      PROVE  IssuedGrows
  BY <1>2, <1>3 DEF ForwardUnknown, ForwardDenied, ForwardDropped, Forward
<1>4. ASSUME NEW s \in Socket, NEW seq \in SeqNum, NEW uid \in Uid,
             RespondToPing(s, uid, seq) \/ PingUnknown(s, uid, seq)
      PROVE  IssuedGrows
  BY <1>2, <1>4 DEF RespondToPing, PingUnknown
<1>5. ASSUME NEW s \in Socket, RegisterRefused(s) \/ SocketClose(s) PROVE IssuedGrows
  BY <1>2, <1>5 DEF RegisterRefused, SocketClose
<1>6. CASE SendSticky \/ Close \/ Restart \/ UNCHANGED vars
  BY <1>2, <1>6 DEF SendSticky, Close, Restart, vars
<1>7. \E sticky \in BOOLEAN : TRUE
  OBVIOUS
<1> QED
  BY <1>1, <1>3, <1>4, <1>5, <1>6, <1>7 DEF Next

LEMMA AttributedStable ==
  ASSUME IssuedGrows, NEW m, Attributed(m)
  PROVE  Attributed(m)'
BY DEF IssuedGrows, Attributed

LEMMA OwnedUpdate ==
  ASSUME TypeOK, EntriesOwned, NEW uid \in DOMAIN list, NEW s \in Socket, NEW seq \in SeqNum,
         peer[s] = issued[uid], list' = update(list, uid, s, seq), UNCHANGED issued
  PROVE  EntriesOwned'
<1> DEFINE new == update(list, uid, s, seq)
<1>1. list \in [DOMAIN list -> Entry]
  BY DEF TypeOK
<1>2. /\ DOMAIN new = DOMAIN list
      /\ new[uid] = [deviceType |-> list[uid].deviceType, channel |-> list[uid].channel,
                     socket |-> s, seqNum |-> seq]
      /\ \A u \in DOMAIN list \ {uid} : new[u] = list[u]
  BY <1>1, UpdateLemma
<1> HIDE DEF new
<1>3. list' = new
  BY DEF new
<1> QED
  BY <1>2, <1>3 DEF EntriesOwned

LEMMA OwnedRegister ==
  ASSUME TypeOK, EntriesOwned, IssuedGrows, NEW s \in Socket, NEW seq \in SeqNum,
         RegisterDevice(s, seq)
  PROVE  EntriesOwned' /\ Len(issued) + 1 \in Uid' /\ issued'[Len(issued) + 1] = peer[s]
<1> DEFINE d == peer[s]
           t == deviceType[d]
           c == channel[d]
           uid == Len(issued) + 1
           new == add(list, t, c, s, seq, uid)
<1>1. d \in Device /\ t \in DeviceType /\ c \in Channel
  BY ClientAssumption
<1>2. uid \in Nat /\ uid \notin DOMAIN list /\ list \in [DOMAIN list -> Entry]
  BY DEF TypeOK, Uid
<1>3. issued'[uid] = d /\ uid \in Uid'
  BY <1>1 DEF RegisterDevice, TypeOK, Uid
<1>4. list' = new
  BY DEF RegisterDevice
<1> HIDE DEF t, c, uid
<1>5. /\ DOMAIN new = (DOMAIN list \ {superseded(list, t, c)}) \cup {uid}
      /\ new[uid] = [deviceType |-> t, channel |-> c, socket |-> s, seqNum |-> seq]
      /\ \A u \in DOMAIN new \ {uid} : u \in DOMAIN list /\ new[u] = list[u]
  BY <1>1, <1>2, AddLemma
<1> HIDE DEF new
<1>6. \A u \in DOMAIN list : issued'[u] = issued[u]
  BY DEF IssuedGrows, TypeOK
<1>7. ASSUME NEW u \in DOMAIN list'
      PROVE  /\ list'[u].deviceType = deviceType[issued'[u]]
             /\ list'[u].channel = channel[issued'[u]]
             /\ peer[list'[u].socket] = issued'[u]
  <2>1. CASE u = uid
    BY <1>3, <1>4, <1>5, <2>1 DEF t, c
  <2>2. CASE u # uid
    BY <1>4, <1>5, <1>6, <2>2 DEF EntriesOwned
  <2> QED
    BY <2>1, <2>2
<1> QED
  BY <1>3, <1>7 DEF EntriesOwned, uid


LEMMA OwnedKept ==
  ASSUME TypeOK, EntriesOwned, IssuedGrows, DOMAIN list' \subseteq DOMAIN list,
         \A u \in DOMAIN list' : list'[u] = list[u]
  PROVE  EntriesOwned'
<1>1. \A u \in DOMAIN list' : issued'[u] = issued[u]
  BY DEF IssuedGrows, TypeOK
<1> QED
  BY <1>1 DEF EntriesOwned

LEMMA StepOwned == ASSUME TypeOK, EntriesOwned, [Next]_vars PROVE EntriesOwned'
<1>1. IssuedGrows
  BY StepIssued
<1>2. CASE UNCHANGED list
  BY <1>1, <1>2, OwnedKept
<1>3. ASSUME NEW s \in Socket, NEW seq \in SeqNum, RegisterDevice(s, seq) PROVE EntriesOwned'
  BY <1>1, <1>3, OwnedRegister
<1>4. ASSUME NEW s \in Socket, SocketClose(s) PROVE EntriesOwned'
  <2> DEFINE uid == findBySocketId(list, s)
  <2>1. list \in [DOMAIN list -> Entry] /\ list' = remove(list, uid)
    BY <1>4 DEF TypeOK, SocketClose, removeBySocketId
  <2> HIDE DEF uid
  <2>2. DOMAIN list' \subseteq DOMAIN list /\ \A u \in DOMAIN list' : list'[u] = list[u]
    BY <2>1, RemoveLemma
  <2> QED
    BY <1>1, <2>2, OwnedKept
<1>5. ASSUME NEW s \in Socket, NEW seq \in SeqNum, NEW uid \in Uid, RespondToPing(s, uid, seq)
      PROVE  EntriesOwned'
  BY <1>5, OwnedUpdate DEF RespondToPing, Sends
<1>6. ASSUME NEW type \in StickyType, NEW s \in Socket, NEW uid \in Uid, NEW seq \in SeqNum,
             NEW sticky \in BOOLEAN, Forward(type, s, uid, seq, sticky)
      PROVE  EntriesOwned'
  BY <1>6, OwnedUpdate DEF Forward, Sends, isAllowedAction
<1>7. CASE Restart
  BY <1>7 DEF Restart, EntriesOwned
<1>8. ASSUME NEW s \in Socket, NEW seq \in SeqNum, NEW uid \in Uid, NEW type \in StickyType,
             \/ ForwardUnknown(type, s, uid, seq)
             \/ ForwardDenied(type, s, uid, seq)
             \/ ForwardDropped(type, s, uid, seq)
      PROVE  EntriesOwned'
  BY <1>2, <1>8 DEF ForwardUnknown, ForwardDenied, ForwardDropped
<1>9. ASSUME NEW s \in Socket, RegisterRefused(s) PROVE EntriesOwned'
  BY <1>2, <1>9 DEF RegisterRefused
<1>10. ASSUME NEW s \in Socket, NEW seq \in SeqNum, NEW uid \in Uid, PingUnknown(s, uid, seq)
       PROVE  EntriesOwned'
  BY <1>2, <1>10 DEF PingUnknown
<1>11. CASE SendSticky \/ Close \/ UNCHANGED vars
  BY <1>2, <1>11 DEF SendSticky, Close, vars
<1> QED
  BY <1>3, <1>4, <1>5, <1>6, <1>7, <1>8, <1>9, <1>10, <1>11 DEF Next

\* What a device sends with isAllowedAction()'s consent has the right sender.
LEMMA AllowedSender ==
  ASSUME TypeOK, EntriesOwned, NEW type \in StickyType, NEW uid,
         isAllowedAction(list, uid, type)
  PROVE  /\ uid \in DOMAIN list /\ uid \in Uid
         /\ deviceType[issued[uid]] = senderType(type)
         /\ channel[issued[uid]] = list[uid].channel
BY DEF TypeOK, EntriesOwned, isAllowedAction, senderType, StickyType

LEMMA StickersKept ==
  ASSUME StickersAuthored, IssuedGrows, UNCHANGED stickers
  PROVE  StickersAuthored'
BY DEF StickersAuthored, IssuedGrows

LEMMA ForwardStickers ==
  ASSUME TypeOK, EntriesOwned, StickersAuthored, IssuedGrows,
         NEW type \in StickyType, NEW s \in Socket, NEW uid \in Uid, NEW seq \in SeqNum,
         NEW sticky \in BOOLEAN, Forward(type, s, uid, seq, sticky)
  PROVE  StickersAuthored'
<1>1. stickers' = set(stickers, list[uid].channel, type, seq, uid, sticky) /\ UNCHANGED issued
  BY DEF Forward
<1>2. CASE ~sticky
  BY <1>1, <1>2, StickersKept DEF set
<1>3. CASE sticky
  <2> DEFINE key == channelKey[list[uid].channel]
             stored == [seq |-> seq, data |-> uid]
  <2>1. /\ deviceType[issued[uid]] = senderType(type)
        /\ channelKey[channel[issued[uid]]] = key
    BY AllowedSender DEF Forward
  <2>2. stickers' = [stickers EXCEPT ![type][key] = stored]
    BY <1>1, <1>3 DEF set
  <2>3. stored.data = uid
    OBVIOUS
  <2> HIDE DEF key, stored
  <2>4. ASSUME NEW t \in StickyType, NEW k \in Key, stickers'[t][k] # NoSticky
        PROVE  /\ stickers'[t][k].data \in Uid
               /\ deviceType[issued[stickers'[t][k].data]] = senderType(t)
               /\ channelKey[channel[issued[stickers'[t][k].data]]] = k
    <3>1. CASE t = type /\ k = key
      <4>1. stickers'[t][k] = stored
        BY <2>2, <3>1 DEF TypeOK
      <4> QED
        BY <2>1, <2>3, <3>1, <4>1
    <3>2. CASE ~(t = type /\ k = key)
      <4>1. stickers'[t][k] = stickers[t][k]
        BY <2>2, <3>2 DEF TypeOK
      <4> QED
        BY <2>4, <4>1 DEF StickersAuthored
    <3> QED
      BY <3>1, <3>2
  <2> QED
    BY <1>1, <2>4 DEF StickersAuthored, Uid
<1> QED
  BY <1>2, <1>3

LEMMA StepStickers ==
  ASSUME TypeOK, EntriesOwned, StickersAuthored, [Next]_vars
  PROVE  StickersAuthored'
<1>1. IssuedGrows
  BY StepIssued
<1>2. CASE UNCHANGED stickers
  BY <1>1, <1>2, StickersKept
<1>3. ASSUME NEW type \in StickyType, NEW s \in Socket, NEW uid \in Uid, NEW seq \in SeqNum,
             NEW sticky \in BOOLEAN, Forward(type, s, uid, seq, sticky)
      PROVE  StickersAuthored'
  BY <1>1, <1>3, ForwardStickers
<1>4. CASE Restart
  BY <1>4 DEF Restart, noStickers, StickersAuthored
<1>5. ASSUME NEW s \in Socket, NEW seq \in SeqNum, NEW uid \in Uid, NEW type \in StickyType,
             \/ ForwardUnknown(type, s, uid, seq)
             \/ ForwardDenied(type, s, uid, seq)
             \/ ForwardDropped(type, s, uid, seq)
      PROVE  StickersAuthored'
  BY <1>2, <1>5 DEF ForwardUnknown, ForwardDenied, ForwardDropped
<1>6. ASSUME NEW s \in Socket, NEW seq \in SeqNum, NEW uid \in Uid,
             PingUnknown(s, uid, seq) \/ RespondToPing(s, uid, seq)
      PROVE  StickersAuthored'
  BY <1>2, <1>6 DEF PingUnknown, RespondToPing
<1>7. ASSUME NEW s \in Socket, NEW seq \in SeqNum, RegisterDevice(s, seq) PROVE StickersAuthored'
  BY <1>2, <1>7 DEF RegisterDevice
<1>8. ASSUME NEW s \in Socket, RegisterRefused(s) \/ SocketClose(s) PROVE StickersAuthored'
  BY <1>2, <1>8 DEF RegisterRefused, SocketClose
<1>9. CASE SendSticky \/ Close \/ UNCHANGED vars
  BY <1>2, <1>9 DEF SendSticky, Close, vars
<1> QED
  BY <1>3, <1>4, <1>5, <1>6, <1>7, <1>8, <1>9 DEF Next


LEMMA StickyForAttributed ==
  ASSUME TypeOK, StickersAuthored, IssuedGrows, NEW s \in Socket, NEW uid \in Uid',
         issued'[uid] = peer[s],
         NEW m, NEW i \in 1 .. Len(stickyFor(s, uid)), m = stickyFor(s, uid)[i]
  PROVE  Attributed(m)'
<1> DEFINE t == deviceType[peer[s]]
           type == stickyTypeFor(t)
           key == channelKey[channel[peer[s]]]
           content == get(stickers, channel[peer[s]], t)
<1>1. t \in DeviceType /\ key \in Key
  BY ClientAssumption, ChannelKeyAssumption
<1>2. type \in StickyType /\ t \in forwardTo(type)
  BY <1>1 DEF stickyTypeFor, StickyType, forwardTo, DeviceType
<1>3. content = stickers[type][key]
  BY DEF get
<1>4. content # NoSticky
  BY DEF stickyFor
<1>5. m = Payload(type, s, uid, content.seq, content.data, "sticky")
  BY <1>4 DEF stickyFor
<1> HIDE DEF content, type, key
<1>6. /\ content.data \in Uid
      /\ deviceType[issued[content.data]] = senderType(type)
      /\ channelKey[channel[issued[content.data]]] = key
  BY <1>1, <1>2, <1>3, <1>4 DEF StickersAuthored
<1>7. content.data \in Uid' /\ issued'[content.data] = issued[content.data]
  BY <1>6 DEF IssuedGrows
<1>8. m.data = content.data /\ m.uid = uid /\ m.socket = s /\ m.type = type
  BY <1>5 DEF Payload
<1> QED
  BY <1>2, <1>6, <1>7, <1>8 DEF Attributed, key

LEMMA StepDelayed ==
  ASSUME TypeOK, EntriesOwned, StickersAuthored, DelayedAttributed, [Next]_vars
  PROVE  DelayedAttributed'
<1>1. IssuedGrows
  BY StepIssued
<1>2. CASE UNCHANGED delayed
  BY <1>1, <1>2, AttributedStable DEF DelayedAttributed
<1>3. ASSUME NEW s \in Socket, NEW seq \in SeqNum, RegisterDevice(s, seq) PROVE DelayedAttributed'
  <2> DEFINE uid == Len(issued) + 1
             more == stickyFor(s, uid)
  <2>1. uid \in Uid' /\ issued'[uid] = peer[s] /\ uid \in Nat
    BY <1>1, <1>3, OwnedRegister DEF TypeOK
  <2>2. more \in Seq(PayloadMessage) /\ delayed \in Seq(PayloadMessage)
    BY <2>1, StickyForType DEF TypeOK
  <2>3. delayed' = delayed \o more
    BY <1>3 DEF RegisterDevice
  <2>4. ASSUME NEW m, NEW i \in 1 .. Len(more), m = more[i] PROVE Attributed(m)'
    BY <1>1, <2>1, <2>4, StickyForAttributed
  <2>5. ASSUME NEW m, NEW i \in 1 .. Len(delayed), m = delayed[i] PROVE Attributed(m)'
    BY <1>1, <2>5, AttributedStable DEF DelayedAttributed
  <2> HIDE DEF more
  <2>6. ASSUME NEW i \in 1 .. Len(delayed') PROVE Attributed(delayed[i])'
    <3>1. CASE i <= Len(delayed)
      BY <2>2, <2>3, <2>5, <3>1
    <3>2. CASE i > Len(delayed)
      <4>1. i - Len(delayed) \in 1 .. Len(more) /\ delayed'[i] = more[i - Len(delayed)]
        BY <2>2, <2>3, <3>2
      <4> QED
        BY <2>4, <4>1
    <3> QED
      BY <2>2, <3>1, <3>2
  <2> QED
    BY <2>6 DEF DelayedAttributed
<1>4. CASE SendSticky
  <2>1. /\ delayed \in Seq(PayloadMessage) /\ delayed # << >> /\ delayed' = Tail(delayed)
    BY <1>4 DEF SendSticky, TypeOK
  <2>2. \A i \in 1 .. Len(delayed') : i + 1 \in 1 .. Len(delayed) /\ delayed'[i] = delayed[i + 1]
    BY <2>1
  <2> QED
    BY <1>1, <2>2, AttributedStable DEF DelayedAttributed
<1>5. CASE Restart
  BY <1>5 DEF Restart, DelayedAttributed
<1>6. ASSUME NEW s \in Socket, NEW seq \in SeqNum, NEW uid \in Uid, NEW type \in StickyType,
             NEW sticky \in BOOLEAN,
             \/ ForwardUnknown(type, s, uid, seq)
             \/ ForwardDenied(type, s, uid, seq)
             \/ ForwardDropped(type, s, uid, seq)
             \/ Forward(type, s, uid, seq, sticky)
      PROVE  DelayedAttributed'
  BY <1>2, <1>6 DEF ForwardUnknown, ForwardDenied, ForwardDropped, Forward
<1>7. ASSUME NEW s \in Socket, NEW seq \in SeqNum, NEW uid \in Uid,
             PingUnknown(s, uid, seq) \/ RespondToPing(s, uid, seq)
      PROVE  DelayedAttributed'
  BY <1>2, <1>7 DEF PingUnknown, RespondToPing
<1>8. ASSUME NEW s \in Socket, RegisterRefused(s) \/ SocketClose(s) PROVE DelayedAttributed'
  BY <1>2, <1>8 DEF RegisterRefused, SocketClose
<1>9. CASE Close \/ UNCHANGED vars
  BY <1>2, <1>9 DEF Close, vars
<1>10. \E sticky \in BOOLEAN : TRUE
  OBVIOUS
<1> QED
  BY <1>3, <1>4, <1>5, <1>6, <1>7, <1>8, <1>9, <1>10 DEF Next


LEMMA OutEmpty == ASSUME out' = {} PROVE OutAttributed' /\ Addressed'
BY DEF OutAttributed, Addressed

LEMMA OutErrors ==
  ASSUME NEW c, NEW s, NEW type, NEW seq, NEW d,
         \/ out' \subseteq errors(c, s, type, seq)
         \/ out' \subseteq {Error(c, s, seq, d)}
  PROVE  OutAttributed' /\ Addressed'
BY DEF errors, Error, OutAttributed, Addressed, StickyType

\* A copy forward() sends is attributed, given the registry it leaves behind.
LEMMA CopyAttributed ==
  ASSUME TypeOK', EntriesOwned', NEW type \in StickyType, NEW to \in forwardTo(type),
         NEW uid \in DOMAIN list', deviceType[issued'[uid]] = senderType(type), NEW seq,
         NEW before, NEW m \in copies(before, list', type, to, uid, seq)
  PROVE  Attributed(m)'
<1>1. PICK u \in DOMAIN list' :
        /\ list'[u].deviceType = to
        /\ list'[u].channel = list'[uid].channel
        /\ m = Payload(type, list'[u].socket, u, seq, uid, to)
  BY DEF copies, getAll, onChannel
<1>2. m.type = type /\ m.socket = list'[u].socket /\ m.uid = u /\ m.data = uid
  BY <1>1 DEF Payload
<1>3. u \in Uid' /\ uid \in Uid'
  BY DEF TypeOK
<1>4. /\ deviceType[issued'[u]] = to
      /\ channel[issued'[u]] = channel[issued'[uid]]
      /\ peer[list'[u].socket] = issued'[u]
  BY <1>1 DEF EntriesOwned
<1> QED
  BY <1>2, <1>3, <1>4 DEF Attributed

LEMMA ForwardOut ==
  ASSUME TypeOK, EntriesOwned, TypeOK', EntriesOwned',
         NEW type \in StickyType, NEW s \in Socket, NEW uid \in Uid, NEW seq \in SeqNum,
         NEW sticky \in BOOLEAN, Forward(type, s, uid, seq, sticky)
  PROVE  OutAttributed' /\ Addressed'
<1>1. uid \in DOMAIN list' /\ deviceType[issued'[uid]] = senderType(type)
  <2>1. uid \in DOMAIN list /\ deviceType[issued[uid]] = senderType(type)
    BY AllowedSender DEF Forward
  <2>2. issued' = issued /\ list' = update(list, uid, s, seq)
    BY DEF Forward
  <2>3. DOMAIN update(list, uid, s, seq) = DOMAIN list
    BY DEF update
  <2> QED
    BY <2>1, <2>2, <2>3
<1>2. ASSUME NEW m \in out'
      PROVE  \E before : \E to \in forwardTo(type) :
               m \in copies(before, list', type, to, uid, seq)
  <2> DEFINE first == IF type = "command" THEN "toy" ELSE "controller"
             all == copies(list, list', type, first, uid, seq) \cup
                    UNION {copies(list', list', type, to, uid, seq) :
                             to \in forwardTo(type) \ {first}}
  <2>1. first \in forwardTo(type)
    BY DEF forwardTo
  <2>2. out' = _send(all, conn)
    BY DEF Forward
  <2>3. m \in all
    <3> HIDE DEF all
    <3> QED
      BY <1>2, <2>2, SendSubset
  <2> QED
    BY <2>1, <2>3
<1>3. \A m \in out' : Attributed(m)'
  BY <1>1, <1>2, CopyAttributed
<1>4. \A m \in out' : issued'[m.uid] = peer[m.socket]
  BY <1>3 DEF Attributed
<1> QED
  BY <1>3, <1>4 DEF OutAttributed, Addressed

LEMMA StepOut ==
  ASSUME TypeOK, Provenance, Addressed, [Next]_vars
  PROVE  OutAttributed' /\ Addressed'
<1> USE DEF Provenance
<1>1. IssuedGrows /\ TypeOK' /\ EntriesOwned'
  BY StepIssued, StepType, StepOwned
<1>2. CASE out' = {}
  BY <1>2, OutEmpty
<1>3. ASSUME NEW s \in Socket, NEW seq \in SeqNum, RegisterDevice(s, seq)
      PROVE  OutAttributed' /\ Addressed'
  <2> DEFINE uid == Len(issued) + 1
  <2>1. issued'[uid] = peer[s]
    BY <1>1, <1>3, OwnedRegister
  <2>2. \A m \in out' : m = Reply("register", s, uid, seq)
    BY <1>3, SendSubset DEF RegisterDevice
  <2> QED
    BY <2>1, <2>2 DEF Reply, OutAttributed, Addressed, StickyType
<1>4. CASE SendSticky
  <2>1. \A m \in out' : m = delayed[1]
    BY <1>4, SendSubset DEF SendSticky, TypeOK
  <2>2. 1 \in 1 .. Len(delayed)
    BY <1>4 DEF SendSticky, TypeOK
  <2>3. \A m \in out' : Attributed(m)'
    BY <1>1, <2>1, <2>2, AttributedStable DEF DelayedAttributed
  <2> QED
    BY <2>3 DEF OutAttributed, Addressed, Attributed
<1>5. ASSUME NEW s \in Socket, NEW seq \in SeqNum, NEW uid \in Uid, RespondToPing(s, uid, seq)
      PROVE  OutAttributed' /\ Addressed'
  <2>1. issued'[uid] = peer[s]
    BY <1>5 DEF RespondToPing, Sends
  <2>2. \A m \in out' : m = Reply("ping", s, uid, seq)
    BY <1>5, SendSubset DEF RespondToPing
  <2> QED
    BY <2>1, <2>2 DEF Reply, OutAttributed, Addressed, StickyType
<1>6. ASSUME NEW s \in Socket, NEW seq \in SeqNum, NEW uid \in Uid, PingUnknown(s, uid, seq)
      PROVE  OutAttributed' /\ Addressed'
  <2>1. out' \subseteq {Error("DEVICE_NOT_REGISTERED", s, seq, deviceType[peer[s]])}
    BY <1>6, SendSubset DEF PingUnknown
  <2> QED
    BY <2>1, OutErrors
<1>7. ASSUME NEW type \in StickyType, NEW s \in Socket, NEW uid \in Uid, NEW seq \in SeqNum,
             ForwardUnknown(type, s, uid, seq) \/ ForwardDenied(type, s, uid, seq)
      PROVE  OutAttributed' /\ Addressed'
  <2>1. \E c : out' \subseteq errors(c, s, type, seq)
    BY <1>7, SendSubset DEF ForwardUnknown, ForwardDenied
  <2> QED
    BY <2>1, OutErrors
<1>8. ASSUME NEW type \in StickyType, NEW s \in Socket, NEW uid \in Uid, NEW seq \in SeqNum,
             NEW sticky \in BOOLEAN, Forward(type, s, uid, seq, sticky)
      PROVE  OutAttributed' /\ Addressed'
  BY <1>1, <1>8, ForwardOut
<1>9. ASSUME NEW type \in StickyType, NEW s \in Socket, NEW uid \in Uid, NEW seq \in SeqNum,
             ForwardDropped(type, s, uid, seq)
      PROVE  OutAttributed' /\ Addressed'
  BY <1>2, <1>9 DEF ForwardDropped
<1>10. ASSUME NEW s \in Socket, RegisterRefused(s) \/ SocketClose(s)
       PROVE  OutAttributed' /\ Addressed'
  BY <1>2, <1>10 DEF RegisterRefused, SocketClose
<1>11. CASE Close \/ Restart
  BY <1>2, <1>11 DEF Close, Restart
<1>12. CASE UNCHANGED vars
  BY <1>12 DEF vars, OutAttributed, Addressed, Attributed, Uid
<1> QED
  BY <1>3, <1>4, <1>5, <1>6, <1>7, <1>8, <1>9, <1>10, <1>11, <1>12 DEF Next

LEMMA ProvenanceInvariant == Spec => [](Provenance /\ Addressed)
<1>1. Init => Provenance /\ Addressed
  <2>1. ASSUME NEW type \in StickyType, NEW key \in Key
        PROVE  noStickers[type][key] = NoSticky
    BY DEF noStickers
  <2> QED
    BY <2>1 DEF Init, Provenance, EntriesOwned, StickersAuthored, DelayedAttributed,
                OutAttributed, Addressed
<1>2. TypeOK /\ Provenance /\ Addressed /\ [Next]_vars => Provenance' /\ Addressed'
  BY StepOwned, StepStickers, StepDelayed, StepOut DEF Provenance
<1> QED
  BY <1>1, <1>2, TypeCorrect, PTL DEF Spec

\* Nothing the proxy keeps loses its origin: an entry stays with its client
\* when it moves to another address, a sticky message with a device that was
\* entitled to send it, even when that device is long gone.
THEOREM ProvenanceKept == Spec => []Provenance
BY ProvenanceInvariant, PTL

\* What is sent under a uid goes to a socket of the client that was given it.
THEOREM SentToOwner == Spec => []Addressed
BY ProvenanceInvariant, PTL

\* Where different channels have different property keys, no status or command
\* leaves the channel of its sender, be it relayed or kept as sticky.
THEOREM Isolation ==
  ASSUME \A c, e \in Channel : channelKey[c] = channelKey[e] => c = e
  PROVE  Spec => []ChannelIsolation
<1>1. TypeOK /\ Provenance => ChannelIsolation
  <2> SUFFICES ASSUME TypeOK, Provenance, NEW m \in out, m.type \in StickyType
               PROVE  /\ channel[issued[m.data]] = channel[issued[m.uid]]
                      /\ deviceType[issued[m.data]] = senderType(m.type)
                      /\ deviceType[issued[m.uid]] \in forwardTo(m.type)
    BY DEF ChannelIsolation
  <2>1. Attributed(m)
    BY DEF Provenance, OutAttributed
  <2>2. issued[m.data] \in Device /\ issued[m.uid] \in Device
    BY <2>1 DEF Attributed, TypeOK, Uid
  <2>3. channel[issued[m.data]] \in Channel /\ channel[issued[m.uid]] \in Channel
    BY <2>2, ClientAssumption
  <2> QED
    BY <2>1, <2>3 DEF Attributed
<1> QED
  BY <1>1, TypeCorrect, ProvenanceKept, PTL

=============================================================================
