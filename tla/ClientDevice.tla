---------------------------- MODULE ClientDevice ----------------------------
(***************************************************************************)
(* Toys, controllers and observers (src/Device.js) with their pings        *)
(* (src/PingManager.js) and their connection (src/ClientConnection.js).    *)
(* The proxy and the network are the environment: an answer to any message *)
(* that was sent arrives at any time, more than once, or never.            *)
(***************************************************************************)
EXTENDS PingManager, FiniteSets, Sequences

CONSTANTS
  Client,         \* devices
  deviceType,     \* settings.deviceType: "toy", "controller" or "observer"
  keepalive,      \* the devices with a keepalive interval
  errorListener,  \* the devices whose program listens for 'error'
  tcp,            \* the devices connected over TCP
  misread,        \* the devices that may be sent text that does not parse
  closers,        \* the devices whose ping callbacks may call close()
  MaxSeq,         \* bound: messages a device sends
  MaxPings,       \* bound: calls of ping(callback)
  MaxUid          \* bound: uids the proxy gives to a device

ASSUME SetupAssumption ==
  /\ keepalive \subseteq Client
  /\ errorListener \subseteq Client
  /\ tcp \subseteq Client
  /\ misread \subseteq Client
  /\ closers \subseteq Client
  /\ deviceType \in [Client -> {"toy", "controller", "observer"}]

ASSUME DeviceBounds == MaxSeq \in Nat \ {0} /\ MaxPings \in Nat /\ MaxUid \in Nat

VARIABLES
  dev,       \* the fields of every Device object
  sent,      \* all messages given to the transport
  answered   \* history: answered[d][n] counts the calls of d's n-th callback

vars == <<dev, sent, answered>>

NoUid == 0   \* undefined

-----------------------------------------------------------------------------
(* The methods of one device, as functions of its fields `dv`.             *)

Message(d, dv, type) == [from |-> d, type |-> type, uid |-> dv.uid, seq |-> dv.mySeqNum]

\* _send(): only a registered device sends anything but a register message.
maySend(dv, type) == dv.uid # NoUid \/ type = "register"

\* The message is lost when the connection is gone; the number is used up.
messages(d, dv, type) ==
  IF maySend(dv, type) /\ dv.connected THEN {Message(d, dv, type)} ELSE {}

\* A slip: the number is not used up.
sendingUncounted(dv, type) == dv

sending(dv, type) ==
  IF maySend(dv, type) THEN [dv EXCEPT !.mySeqNum = @ + 1] ELSE dv

\* A slip: the timer of the request is not armed.
registeringOnce(dv) ==
  IF dv.recheck THEN dv ELSE sending(dv, "register")

\* register(): nothing while a request is under way
registering(dv) ==
  IF dv.recheck THEN dv ELSE [sending(dv, "register") EXCEPT !.recheck = TRUE]

registerMessages(d, dv) == IF dv.recheck THEN {} ELSE messages(d, dv, "register")

\* The callbacks in `called` run.
calling(counts, called) ==
  [n \in 1 .. Len(counts) |-> IF n \in called THEN counts[n] + 1 ELSE counts[n]]

\* A slip: the keepalive interval goes on.
closingKeepsInterval(dv) ==
  [dv EXCEPT !.uid = NoUid, !.recheck = FALSE,
             !.connected = FALSE, !.mode = "closed", !.pingList = noPings]

\* close()
closing(dv) ==
  [uid |-> NoUid, recheck |-> FALSE, mySeqNum |-> dv.mySeqNum, pingList |-> noPings,
   interval |-> FALSE, connected |-> FALSE, mode |-> "closed"]

\* An 'error' event nobody listens for is thrown and ends the process.
raising(d, dv) ==
  IF d \in errorListener THEN dv
  ELSE [closing(dv) EXCEPT !.mode = "crashed"]

\* Its process has not ended.
running(dv) == dv.mode \in {"open", "closed"}

\* The callbacks that have not been run
waiting(dv) == callbacks(dv.pingList, DOMAIN dv.pingList)

\* Room for another message under the bound
mayCount(dv) == dv.mySeqNum <= MaxSeq

-----------------------------------------------------------------------------
(* Calls of the program that uses the device, a callback of a ping being   *)
(* one more place to call from: nothing but close() makes a difference     *)
(* there.                                                                  *)

\* status(), command() and their sticky forms
Send(d, type) ==
  /\ running(dev[d])
  /\ mayCount(dev[d])
  /\ type = "command" => deviceType[d] = "controller"
  /\ sent' = sent \cup messages(d, dev[d], type)
  /\ dev' = [dev EXCEPT ![d] = sending(@, type)]
  /\ UNCHANGED answered

\* ping(callback): an unregistered device calls back at once.
Ping(d) ==
  LET dv == dev[d]
      callback == Len(answered[d]) + 1
  IN  /\ running(dv)
      /\ mayCount(dv)
      /\ callback <= MaxPings
      /\ IF dv.uid = NoUid
           THEN /\ answered' = [answered EXCEPT ![d] = Append(@, 1)]
                /\ UNCHANGED sent
                /\ UNCHANGED dev
           ELSE /\ answered' = [answered EXCEPT ![d] = Append(@, 0)]
                /\ sent' = sent \cup messages(d, dv, "ping")
                /\ dev' = [dev EXCEPT ![d] = sending(
                     [dv EXCEPT !.pingList = addPing(@, dv.mySeqNum, callback)], "ping")]

\* ping() without a callback takes a number, registered or not; only a
\* registered device uses the number up.
PingUnheard(d) ==
  LET dv == dev[d]
  IN  /\ running(dv)
      /\ mayCount(dv)
      /\ sent' = sent \cup messages(d, dv, "ping")
      /\ dev' = [dev EXCEPT ![d] = sending(
           [dv EXCEPT !.pingList = addPing(@, dv.mySeqNum, NoCallback)], "ping")]
      /\ UNCHANGED answered

\* close() called by a callback.  Its ping is listed until it returns, so close()
\* runs it again, after or before all others; so it does with every callback in
\* `again`.  Callbacks that call close() each time never come to an end: the
\* stack is exhausted when some have been run, and the process ends.
CallbackCloses(d, callback) ==
  LET dv == dev[d]
  IN  /\ d \in closers
      /\ \E run \in SUBSET waiting(dv) : \E again \in SUBSET run :
           /\ callback \in again
           /\ answered' = [answered EXCEPT ![d] = calling(calling(@, run), again)]
           /\ \/ run = waiting(dv) /\ dev' = [dev EXCEPT ![d] = closing(@)]
              \/ dev' = [dev EXCEPT ![d] = [closing(@) EXCEPT !.mode = "exhausted"]]
      /\ UNCHANGED sent

Close(d) ==
  /\ running(dev[d])
  /\ \/ /\ dev' = [dev EXCEPT ![d] = closing(@)]
        /\ answered' = [answered EXCEPT ![d] = calling(@, waiting(dev[d]))]
        /\ UNCHANGED sent
     \/ \E callback \in waiting(dev[d]) : CallbackCloses(d, callback)

-----------------------------------------------------------------------------
(* Timers. *)

\* The keepalive interval
KeepaliveTimer(d) == dev[d].interval /\ PingUnheard(d)

\* checkRegistery(): no answer within NET_TIMEOUT
RecheckTimer(d) ==
  LET cleared == [dev[d] EXCEPT !.recheck = FALSE]
  IN  /\ dev[d].recheck
      /\ mayCount(cleared)
      /\ sent' = sent \cup registerMessages(d, cleared)
      /\ dev' = [dev EXCEPT ![d] = registering(cleared)]
      /\ UNCHANGED answered

\* A ping has ended, by an answer or by its timer: its callback is run.
endPing(d, pingId) ==
  LET called == callbacks(dev[d].pingList, {pingId})
  IN  \/ /\ answered' = [answered EXCEPT ![d] = calling(@, called)]
         /\ dev' = [dev EXCEPT ![d].pingList = removePing(@, pingId)]
         /\ UNCHANGED sent
      \/ \E callback \in called : CallbackCloses(d, callback)

\* A slip: pings are given up by registered devices only.
StalePingIfRegistered(d, pingId) ==
  /\ dev[d].uid # NoUid
  /\ pingId \in DOMAIN dev[d].pingList
  /\ endPing(d, pingId)

\* removeStalePing(), MAX_PING_WAIT_TIME after the ping
StalePing(d, pingId) ==
  /\ pingId \in DOMAIN dev[d].pingList
  /\ endPing(d, pingId)

-----------------------------------------------------------------------------
(* Messages of the proxy and events of the connection. *)

Listening(d) == dev[d].mode = "open"

\* handleRegisterResponse(): a device that has a uid keeps it.
ReceiveRegister(d, uid) ==
  /\ Listening(d)
  /\ dev[d].connected
  /\ dev' = [dev EXCEPT ![d].uid = IF @ = NoUid THEN uid ELSE @,
                        ![d].recheck = FALSE]
  /\ UNCHANGED <<sent, answered>>

\* What the proxy may be answering
hasSent(d, types) == {m \in sent : m.from = d /\ m.type \in types}

\* handlePing()
ReceivePing(d, seq) ==
  /\ Listening(d)
  /\ dev[d].connected
  /\ seq \in {m.seq : m \in hasSent(d, {"ping"})}
  /\ endPing(d, seq)

\* handleCommError() for DEVICE_NOT_REGISTERED
ReceiveNotRegistered(d) ==
  LET lost == [dev[d] EXCEPT !.uid = NoUid]
  IN  /\ Listening(d)
      /\ dev[d].connected
      /\ hasSent(d, {"ping", "status", "command"}) # {}
      /\ mayCount(lost)
      /\ sent' = sent \cup registerMessages(d, lost)
      /\ dev' = [dev EXCEPT ![d] = raising(d, registering(lost))]
      /\ UNCHANGED answered

\* handleCommError() for PERMISSION_DENIED, the answer to a status of a device
\* that is no toy; for errors of a TCP connection and for text that does not
\* parse.  (The proxy's name can be resolved, so a UDP socket has no errors.)
ReceiveOtherError(d) ==
  /\ Listening(d)
  /\ \/ d \in tcp \cup misread
     \/ deviceType[d] # "toy" /\ hasSent(d, {"status"}) # {}
  /\ UNCHANGED sent
  /\ dev' = [dev EXCEPT ![d] = raising(d, @)]
  /\ UNCHANGED answered

\* The TCP connection ends; the device never opens another one.
ConnectionLost(d) ==
  /\ d \in tcp
  /\ dev[d].connected
  /\ dev' = [dev EXCEPT ![d].connected = FALSE]
  /\ UNCHANGED <<sent, answered>>

-----------------------------------------------------------------------------
\* The constructor has registered the device.
newDevice(d) ==
  [uid |-> NoUid, recheck |-> TRUE, mySeqNum |-> 2, pingList |-> noPings,
   interval |-> d \in keepalive, connected |-> TRUE, mode |-> "open"]

Init ==
  /\ dev = [d \in Client |-> newDevice(d)]
  /\ sent = {[from |-> d, type |-> "register", uid |-> NoUid, seq |-> 1] : d \in Client}
  /\ answered = [d \in Client |-> << >>]

Next ==
  \E d \in Client :
    \/ \E type \in {"status", "command"} : Send(d, type)
    \/ Ping(d)
    \/ PingUnheard(d)
    \/ Close(d)
    \/ KeepaliveTimer(d)
    \/ RecheckTimer(d)
    \/ \E pingId \in 1 .. MaxSeq : StalePing(d, pingId) \/ ReceivePing(d, pingId)
    \/ \E uid \in 1 .. MaxUid : ReceiveRegister(d, uid)
    \/ ReceiveNotRegistered(d)
    \/ ReceiveOtherError(d)
    \/ ConnectionLost(d)

Spec == Init /\ [][Next]_vars

\* A timer that stays armed goes off.
Timers ==
  \A d \in Client :
    /\ WF_vars(RecheckTimer(d))
    /\ \A pingId \in 1 .. MaxSeq : WF_vars(StalePing(d, pingId))

FairSpec == Spec /\ Timers

-----------------------------------------------------------------------------
(* Properties. *)

DeviceFields ==
  [uid : 0 .. MaxUid, recheck : BOOLEAN, mySeqNum : 1 .. MaxSeq + 1,
   pingList : UNION {[ids -> 0 .. MaxPings] : ids \in SUBSET (1 .. MaxSeq + 1)},
   interval : BOOLEAN, connected : BOOLEAN,
   mode : {"open", "closed", "crashed", "exhausted"}]

\* The shape of the state; a message in flight never carries a future number.
DeviceTypeOK ==
  /\ dev \in [Client -> DeviceFields]
  /\ \A m \in sent : m.from \in Client /\ m.seq \in 1 .. dev[m.from].mySeqNum - 1
  /\ answered \in [Client -> Seq(Nat)]

\* A device that wants to be registered and is not will try again.
NeverStuck ==
  \A d \in Client :
    dev[d].mode \in {"open", "crashed"} /\ dev[d].uid = NoUid => dev[d].recheck

\* No callback is run twice, but by a close() that a callback calls: its ping is
\* deleted when it returns, so close() finds it.  An open device has run none twice.
CalledOnce ==
  \A d \in Client : \A n \in 1 .. Len(answered[d]) :
    answered[d][n] > 1 => d \in closers /\ dev[d].mode # "open"

\* A callback that has been run is done with: no later answer, timer or close()
\* runs it again, whatever callbacks have called close().
CalledForGood ==
  [][\A d \in Client : \A n \in 1 .. Len(answered[d]) :
       answered[d][n] > 0 => answered'[d][n] = answered[d][n]]_vars

\* A callback of ping() waits until it is run, whoever ends its ping and
\* whatever else happens; it is lost from the start only to a ping without a
\* callback that has taken its number.
PingsKept ==
  [][\A d \in Client : running(dev'[d]) =>
       /\ \A n \in waiting(dev[d]) : n \in waiting(dev'[d]) \/ answered'[d][n] > 0
       /\ \A n \in Len(answered[d]) + 1 .. Len(answered'[d]) :
            \/ n \in waiting(dev'[d]) \/ answered'[d][n] > 0
            \/ /\ dev[d].mySeqNum \in DOMAIN dev[d].pingList
               /\ dev[d].pingList[dev[d].mySeqNum] = NoCallback]_vars

\* Every callback handed to ping() has been run or is waiting in the list.
PingsMatched ==
  \A d \in Client : \A n \in 1 .. Len(answered[d]) :
    answered[d][n] > 0 \/ n \in waiting(dev[d])

\* Once closed a device sends nothing and has run all callbacks; it has no
\* timer left that could change anything but its list of pings without one.
ClosedForGood ==
  [][\A d \in Client : dev[d].mode = "closed" =>
       /\ \A m \in sent' \ sent : m.from # d
       /\ ~dev[d].recheck /\ ~dev[d].interval /\ waiting(dev[d]) = {}
       /\ dev'[d] = [dev[d] EXCEPT !.pingList = dev'[d].pingList]]_vars

\* Every ping that is waiting comes to an end, answered or not.
PingsEnd ==
  \A d \in Client : \A pingId \in 1 .. MaxSeq :
    pingId \in DOMAIN dev[d].pingList ~> pingId \notin DOMAIN dev[d].pingList
=============================================================================
