----------------------------- MODULE Registration -----------------------------
(***************************************************************************)
(* Does a toy on UDP stay registered?  The part of Device.js and Proxy.js  *)
(* that decides it, without numbers and payloads, so that behaviours of    *)
(* any length have finitely many states: registration requests with their  *)
(* timer, keepalive pings, the answers to both, over a network that loses  *)
(* and reorders packets, and a proxy that may restart.  The channel has    *)
(* one slot for toys, and as long as there is a rival, another toy may     *)
(* take it at any time.                                                    *)
(***************************************************************************)
EXTENDS DeviceManager, SequencesExt

CONSTANT
  MaxInFlight  \* bound: packets under way to the toy, and from it

ASSUME RegistrationAssumption ==
  /\ exclusive("toy")
  /\ MaxInFlight \in Nat \ {0}

VARIABLES
  list,      \* devices.list of the proxy
  dev,       \* the toy: its uid, and whether its registration timer runs
  up,        \* packets under way to the proxy
  down,      \* packets under way to the toy
  rival,     \* whether another toy wants the slot
  disturbed  \* history: the last step was a restart, or did not wait for a packet

vars == <<list, dev, up, down, rival, disturbed>>

Register == [type |-> "register"]          \* a request
Ping(uid) == [type |-> "ping", uid |-> uid]
Answer(uid) == [type |-> "register", uid |-> uid]
NotRegistered == [type |-> "error"]

\* A packet too many is lost.
put(queue, packet) == IF Len(queue) < MaxInFlight THEN Append(queue, packet) ELSE queue

\* The uids in packets under way
carried == {p.uid : p \in {q \in ToSet(up) \cup ToSet(down) : "uid" \in DOMAIN q}}

\* The uid of a new entry.  shortid never repeats one; so that finitely many do,
\* a uid is taken that nothing is left of, which no one can tell from a new one.
newUid ==
  LET used == DOMAIN list \cup {dev.uid} \cup carried
  IN  Min((1 .. Cardinality(used) + 1) \ used)

Registered == dev.uid \in DOMAIN list

-----------------------------------------------------------------------------
(* The toy. *)

\* Packets sent earlier have not arrived, and are not lost, yet.
UnderWay == up # << >> \/ down # << >>

\* checkRegistery(): the timer is cleared and armed again by the new request.
RecheckTimer ==
  /\ dev.recheck
  /\ up' = put(up, Register)
  /\ disturbed' = UnderWay
  /\ UNCHANGED <<list, dev, down, rival>>

\* The keepalive interval; any other message to the proxy does the same.
Keepalive ==
  /\ dev.uid # NoUid
  /\ up' = put(up, Ping(dev.uid))
  /\ disturbed' = UnderWay
  /\ UNCHANGED <<list, dev, down, rival>>

\* A slip: an answer leaves the timer running.
answeredStillWaiting(dv, uid) ==
  [dv EXCEPT !.uid = IF dv.uid = NoUid THEN uid ELSE dv.uid]

\* A slip: any answer gives the toy its uid.
answeredAgain(dv, uid) == [dv EXCEPT !.uid = uid, !.recheck = FALSE]

\* handleRegisterResponse()
answered(dv, uid) ==
  [dv EXCEPT !.uid = IF dv.uid = NoUid THEN uid ELSE dv.uid, !.recheck = FALSE]

\* A slip: the request that follows an error has no timer.
unregisteredOnce(dv) == [dv EXCEPT !.uid = NoUid]

\* handleCommError() with its register()
unregistered(dv) == [dv EXCEPT !.uid = NoUid, !.recheck = TRUE]

ReceiveAnswer(i) ==
  /\ i \in DOMAIN down /\ down[i].type = "register"
  /\ dev' = answered(dev, down[i].uid)
  /\ down' = RemoveAt(down, i)
  /\ disturbed' = (i > 1)
  /\ UNCHANGED <<list, up, rival>>

ReceiveError(i) ==
  /\ i \in DOMAIN down /\ down[i].type = "error"
  /\ dev' = unregistered(dev)
  /\ up' = IF dev.recheck THEN up ELSE put(up, Register)
  /\ down' = RemoveAt(down, i)
  /\ disturbed' = (i > 1)
  /\ UNCHANGED <<list, rival>>

-----------------------------------------------------------------------------
(* The proxy. *)

RegisterDevice(i) ==
  /\ i \in DOMAIN up /\ up[i].type = "register"
  /\ list' = add(list, "toy", "channel", "toy", 1, newUid)
  /\ down' = put(down, Answer(newUid))
  /\ up' = RemoveAt(up, i)
  /\ disturbed' = (i > 1)
  /\ UNCHANGED <<dev, rival>>

\* The same for a request of the rival
RegisterRival ==
  /\ rival
  /\ list' = add(list, "toy", "channel", "rival", 1, newUid)
  /\ disturbed' = FALSE
  /\ UNCHANGED <<dev, up, down, rival>>

\* A slip: a ping nobody knows is ignored.
noErrors(queue, uid) == queue

\* respondError(); the answer to a ping that is known changes nothing.
errors(queue, uid) == IF uid \in DOMAIN list THEN queue ELSE put(queue, NotRegistered)

RespondToPing(i) ==
  /\ i \in DOMAIN up /\ up[i].type = "ping"
  /\ down' = errors(down, up[i].uid)
  /\ up' = RemoveAt(up, i)
  /\ disturbed' = (i > 1)
  /\ UNCHANGED <<list, dev, rival>>

Restart ==
  /\ list' = << >>
  /\ disturbed' = TRUE
  /\ UNCHANGED <<dev, up, down, rival>>

-----------------------------------------------------------------------------
(* The environment. *)

Lose(i) ==
  /\ \/ i \in DOMAIN up /\ up' = RemoveAt(up, i) /\ UNCHANGED down
     \/ i \in DOMAIN down /\ down' = RemoveAt(down, i) /\ UNCHANGED up
  /\ disturbed' = FALSE
  /\ UNCHANGED <<list, dev, rival>>

\* The rival closes.  Its entry stays until it is replaced.
RivalLeaves ==
  /\ rival
  /\ rival' = FALSE
  /\ disturbed' = FALSE
  /\ UNCHANGED <<list, dev, up, down>>

-----------------------------------------------------------------------------
\* The constructor of Device has sent its request.
Init ==
  /\ list = << >>
  /\ dev = [uid |-> NoUid, recheck |-> TRUE]
  /\ up = <<Register>>
  /\ down = << >>
  /\ rival = TRUE
  /\ disturbed = FALSE

InFlight == 1 .. MaxInFlight

Next ==
  \/ RecheckTimer \/ Keepalive
  \/ \E i \in InFlight :
       ReceiveAnswer(i) \/ ReceiveError(i) \/ RegisterDevice(i) \/ RespondToPing(i) \/ Lose(i)
  \/ RegisterRival \/ RivalLeaves \/ Restart

\* Timers that stay armed go off.  The network may lose and delay any packet, but
\* not all packets of a kind for ever.
Fairness ==
  /\ WF_vars(RecheckTimer)
  /\ WF_vars(Keepalive)
  /\ SF_vars(\E i \in InFlight : RegisterDevice(i))
  /\ SF_vars(\E i \in InFlight : RespondToPing(i))
  /\ SF_vars(\E i \in InFlight : ReceiveAnswer(i))
  /\ SF_vars(\E i \in InFlight : ReceiveError(i))

Spec == Init /\ [][Next]_vars /\ Fairness

-----------------------------------------------------------------------------
(* Properties. *)

\* Registered, with no request, error or ping of an unknown uid under way
Sound ==
  /\ Registered /\ dev.uid # NoUid /\ ~dev.recheck
  /\ \A i \in DOMAIN up : up[i].type = "ping" /\ up[i].uid \in DOMAIN list
  /\ \A i \in DOMAIN down : down[i].type # "error"

\* Only a rival or a restart can undo that: not the answers to earlier requests,
\* which may carry uids that were replaced, nor any timer.
StaysSound == [][Sound /\ ~rival /\ ~Restart => Sound']_vars

\* The toy gets a uid again and again, however often packets are lost, the proxy
\* restarts, or the rival takes its place.
Again == []<>(dev.uid # NoUid)

\* The toy does not go on for ever under a uid the proxy does not know (any
\* more): whether it was evicted, by the rival or by its own retry, or forgotten,
\* it is told so.
Learns == (dev.uid # NoUid /\ ~Registered) ~> (dev.uid = NoUid \/ Registered)

\* A toy that has the channel for itself stays registered in the end, however
\* many packets are lost, unless again and again the proxy is restarted, a packet
\* overtakes another, or a timer goes off before the answer to the last packet is
\* there.  (Then a late error can undo a good registration for ever.)
Settles == <>[](~rival /\ ~disturbed) => <>[]Registered
=============================================================================
