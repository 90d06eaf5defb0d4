---------------------------- MODULE DeviceManager ----------------------------
(***************************************************************************)
(* The registry of the proxy (src/DeviceManager.js): the map `list` from   *)
(* uids to device entries.  The operators below take the current map and   *)
(* return the next one, or what the method of the same name returns.       *)
(*                                                                         *)
(* A uid (a random string of the shortid library) is modelled by the       *)
(* position of its registration in the history of the proxy: uids are      *)
(* fresh, and the keys of `list` are visited in the order of creation.     *)
(***************************************************************************)
EXTENDS Naturals, FiniteSets, FiniteSetsExt, Functions

CONSTANTS
  onlyOneControllerPerChannel,  \* a new controller replaces the channel's old one
  onlyOneToyPerChannel,         \* a new toy replaces the channel's old one
  allowObservers                \* observers may register

ASSUME SettingsAssumption ==
  /\ onlyOneControllerPerChannel \in BOOLEAN
  /\ onlyOneToyPerChannel \in BOOLEAN
  /\ allowObservers \in BOOLEAN

DeviceType == {"toy", "controller", "observer"}

NoUid == 0   \* the `null` of findBy...() and of error messages

validDeviceType(deviceType) ==
  \/ deviceType \in {"toy", "controller"}
  \/ deviceType = "observer" /\ allowObservers

-----------------------------------------------------------------------------
(* Queries. *)

\* The forEach of findBy...() keeps the last match it visits.
lastMatch(uids) == IF uids = {} THEN NoUid ELSE Max(uids)

\* A slip: the channel is not compared.
onAnyChannel(list, deviceType, channel) ==
  {uid \in DOMAIN list : list[uid].deviceType = deviceType}

onChannel(list, deviceType, channel) ==
  {uid \in DOMAIN list : /\ list[uid].deviceType = deviceType
                         /\ list[uid].channel = channel}

getAll(list, deviceType, channel) ==
  IF validDeviceType(deviceType) THEN onChannel(list, deviceType, channel) ELSE {}

findByDeviceTypeAndChannel(list, deviceType, channel) ==
  lastMatch(onChannel(list, deviceType, channel))

findBySocketId(list, socket) ==
  lastMatch({uid \in DOMAIN list : list[uid].socket = socket})

isAllowedAction(list, uid, actionType) ==
  /\ uid \in DOMAIN list
  /\ \/ list[uid].deviceType = "toy" /\ actionType = "status"
     \/ list[uid].deviceType = "controller" /\ actionType = "command"

\* A slip: nothing is dropped.
isAnySeqNum(list, uid, seqNum) == uid \in DOMAIN list

\* A slip: a repeated number is dropped as well.
isNewSeqNum(list, uid, seqNum) ==
  /\ uid \in DOMAIN list
  /\ list[uid].seqNum < seqNum

isLatestSeqNum(list, uid, seqNum) ==
  /\ uid \in DOMAIN list
  /\ ~(list[uid].seqNum > seqNum)

-----------------------------------------------------------------------------
(* Updates. *)

\* A slip: the socket is cleared, the entry stays.
removeSocketOnly(list, uid) ==
  [u \in DOMAIN list |->
     IF u = uid THEN [list[u] EXCEPT !.socket = "closed"] ELSE list[u]]

remove(list, uid) == Restrict(list, DOMAIN list \ {uid})

removeBySocketId(list, socket) == remove(list, findBySocketId(list, socket))

\* One slot per channel for this device type?
exclusive(deviceType) ==
  \/ deviceType = "controller" /\ onlyOneControllerPerChannel
  \/ deviceType = "toy" /\ onlyOneToyPerChannel

\* A slip: only controllers are replaced.
supersededController(list, deviceType, channel) ==
  IF deviceType = "controller" /\ exclusive(deviceType)
    THEN findByDeviceTypeAndChannel(list, deviceType, channel)
    ELSE NoUid

\* A slip: a device on another channel is replaced.
supersededAnywhere(list, deviceType, channel) ==
  IF exclusive(deviceType)
    THEN lastMatch(onAnyChannel(list, deviceType, channel))
    ELSE NoUid

\* The device add() removes before it creates the new one, or NoUid.
superseded(list, deviceType, channel) ==
  IF exclusive(deviceType)
    THEN findByDeviceTypeAndChannel(list, deviceType, channel)
    ELSE NoUid

add(list, deviceType, channel, socket, seqNum, uid) ==
  LET kept == remove(list, superseded(list, deviceType, channel))
      device == [deviceType |-> deviceType, channel |-> channel,
                 socket |-> socket, seqNum |-> seqNum]
  IN  [u \in DOMAIN kept \cup {uid} |-> IF u = uid THEN device ELSE kept[u]]

update(list, uid, socket, seqNum) ==
  [list EXCEPT ![uid] = [@ EXCEPT !.socket = socket, !.seqNum = seqNum]]

=============================================================================
