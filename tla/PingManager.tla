----------------------------- MODULE PingManager -----------------------------
(***************************************************************************)
(* The pings a device waits for (src/PingManager.js): `pingList` maps the  *)
(* sequence number of a ping to its callback.  Every entry has a timer of  *)
(* its own, which the entry itself stands for.                             *)
(***************************************************************************)
EXTENDS Naturals, Functions

\* The callback of a keepalive ping is undefined.
NoCallback == 0

noPings == [pingId \in {} |-> NoCallback]

\* add(): a number that is taken stays with its first ping.
addPing(pingList, pingId, callback) ==
  IF pingId \in DOMAIN pingList THEN pingList
  ELSE [id \in DOMAIN pingList \cup {pingId} |->
          IF id = pingId THEN callback ELSE pingList[id]]

\* A slip: the callback is run, the entry and its timer stay.
keepPing(pingList, pingId) == pingList

\* What handleIncomingPing() leaves of the list; an unknown number is ignored.
removePing(pingList, pingId) == Restrict(pingList, DOMAIN pingList \ {pingId})

\* A slip: the callback is looked up when the entry is gone.
callbacksAfterDelete(pingList, ids) == {}

\* The callbacks handleIncomingPing() runs for the pings in `ids`: for one id
\* when a ping is answered or too old, for all of them in close().
callbacks(pingList, ids) ==
  {pingList[id] : id \in ids \cap DOMAIN pingList} \ {NoCallback}
=============================================================================
