------------------------------- MODULE Channels -------------------------------
(***************************************************************************)
(* What the proxy promises to the devices of its channels, without         *)
(* sockets, numbers, sticky tables and timers: who is a member, and who    *)
(* may be told what by whom.  Proxy implements it.                         *)
(***************************************************************************)
EXTENDS Naturals, Sequences

CONSTANTS
  Device,      \* clients
  deviceType,  \* "toy", "controller" or "observer", per client
  channel,     \* the channel of a client
  Exclusive    \* the types of which a channel has one member at most

VARIABLES
  joined,     \* all memberships there ever were: member u is client joined[u]
  members,    \* those that last
  spoken,     \* those that were relayed at least once
  delivered   \* what the last step told to whom

chanVars == <<joined, members, spoken, delivered>>

Member == 1 .. Len(joined)

sameChannel(u, v) == channel[joined[u]] = channel[joined[v]]

maySpeak(u, type) ==
  deviceType[joined[u]] = IF type = "command" THEN "controller" ELSE "toy"

mayHear(u, type) ==
  deviceType[joined[u]] \in IF type = "command" THEN {"toy"} ELSE {"controller", "observer"}

\* The members a new member d replaces: all others of its slot, nobody else
rivals(d) ==
  {u \in members : /\ deviceType[d] \in Exclusive
                   /\ deviceType[joined[u]] = deviceType[d]
                   /\ channel[joined[u]] = channel[d]}

Join(d) ==
  /\ joined' = Append(joined, d)
  /\ members' = (members \ rivals(d)) \cup {Len(joined) + 1}
  /\ delivered' = {}
  /\ UNCHANGED spoken

\* A connection ends.
Leave(u) ==
  /\ u \in members
  /\ members' = members \ {u}
  /\ delivered' = {}
  /\ UNCHANGED <<joined, spoken>>

\* The proxy starts anew.
Forget ==
  /\ members' = {}
  /\ delivered' = {}
  /\ UNCHANGED <<joined, spoken>>

\* Nothing a channel can hear of
Pause == delivered' = {} /\ UNCHANGED <<joined, members, spoken>>

\* A member speaks; some members of its channel hear it, as the network allows.
Tell(u, type) ==
  /\ u \in members
  /\ maySpeak(u, type)
  /\ \E hearers \in SUBSET {v \in members : mayHear(v, type) /\ sameChannel(u, v)} :
       delivered' = {[type |-> type, from |-> u, to |-> v] : v \in hearers}
  /\ spoken' = spoken \cup {u}
  /\ UNCHANGED <<joined, members>>

\* Something a member of the channel once said is repeated to one of its
\* members, or to one that has just been replaced.
Remind(u, v, type) ==
  /\ u \in spoken
  /\ maySpeak(u, type)
  /\ mayHear(v, type)
  /\ sameChannel(u, v)
  /\ delivered' = {[type |-> type, from |-> u, to |-> v]}
  /\ UNCHANGED <<joined, members, spoken>>

ChannelsInit ==
  /\ joined = << >>
  /\ members = {}
  /\ spoken = {}
  /\ delivered = {}

ChannelsNext ==
  \/ \E d \in Device : Join(d)
  \/ \E u \in Member : Leave(u)
  \/ Forget
  \/ Pause
  \/ \E u \in Member, type \in {"command", "status"} : Tell(u, type)
  \/ \E u, v \in Member, type \in {"command", "status"} : Remind(u, v, type)

ChannelsSpec == ChannelsInit /\ [][ChannelsNext]_chanVars
=============================================================================
