------------------------------- MODULE MCProxy -------------------------------
(***************************************************************************)
(* Clients of the proxy for TLC: two channels, and per run the devices,    *)
(* their sockets and transports.                                           *)
(***************************************************************************)
EXTENDS Proxy

CONSTANTS a, b                     \* channels
CONSTANTS toy1, toy2, ctl, obs     \* devices
CONSTANTS sToy1, sNat, sToy2, sCtl, sObs \* sockets; sNat: toy1 behind a new address

\* toy1 and ctl share channel a; toy2 is alone on channel b.
TwoChannels == [d \in Device |-> IF d = toy2 THEN b ELSE a]
OneChannel == [d \in Device |-> a]

Types == [d \in Device |-> CASE d = ctl -> "controller"
                             [] d = obs -> "observer"
                             [] OTHER -> "toy"]

Peers == [s \in Socket |-> CASE s = sCtl -> ctl
                             [] s = sObs -> obs
                             [] s = sToy2 -> toy2
                             [] OTHER -> toy1]

AllUdp == [s \in Socket |-> "udp4"]
AllTcp == [s \in Socket |-> "tcp"]
\* toy1 and ctl have a connection, toy2 has none, and obs is a browser.
MixedProtocols == [s \in Socket |-> CASE s = sObs -> "socketio"
                                      [] s = sToy2 -> "udp4"
                                      [] OTHER -> "tcp"]

\* Clients that never ping; that start with a registration, as they all do;
\* and that register, maybe ping once, and then send statuses or commands.
NoPings == [n \in SeqNum |-> {"register", "payload"}]
RegisterThenAny == [n \in SeqNum |-> IF n = 1 THEN {"register"} ELSE {"ping", "payload"}]
RegisterThenSend == [n \in SeqNum |-> IF n = 1 THEN {"register"} ELSE {"payload"}]
RegisterPingSend == [n \in SeqNum |-> CASE n = 1 -> {"register"}
                                         [] n = 2 -> {"ping"}
                                         [] OTHER -> {"payload"}]

\* Every channel is a property key of its own, as with channels that are all
\* strings or all numbers.
OwnKeys == [c \in Channel |-> c]

\* Channel a is the number 1 and channel b the string '1'.
SharedKey == [c \in Channel |-> a]
=============================================================================
