------------------------------- MODULE Settings -------------------------------
(***************************************************************************)
(* How index.js turns the parameters of a program into the settings of a   *)
(* proxy or a device, and what the connections make of them.  Parameters   *)
(* are a function from the names that were given; the log and the address  *)
(* of the proxy are left out.                                              *)
(***************************************************************************)
EXTENDS Naturals

CONSTANTS
  undefined,       \* a parameter that was not given
  DefaultChannel,  \* '1'
  FalsyChannel     \* channels JavaScript takes for false: the number 0, ''

defaults ==
  [channel |-> DefaultChannel, keepalive |-> 30000,
   tcp |-> TRUE, udp4 |-> FALSE, socketio |-> TRUE,
   onlyOneControllerPerChannel |-> FALSE, onlyOneToyPerChannel |-> FALSE,
   allowObservers |-> FALSE]

parseFalsey(val1, val2) == IF val1 = undefined THEN val2 ELSE val1

\* params.channel || defaults.channel
orDefault(channel) ==
  IF channel \in FalsyChannel \cup {undefined} THEN DefaultChannel ELSE channel

chosen(type, params) ==
  LET given(name) == IF name \in DOMAIN params THEN params[name] ELSE undefined
  IN  [name \in DOMAIN defaults \cup {"deviceType"} |->
         CASE name = "deviceType" -> type
           [] name = "channel" -> orDefault(given(name))
           [] OTHER -> parseFalsey(given(name), defaults[name])]

\* A device in a browser has one protocol, and one elsewhere never has that.
init(type, params, isBrowser) ==
  LET settings == chosen(type, params)
  IN  CASE type = "proxy" -> settings
        [] type # "proxy" /\ isBrowser ->
             [settings EXCEPT !.udp4 = FALSE, !.tcp = FALSE, !.socketio = TRUE]
        [] OTHER -> [settings EXCEPT !.socketio = FALSE]

\* ClientConnection() throws unless exactly one protocol is set;
\* WebClientConnection() looks at none.
clientProtocol(settings) ==
  CASE settings.socketio -> "socketio"
    [] ~settings.socketio /\ settings.udp4 = settings.tcp -> undefined
    [] OTHER -> IF settings.udp4 THEN "udp4" ELSE "tcp"

\* What ServerConnection() listens to
serverProtocols(settings) == {p \in {"udp4", "tcp", "socketio"} : settings[p]}

\* Device() starts the interval of keepalive pings.
hasKeepalive(settings) == settings.keepalive > 0
=============================================================================
