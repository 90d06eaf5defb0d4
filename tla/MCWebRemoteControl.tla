-------------------------- MODULE MCWebRemoteControl --------------------------
(***************************************************************************)
(* A toy on UDP with keepalive pings and a controller on TCP without, both *)
(* on channel '1': the toy asks for it, the controller gets it by default. *)
(***************************************************************************)
EXTENDS WebRemoteControl

CONSTANTS toy, ctl   \* devices
CONSTANTS one, zero  \* channels: '1', and the number 0

Roles == [d \in Client |-> IF d = toy THEN "toy" ELSE "controller"]

\* createToy({udp4: true, tcp: false, channel: '1'}), createController({keepalive: 0})
Params ==
  [d \in Client |-> IF d = toy THEN [udp4 |-> TRUE, tcp |-> FALSE, channel |-> one]
                                ELSE [keepalive |-> 0]]

ProxyParams ==
  [udp4 |-> TRUE, onlyOneToyPerChannel |-> TRUE, onlyOneControllerPerChannel |-> TRUE]

\* A toy that sends statuses, and a controller that commands, or sends a status,
\* which it may not; a controller that only commands.
Programs == [d \in Client |-> [n \in 1 .. MaxSeq + 1 |->
               IF d = ctl THEN IF n = 2 THEN {"command"} ELSE {"command", "status"} ELSE {"status"}]]
Commands == [d \in Client |-> [n \in 1 .. MaxSeq + 1 |->
               IF d = ctl THEN {"command"} ELSE {}]]

\* Data is ASCII text; or the first status is wide, and a command after the first has
\* no data.
PlainTexts == [type \in {"status", "command"} |-> [n \in 1 .. MaxSeq |-> "plain"]]
MixedTexts == [type \in {"status", "command"} |-> [n \in 1 .. MaxSeq |->
                 CASE type = "status" /\ n = 2 -> "wide"
                   [] type = "command" /\ n > 2 -> "none"
                   [] OTHER -> "plain"]]
=============================================================================
