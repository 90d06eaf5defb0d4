---------------------------- MODULE StickyMessages ----------------------------
(***************************************************************************)
(* The sticky messages the proxy keeps (src/StickyMessages.js): per        *)
(* message type and channel, the last message sent with `sticky: true`.    *)
(* The two tables are JavaScript objects, so a channel is looked up under  *)
(* its property key: channelKey maps a channel to it (the number 1 and the *)
(* string '1' are different channels with one key).                        *)
(***************************************************************************)
EXTENDS Naturals

CONSTANTS
  Channel,     \* channels devices register on
  Key,         \* property keys of the sticky tables
  channelKey   \* the key a channel is converted to

ASSUME ChannelKeyAssumption == channelKey \in [Channel -> Key]

StickyType == {"command", "status"}

\* `undefined`: sequence numbers of devices and uids both start at 1.
NoSticky == [seq |-> 0, data |-> 0]

noStickers == [type \in StickyType |-> [key \in Key |-> NoSticky]]

\* A slip: the branches are swapped.
stickyTypeOf(deviceType) ==
  IF deviceType \in {"controller", "observer"} THEN "command" ELSE "status"

stickyTypeFor(deviceType) ==
  IF deviceType \in {"controller", "observer"} THEN "status" ELSE "command"

\* set() for a message of a sticky type
set(stickers, channel, type, seq, data, sticky) ==
  IF sticky
    THEN [stickers EXCEPT ![type][channelKey[channel]] = [seq |-> seq, data |-> data]]
    ELSE stickers

\* get(): what the table holds for a device of this type on this channel
get(stickers, channel, deviceType) ==
  stickers[stickyTypeFor(deviceType)][channelKey[channel]]

=============================================================================
