# web-remote-control in TLA+

web-remote-control lets *controllers* drive *toys* over the internet.  Both are
clients of a *proxy*: they register with it on a channel, toys send statuses,
controllers send commands, and the proxy relays each to the devices of the
other kind on the same channel.  *Observers* are controllers that only listen.
Paths below are relative to `src/`, so `src/Proxy.js` is `src/src/Proxy.js` of
`PROJECT.json`.

## The system

| Part | State | Operations | What makes it correct |
|---|---|---|---|
| Device registry, `src/DeviceManager.js` | `list`: uid -> type, channel, socket, sequence number | add (evicts the holder of an exclusive slot), update, remove, removeBySocketId, findBy..., getAll, isAllowedAction, isLatestSeqNum | an exclusive slot has one device; an entry stays its client's own; a dead connection leaves no entry |
| Sticky messages, `src/StickyMessages.js` | `stickers`: type and channel key -> last sticky message | set, get | a new device gets the current message of its own channel |
| Proxy, `src/Proxy.js` | the two above, the 20 ms timers of sticky messages | registerDevice, respondToPing, forwardStatus, forwardCommand, socket-close, close | relays only within a channel, only in the allowed direction, only under the receiver's uid, never backwards; answers every request |
| Server connection, `src/ServerConnection.js` | UDP socket, TCP server and its connections, socket.io sockets | receive, `_send`, close a socket, closeAll | a destroyed socket gets nothing |
| Device, `src/Device.js` | uid, own sequence number, registration timer, keepalive interval | register, status, command, ping, close, the handlers of answers and errors | never stays unregistered without trying again; silent once closed |
| Ping manager, `src/PingManager.js` | `pingList`: number -> callback, time, timer | add, handleIncomingPing, removeStalePing, close | each callback runs, and runs once |
| Client connection, `src/ClientConnection.js` | UDP or TCP socket | send, receive, close | what the proxy sent reaches the device |
| Message format, `src/messageHandler.js` | none | pack, parse | what one side packs, the other accepts; what is refused is known; the newest message gets through |
| Settings, `index.js` | none | defaults, choice of protocols | consistent with what the parts expect |
| Compression, browser client, command line programs | none that matters | | |

How they interact: a device and the proxy exchange JSON messages
(`register`, `ping`, `status`, `command`, `error`) over UDP, TCP or socket.io.
Inside a process everything is callbacks on one event loop: the connection
emits an event per message, the handler runs to its end, and timers
(`setTimeout`, `setInterval`) run between handlers.  So a handler is one action
and everything *between* handlers interleaves.  The proxy keeps nothing on
disk: a restart forgets every device, and clients find out from
`DEVICE_NOT_REGISTERED`.

What is hard about it:

* UDP packets are lost, repeated and reordered, and a client's address may
  change; TCP connections end at any time and `remove()` itself ends some.
* The registry evicts devices that still think they are registered.
* The registration timer, the ping timers and the keepalive interval race the
  answers they wait for, and `close()`.
* A sticky message is read at one time, sent at another, and outlives its author.
* `forwardStatus()` runs the check and the update of the sequence number twice
  for one message.
* An `error` event without a listener throws in the middle of a handler.
* A ping's callback runs inside a handler and may call `close()`, which runs callbacks.

`PROJECT.json` lists every hazard at its line with the properties that watch it.

## Modules

| Module | Models | Notes |
|---|---|---|
| `DeviceManager` | the registry | operators from `list` to the next `list` or a method's result |
| `StickyMessages` | the sticky tables | with the conversion of a channel to a property key |
| `Proxy` | the proxy and its server connection | extends the two above; variables, one action per handler and path, properties |
| `Channels` | what the proxy promises | abstract: memberships, and who may be told what by whom; `Proxy` implements it |
| `PingManager` | pending pings | operators on `pingList` |
| `ClientDevice` | devices with their pings and connection | variables, one action per call, timer and message, properties |
| `MessageFormat` | messages on the wire | pack and parse, as operators on objects and chunks |
| `Settings` | the settings of a program | operators from parameters to settings and protocols |
| `WebRemoteControl` | the whole system | composes `ClientDevice`, `Proxy`, `MessageFormat` and `Settings` with two networks |
| `Registration` | the registration of a UDP toy | device, proxy and network without numbers, for liveness; uses `DeviceManager` |
| `MCProxy`, `MCClientDevice`, `MCWebRemoteControl` | | clients, devices and their programs for TLC |
| `ProxyProofs` | | theorems about `Proxy`: types, slots, provenance, isolation |
| `ConnectionProofs` | | theorems about the registry and TCP connections; extends `ProxyProofs` |
| `RelayProofs` | | theorems about order, answers and receivers; `Proxy` implements `Channels`; extends `ConnectionProofs` |
| `ClientDeviceProofs` | | theorems about `ClientDevice` |
| `RegistrationProofs` | | theorems about the safety of `Registration` |
| `MessageFormatProofs` | | lemmas about lines, chunks and parsing |
| `PartsProofs` | | what the theorems about the parts say of their instances in `WebRemoteControl`; extends `MessageFormatProofs` |
| `WebRemoteControlProofs` | | theorems about the whole system; extends `PartsProofs` |

### Proxy

`list`, `stickers` are the tables of the code.  `delayed` holds the sticky
messages whose timer is pending, in the order in which the timers fire (all
wait 20 ms).  `conn` is the state of each socket as the proxy can tell; `mode` says
whether the process listens, was closed, or died.  `out` is the set of messages
the last step handed to the transport, so that properties can speak about what
is sent.  Two histories serve the properties: `issued` (which client was given
which uid) and `high` (the highest number relayed per uid).

| Action | Code |
|---|---|
| `RegisterRefused`, `RegisterDevice` | `registerDevice()`: `DeviceManager.add()` with its eviction (which closes the evicted socket), the answer, the scheduling of the sticky message |
| `SendSticky` | the 20 ms timer in `registerDevice()` |
| `RespondToPing`, `PingUnknown` | `respondToPing()` |
| `ForwardUnknown`, `ForwardDenied`, `ForwardDropped`, `Forward` | the paths of `forward()`, both calls of it for a status, and the storing of a sticky message |
| `SocketClose` | the `socket-close` handler |
| `Close` | `close()` |
| `Restart` | the process ends at any point between handlers and a new one starts |

The clients are the environment: any message a `Device` object can send may
arrive, at any time, in any order, repeatedly or never.  Four facts restrict it,
each from the code of the clients: a client's type and channel never change; a
client uses only uids it was given; only controllers send commands; a TCP client
opens one connection in its life.  A UDP client may own several sockets, for an
address that changes on the way.

Abstractions:

* A uid (a random string of `shortid`) is the position of the registration.  Uids are
  fresh, and JavaScript visits the keys of `list` in creation order (a shortid
  is never an array index of digits alone for practical purposes), which
  `lastMatch` uses.
* A payload is the uid it was sent under and its number.
* `uses` says what each number may be used for: a device numbers all it sends
  with one counter, so a number is one message.
* A socket the proxy destroyed may still deliver the lines of a chunk that was
  already read.  The model allows this for longer than the code can do it.
* `SocketClose` is for connections that are open.  The event comes from the end of the
  line stream, which `pipe()` ends only when the client ends the connection: a socket the
  proxy destroyed never tells (`src/ServerConnection.js:153`), so its entry, if there is
  one, stays until it is replaced.  `NoGhosts` says when there is one: after a
  client registered a second time on its connection (see `tcp_reregister`).
* `MaxDelayed` bounds the sticky messages that wait: a registration that would make
  one more wait does not happen, any other one does.
* The `socketio` socket emits `disconnect`, never `close`, so `SocketClose` is for TCP.
* Events for the program that embeds the proxy change no state and are left out.

### ClientDevice

`dev[d]` holds the fields of a `Device`: `uid`, `recheck` (the registration timer is
armed, which is also what `register()` tests), `mySeqNum`, `pingList` (an entry
stands for its timer too), `interval` (keepalive), `connected`, and `mode`.
`sent` is the set of messages ever given to the transport, and `answered`
counts the calls of each callback.  Here the proxy and the network are the
environment: an answer to something that was sent arrives any number of times.
`raising` is `emit('error', ...)`: nothing for a program that listens, the end of
the process for one that does not.

`Ping` is `ping(callback)`, `PingUnheard` is `ping()` without one, called by the program
or by the keepalive interval; an unregistered device lists it under a number it does not
use up.  A callback is one more place for the program to call the device from; only
`close()` makes a difference there, because the ping of the callback is still listed, and
`PingManager.close()` runs the callbacks of all listed pings.  `CallbackCloses` is that
handler to its end: the callbacks in `run` have run, those in `again`, the one that called
`close()` among them, once more.  It ends in a closed device, or, with callbacks that call
`close()` each time they run, in the end of the stack (`exhausted`).  `closers` are the devices whose callbacks may do this, `misread` those that may be sent
text that does not parse.

### Channels

What a device may rely on, without sockets, numbers, tables and timers.  A
membership is a registration (`joined`), `members` are those that last, `spoken`
those that were relayed at least once, and `delivered` says what the last step
told to whom.  `Tell` reaches members of the speaker's channel, `Remind` repeats
something a member once said, `Join` replaces the members of its own slot and
nobody else.  At its end `Proxy` maps uids to memberships, the keys of `list` to
members, `high[uid] > 0` to spoken, and the statuses and commands in `out` to
`delivered`; `KeepsPromise` says that every step of the proxy is a step of
`Channels` or changes nothing of it.

### MessageFormat and Settings

An object is a function from property names to values.  A line of text is three
parts, "begin", "end" and "newline", so that a chunk may hold several lines or
tear one.  `packOutgoingMessage` keeps the five properties of the protocol, of
which `JSON.stringify()` drops the undefined ones; `lastLine` is what `split('\n')`
and the offset select, so a client loses all but the last line of a chunk; text
that is not one whole object, lacks a property, or is compressed when plain
text is expected, is `Corrupt`.  Data carries the kind of its text: `plain`, `none` for a
`status()` without an argument, whose undefined data JSON leaves out, and `wide`.
Compression turns each character into a byte (`new Buffer()` of character
codes, `src/messageHandler.js:113-117`): `wide` text has a character whose low byte is a quote
or a control character, so that it does not parse.  Text that is altered but parses, and
therefore breaks nothing but itself, counts as plain; channel names are plain.  `Settings` gives the choices of `index.js` (defaults,
`||` for the channel and `parseFalsey()` for the rest, the overrides for browsers
and other programs), and what the two connections read from them.

### WebRemoteControl

`ClientDevice` and `Proxy` keep their variables and actions; each action of the
composition is one of theirs together with what it does to the network.  A
device's UDP packets are those in `sent`, the proxy's are in `air`, and any of them
arrives at any time, again, or never.  A TCP connection has a queue each way:
`upstream` in lines, because the proxy splits its stream at newlines, and
`downstream` in parts, because the client does not: `ReceiveChunk` reads any
prefix and parses that.  `ConnectionLost` is the end of a connection as the client
sees it, `SocketClose` as the proxy does, at different times.  Here the environments
the parts assume are replaced by the other part: `UsesOwnUid` is what `Proxy`
assumes of its clients (`Sends`), `AnswersSolicited` what `ClientDevice` assumes
of its proxy (`hasSent`).  `heard` is the last message a device handled; `newest` and
`cut` are histories for `NewestHeard`.  Left to the parts' own models: an
observer that is refused, `close()` of either side, and `ping()` of the program (the
keepalive pings of the toy are there).  A packet that does not parse does nothing at the proxy;
a line that does not is `LineRefused`.

### Registration

One toy on UDP, its proxy, and a rival for the toy's exclusive slot.  Numbers and
payloads do not matter to who is registered, so they are left out, and a uid that
nobody knows any more is used again; this makes the states finite, with `MaxInFlight`
packets under way each way, over behaviours of any length.  The rival stands for
any other toys of the channel: it registers at any time until it leaves.

Giving uids again is sound because `newUid` avoids every uid the registry, the toy or a packet
still knows: no one can tell such a uid from a new one, and the code's `shortid` never
repeats one.  This is an abstraction, not something a property here could show of the code.
`Sound` is a registration nothing is under way
against: no request, which would evict the toy's own entry, no error, and no ping that
would lead to one.  Late answers may still arrive: they carry uids that
were replaced, and `handleRegisterResponse()` must not take them.

## Runs

Passing runs:

| Run | Instance | Question |
|---|---|---|
| `proxy_udp` | two toys (one with two addresses) and a controller, two channels, exclusive slots | types, exclusive slots, provenance, isolation, addressing, order, answers, all under loss, repetition, reordering, restart; is every step one of `Channels`? |
| `proxy_mixed` | a TCP and a UDP toy, a TCP controller, a socket.io observer, one channel, exclusive slots | do evictions, ended connections and restarts leave ghosts, or connected clients that the proxy forgot?  Does a status reach all receivers of its channel? |
| `system` | a UDP toy with keepalive, a TCP controller, exclusive slots, a proxy on both protocols, set up by `index.js`, some data wide or undefined | do the parts keep what they assume of each other?  Is exactly what cannot be read refused?  What gets through reordered packets and torn chunks? |
| `registration` | a UDP toy, a rival | does the toy learn of evictions, come back, and settle?  What can undo a registration? |
| `device` | a controller on TCP with keepalive, whose callbacks may call `close()` | is registration retried, is every callback kept until it runs and then done with, does `close()` silence the device, do pings end? |

Bounds.  `MaxUid = 3` registrations are enough for an eviction, the return of the
evicted device, and one more device; every property of the registry relates two
entries.  Two numbers in `SeqNum` are enough for a message to be late
(three where a ping is in between).  `MaxDelayed = 2` in `proxy_udp` and
`proxy_mixed` lets a device that waits for its sticky message be replaced by one that waits
too; the two registrations of `system` come to one sticky message that waits.
Registrations beyond these bounds do not happen in the model, so it says
nothing on the growth of the registry.  For a device, `MaxSeq = 4` gives the
registration and three more messages, `MaxPings = 3` three callbacks that may wait at
once, so that one calls `close()` while others wait, and any number of pings without one.  Devices
have nothing in common but the proxy, so one is enough, and the controller on TCP is
the one that can do all a device can: lose its connection, be denied, and keep
alive.  `device` has no deadlock check because a closed device whose pings
have ended is at its end.  `proxy_udp` gives pings no number: with them
`ForwardedInOrder` does not hold (see `ping_reopens`).  `RegisterAnswered` and
`ConnectedIsRegistered` are each checked on the transport they hold for.

`system` gives each device three numbers.  After its registration the toy sends a status
of wide data, which the proxy refuses over UDP, and one of plain text, which is sticky; the
controller sends a plain command, and a status, which is denied, or a command without data,
which is refused.  Pings may take numbers, too.  There are two registrations in all, and two
lines may wait on a connection (`MaxUnread`), which is what it takes for one to hide another,
and for a tear.  The program of a device is fixed per number
(`program`), to keep the states few; who sends when is free.  The controller
has no keepalive pings, the toy has.  `registration` allows two packets under way each
way, so that one can overtake another.

Fairness.  `PingsEnd` assumes `Timers`: weak fairness of the registration timer and of
each ping's timer.  A `setTimeout` that is not cleared fires, because the event
loop runs while timers are armed.  Nothing is assumed of the network, the proxy, or
the user.  `Again`, `Learns` and `Settles` assume weak fairness of the registration
timer and of the keepalive interval for the same reason, and strong fairness of the
delivery of each kind of packet: a network may lose and delay any packet, but if a device
sends requests for ever, one of them gets through.  No fairness is assumed of the
rival, of restarts, or of loss.  `Settles` shows what the code's protocol needs: a toy that is
alone stays registered if its timers are slower than the round trip.  If they
overtake answers again and again, a late `DEVICE_NOT_REGISTERED` for an old uid makes it
give up the new one (`src/Device.js:108`), and without the premise `~disturbed` TLC
finds a behaviour that goes on like that for ever.

Each property is paired with a slip, a plausible bug of the code, that breaks
it; the slips are the definitions marked "A slip" before the definition they
alter:

| Property | What it guards against |
|---|---|
| `TypeOK` | `remove()` closes the socket but keeps the entry |
| `OnlyOnePerChannel`, `NoGhosts` | `add()` replaces controllers only |
| `Provenance` | the two sticky tables are swapped |
| `ChannelIsolation` | `getAll()` does not compare the channel |
| `Addressed` | a copy carries its sender's uid |
| `ForwardedInOrder` | no message is dropped as late |
| `RegisterAnswered` | removing a device closes any socket, not only a TCP one |
| `ConnectedIsRegistered` | removing a device does not close its connection |
| `StatusReachesAll` | a number must be greater, so the second call of `forward()` drops |
| `KeepsPromise` | `add()` replaces a device of another channel |
| `UsesOwnUid`, `AnswersSolicited` | what one device is sent goes to all |
| `OnlyTextRefused` | properties that are null are dropped when packing |
| `HeardWasSaid` | the two sticky tables are swapped |
| `NewestHeard` | the first line of a chunk is parsed |
| `ToldOnlyOverUdp` | removing a device does not close its connection |
| `Again` | the request that follows an error has no timer |
| `Learns` | a ping of an unknown device is ignored |
| `Settles` | an answer leaves the registration timer running |
| `StaysSound` | any answer gives the toy its uid, a late one too |
| `DeviceTypeOK` | sending does not use the number up |
| `NeverStuck` | `register()` does not arm its timer |
| `CalledOnce`, `CalledForGood` | the ping stays in the list once answered |
| `PingsKept` | the callback is looked up when its entry is gone |
| `ClosedForGood` | `close()` leaves the keepalive interval |
| `PingsEnd` | only registered devices give pings up |

Runs that show a disagreement between the code and what the repository says of it:

| Run | Violated | What happens |
|---|---|---|
| `ping_reopens` | `ForwardedInOrder` | A late ping lowers the stored number; a command older than one already relayed passes. |
| `tcp_reregister` | `RegisterAnswered` | A TCP device that repeats its registration evicts itself, and its own connection is destroyed before the answer; its new entry stays without a connection. |
| `sticky_stale` | `StickyIsCurrent` | The sticky message captured at registration is sent after a newer one was stored. |
| `channel_types` | `ChannelIsolation` | Channels `1` and `'1'` are different for the registry, and one for the sticky tables. |
| `ping_lost` | `PingsMatched` | A `ping()` without a callback of an unregistered device, by the program or the keepalive interval, takes a number without using it up; the callback of the next ping never runs. |
| `commands_reordered` | `CommandsInOrder` | A toy on UDP acts on a command after a later one: it has a field for the last number and never reads it. |
| `error_unheard` | `NeverStuck` | Without an `error` listener, the answer that should lead to a new registration ends the process. |

## Proofs

For any numbers of clients, sockets, channels, numbers and registrations:

| Theorem | Statement | Where |
|---|---|---|
| `TypeCorrect` | `Spec => []TypeOK` | `ProxyProofs` |
| `OneDevicePerSlot` | `Spec => []OnlyOnePerChannel` | `ProxyProofs` |
| `ProvenanceKept` | `Spec => []Provenance` | `ProxyProofs` |
| `SentToOwner` | `Spec => []Addressed` | `ProxyProofs` |
| `Isolation` | `Spec => []ChannelIsolation`, where channels have different keys | `ProxyProofs` |
| `NoGhostsRemain` | `Spec => []NoGhosts` | `ConnectionProofs` |
| `ConnectedStaysRegistered` | `Spec => []ConnectedIsRegistered` | `ConnectionProofs` |
| `OrderWithoutPings` | `Spec => ForwardedInOrder`, where no number is used for pings | `RelayProofs` |
| `RegisterAnsweredWithoutTcp` | `Spec => RegisterAnswered`, without TCP sockets | `RelayProofs` |
| `StatusReachesEveryone` | `Spec => StatusReachesAll` | `RelayProofs` |
| `ProxyKeepsPromise` | `Spec => KeepsPromise`, where channels have different keys | `RelayProofs` |
| `DeviceTypeCorrect` | `Spec => []DeviceTypeOK` | `ClientDeviceProofs` |
| `RegistrationNeverStuck` | `Spec => []NeverStuck`, where every program listens for errors | `ClientDeviceProofs` |
| `ClosedStaysClosed` | `Spec => ClosedForGood` | `ClientDeviceProofs` |
| `CallbacksRunForGood` | `Spec => CalledForGood` | `ClientDeviceProofs` |
| `CallbacksRunOnce` | `Spec => []CalledOnce` | `ClientDeviceProofs` |
| `CallbacksNotForgotten` | `Spec => PingsKept` | `ClientDeviceProofs` |
| `SoundStays` | `Spec => StaysSound` | `RegistrationProofs` |
| `OwnUidUsed` | `Spec => []UsesOwnUid` | `WebRemoteControlProofs` |
| `OnlyAnswers` | `Spec => []AnswersSolicited` | `WebRemoteControlProofs` |
| `PackedIsAccepted` | `Spec => []OnlyTextRefused` | `WebRemoteControlProofs` |
| `HeardOnlyWhatWasSaid` | `Spec => []HeardWasSaid` | `WebRemoteControlProofs` |
| `NewestIsHeard` | `Spec => []NewestHeard` | `WebRemoteControlProofs` |
| `OnlyUdpIsTold` | `Spec => []ToldOnlyOverUdp` | `WebRemoteControlProofs` |
| `SystemKeepsPromise` | `Spec => P!KeepsPromise`: the system, where channels are strings, implements `Channels` | `WebRemoteControlProofs` |

The violation runs show why the premises are needed: `Isolation` and `ProxyKeepsPromise` need
injective channel keys (`channel_types`), `OrderWithoutPings` no pings (`ping_reopens`),
`RegisterAnsweredWithoutTcp` no TCP (`tcp_reregister`), `RegistrationNeverStuck`
listeners (`error_unheard`).  `CalledOnce` and `PingsKept` name their exceptions: a callback
runs twice only by a `close()` that a callback calls, because its ping is still listed (`src/PingManager.js:79-84`),
and it is lost only to a ping without a callback, which is how `PingsMatched` fails (`ping_lost`).

The theorems rest on the named assumptions of the modules (`SettingsAssumption`,
`ChannelKeyAssumption`, `ClientAssumption`, `BoundsAssumption`, `SetupAssumption`,
`DeviceBounds`, `RegistrationAssumption`, and for the system `NetworkAssumption`,
`ValueAssumption` and `DataAssumption`), which TLC also evaluates on the runs of their
modules.  `RegistrationAssumption` says that the toy's slot is exclusive, the case
`Registration` is about; `ValueAssumption` and `DataAssumption` say that `undefined` is none of the values a message can hold, and what kinds of text there are; the
others give the constants their types, and `NetworkAssumption` that each device's
protocol is one the proxy listens on.  The assumptions of `Proxy` and `ClientDevice` are
no assumptions in the system: `SetUp` and `DeviceSetUp` prove them of the settings that
`index.js` makes.

The proxy:

* `TypeOK` is inductive.  Two of its conjuncts do the work: `DOMAIN list \subseteq Uid`
  makes a new uid fresh, and `Len(high) = Len(issued)` makes the history total.
* `OnlyOnePerChannel` is inductive with `TypeOK`.  The point is `SupersededIsHolder`:
  `findByDeviceTypeAndChannel()` returns one match, and `add()` removes only that one.
  This is enough only because there never is a second one.
* `ChannelIsolation` and `Addressed` are not inductive.  What is sent now depends on
  tables filled earlier, by other devices, so the invariant is `Provenance`: entries
  are their clients' own (`EntriesOwned`), stickers have an entitled author
  (`StickersAuthored`), and so have messages that wait (`DelayedAttributed`) and
  messages just sent (`OutAttributed`).  `IssuedGrows` says that the history is only
  appended to, which carries these facts over a step.
* `NoGhosts` is inductive with `Provenance`, `OnlyOnePerChannel` and `EndedConnections`: entries of one
  socket belong to one client, so they have one type and channel, so an exclusive slot has
  one of them, and `removeBySocketId()`, which removes the last match, removes it.  A socket is
  destroyed only with the removal of its entry; the one that can be added to it in the same step is that
  of the same client, which had a uid before.  `EndedConnections` says that a connection that is not
  open belongs to TCP.
* `ConnectedIsRegistered` is inductive with `Provenance`.  An entry that is evicted takes the
  connection with it, and an entry moves to another socket only when its client has
  two, which `ClientAssumption` excludes for TCP.
* Both need that the search of `removeBySocketId()` finds an entry when there is one
  (`LastMatchIn`, proved from the well-foundedness of the numbers).
* `ForwardedInOrder` needs the invariant that the number stored in an entry is never
  behind the highest one relayed for it (`NeverBehind`).  A ping breaks this
  invariant; without pings `isLatestSeqNum()` compares with enough.
* `StatusReachesAll` is proved step by step.  A message that is not sticky appears in `out`
  only by `forward()` (`DelayedMarked` keeps the timers' messages apart).
  `ForwardReaches` is the point: the first of the two calls stores the number, and
  `isLatestSeqNum()` accepts an equal one in the second.  `Accepted`, that `list` holds
  valid types only, makes `getAll()` find every receiver.
* `KeepsPromise` is proved by simulation, one lemma per kind of step: `RegisterJoins`,
  `CloseLeaves`, `RestartForgets`, `ForwardTells`, `StickyReminds`, and `QuietSteps` for
  all that no device is told of.  A registration replaces all rivals because
  `OnlyOnePerChannel` leaves one at most (`Replaced`).  A reminder needs `KeptWasSaid`:
  what a sticky table or timer holds was relayed before, so its author has `spoken`.
* `RegisterAnswered`: without TCP, nothing that `add()` evicts can end the connection
  the answer leaves by.

The device:

* `DeviceTypeOK` is inductive; `sending` is the only way to use up a number, and no
  handler gives one back.
* `NeverStuck` is inductive with it: every handler that clears `uid` ends in `registering`,
  and the only handler that disarms the timer has a uid to set.
* `ClosedForGood` needs `ClosedSilent`: a closed device has no uid, timer, ping or connection.
* `CalledForGood` and `CalledOnce` need `AllFair`: a callback that waits has not run, and waits for one
  ping only.  What ends leaves the list in the handler that runs the
  callbacks, so late and repeated answers and a later `close()` find nothing; a `close()`
  from inside the handler finds them, and leaves a device that is not open; by `ModeSteps` no
  device opens again.
* `PingsKept` needs also `AllFresh`: no ping in `pingList` has a number beyond the next one, and
  one that has the next one itself is without a callback.  So `addPing` finds its number taken only by such a ping.

`PingSteps` sorts the actions of a device by what they do to its pings; the proofs of
the last two rest on it.

The registration, for any number of packets under way:

* The invariant is `Shape`: what is under way is a request, ping, answer
  or error with a uid, and the registry is finite.  So of `n + 1` numbers, `n` in use leave one
  free (`NewUid`), and the toy's new entry is its own.
* `StaysSound` is proved one action at a time.  `Draws` says that a queue after a step
  holds only what it held before and what the step put there, so no step of a
  sound state puts a request or an error under way, and none that could be under way is left.

The system, for any number of devices on either network:

* The models of the parts assume something of each other: `Proxy` that a client uses
  uids it was given (`Sends`), `ClientDevice` that an answer answers something
  (`hasSent`).  Neither can be proved first.  The proofs therefore take one step of
  the whole system: its invariant `Inv` contains the invariants of both parts
  (`PartsInv`), a step of a device preserves them because what is under way was due
  to it (`Due`), and a step of the proxy because what was sent was entitled
  (`SentKnown`).
* None of the six invariants is inductive.  A uid a device takes comes from an
  answer that has been on its way for any time, so `Inv` says of everything that
  is under way, was just sent or was handled last (`PacketsDue`, `OutDue`, `Line`,
  `HeardDue`) that it is `Due`; and what the proxy keeps in sticky tables and timers
  for later was sent once (`KeptSaid`).  `DueStable` carries this over a step: the
  messages sent and the uids issued only grow.
* `OnlyAnswers` includes that `PERMISSION_DENIED` goes only to devices that are no toys and
  have sent a status: `isAllowedAction()` compares with the type in the entry, which
  is the client's own by `Provenance`.
* `NewestHeard` needs `Latest`: the newest line is the last one still to be read, in
  full, or has been handled; and that what waits on a connection is the tail of a
  row of lines (`InLines`).  `ChunkLatest` is the point: a chunk that ends with the
  stream, or just before its last newline, parses as the newest line, any other one
  leaves it whole, unless it ends between the two halves of the text (`cut`).
* `ToldOnlyOverUdp` needs `OpenKnown`: where a connection is open, all uids ever issued to its
  client are in the registry.
* `OnlyTextRefused` holds step by step: `ParsedByProxy` and `ParsedByDevice` say of every message, on
  every transport, whether it parses, from what packing drops, what compression spoils and what
  parsing requires.  All but a request carries a uid, because `_send()` sends nothing else.
* `SystemKeepsPromise`: by `Parted` each step is one of `Proxy` or leaves its variables alone, so
  the system implements `Proxy` (`ActsAsProxy`) and, by `ProxyKeepsPromise`, `Channels`.  That the messages
  of real devices satisfy `Sends` is `OwnUidUsed`, so the guard hides no message of the system.
* `MessageFormatProofs` proves, for lines in a row cut anywhere, which line `lastLine` selects.
  `PartsProofs` relates the instances `P` and `D` of the model to the ones that bring
  the theorems along (the `Same...` lemmas), and says what each action of a device does to the
  rest of the system (the `...Effect` lemmas).

`SystemKeepsPromise` is a theorem only.  As a property of a run it would add nothing to `KeepsPromise` of
`proxy_udp`: the system is composed of the actions of `Proxy`, and what could go wrong in
putting the parts together is what the invariants of the system say.

Only model-checked: `PingsEnd`, `Again`, `Learns` and `Settles`, because liveness is out of
the prover's reach, and the properties of the violation runs, which do not hold.  All other properties of the passing runs are proved, those with a premise in the table under that premise; where a run checks such a
property outside its premise, only TLC does.

## Not modelled

* The characters of the JSON text and the codebook it is compressed with
  (`src/MySmaz.js`): the model keeps what survives the conversion.
* `src/WebClientConnection.js`: a wrapper of a socket.io client; in `WebRemoteControl` it
  would be a third device, beyond the states TLC can visit.  `src/SocketTCP.js`: not
  required by any file.  `runProxy.js`, `runWWWController.js`,
  `runProxyAndWebServer.js`, `scripts`: option parsing, static files, builds.
* Failures to bind a port, and errors of sockets that the runtime raises (a reset
  connection has no listener, `src/ServerConnection.js:138`; `handleError` is passed unbound,
  line 171): the process ends, which `Restart` covers as far as clients can tell.
* Calls other than `close()` from inside a ping's callback as steps of their own: they do what
  they do between handlers.
* The growth of the registry without exclusive slots: `MaxUid` ends it.

## Plan

A browser device in `WebRemoteControl` in place of the controller on TCP; `close()` of either
side in the whole system.
