# Ping2Peer in TLA+

Ping2Peer is a text messenger for devices on one network. A signalling server
tells browsers about each other and relays the messages with which two of them
set up a WebRTC data channel; from then on they talk directly, encrypted. This
project models the parts of that system in which order, concurrency and failure
matter, checks them with TLC on small instances and proves most of their safety
properties with TLAPS for every instance.

Paths below are relative to the repository.

## 1. The system

### Components, their state and their operations

| component | code | state | operations |
|---|---|---|---|
| peer registry | `signal-server/signalling.py` | `_connections`: connection id to peer and group; `_peer_to_conn`: peer id to connection id | `register`, `unregister`, `route_message`; each returns the messages to deliver |
| self-hosted server | `signal-server/local_server.py` | the registry, the sockets by connection id, one handler task per socket | `handle_client` (read a frame, call the registry, deliver; `finally`: unregister and deliver), `deliver` |
| Lambda server | `signal-server/lambda_handler.py` | a DynamoDB item per connection, with a group index that lags behind | `$connect`, `$disconnect`, `$default` (register or relay); any number of invocations at once |
| signalling client | `src/providers/SignallingDiscoveryProvider.ts` | socket, connection state, reconnect timer, profile, nearby list | `connect`, `disconnect`, the socket's callbacks, `handleMessage`, the request, accept, reject, offer and answer messages |
| connection orchestration | `src/ui/App.tsx`, the signalling effect and the connect buttons | nearby peers, incoming requests, one pending outgoing request, the sets `autoConnecting`, `autoAccepted`, `yieldedManual`, and refs that mirror the rendered state | the five handlers on the client's messages, accept, reject, connect |
| WebRTC transport | `src/providers/WebRtcDataChannelTransport.ts` | peer connection, channel, state, heartbeat timer, handlers | invite, accept, apply answer; connect and accept via signalling; send, disconnect, channel callbacks, reset |
| relay transport | `src/providers/RelayTextTransport.ts` | socket, session id, state | the same interface over a WebSocket |
| sessions and chats | `src/ui/App.tsx`, `src/providers/IndexedDbMessageStore.ts` | active sessions and their states, the chat on screen and its messages, the store | attach, open chat, send, retry, react, receive, clear, disconnect; migration of orphaned messages |
| manual pairing, handoff | `src/ui/App.tsx`, `src/providers/ManualPairingDiscoveryProvider.ts` | pending invite, processed link, the tabs' channel and storage | invite, join, apply answer; hand a link's code to a tab that is already open |
| crypto, encoding | `src/providers/WebCryptoProvider.ts`, `src/lib/encoding.ts` | none | key agreement, encryption, base64url, ids |
| user interface | `src/ui/App.tsx` (markup), `src/styles.css` | screen, theme, forms | none of the protocol's |

### How they interact

The browser's signalling client opens a WebSocket and sends `register` when it
opens. The server registers the connection, answers with `peers` and sends
`peer-joined` to the others; a socket that closes leads to `peer-left`. The
client turns these into its nearby list and hands the list to the app. When the
app (or the user) wants a connection it sends `connect-request`; the other side
answers `connect-accepted` or `connect-rejected`; on accept the requester sends
`webrtc-offer` and gets `webrtc-answer`, all relayed by peer id. The transport
that results becomes a session of the chat with that peer, which replaces the
session before it. Two browsers can also exchange invite and answer by hand, as
links, and a link that opens a second tab is handed to the first.

### What is hard

- The local server is one thread, but every `await` in a handler is a place
  where other handlers run; a send is awaited once per receiver.
- A browser reconnects on a new socket while the server may still think the old
  one alive, with frames of it unread.
- The Lambda server runs handlers truly concurrently over a store with stale
  reads.
- The app's handlers await the store and the network between reading its state
  and acting on it, and the refs they read follow the rendered state, which
  lags behind what the handlers set.
- Requests, answers and offers can be lost with a socket; only the wait for a
  WebRTC answer has a timeout.

### What correctness means

- Registry: its two dicts agree; whoever is registered is reachable; a relay
  reaches the peer that was named; a peer-left is true, and nobody is missed.
- Local server: browsers that are connected see exactly each other once nothing
  is under way; nobody sees itself; a closed connection disappears for good.
- Lambda server: the same, as far as the store's guarantees go.
- Signalling client: one socket at a time, a reconnect always follows a loss,
  and a list that follows what the server sent last.
- Orchestration: one exchange of two browsers at a time; a chat is only opened for
  what its user asked or agreed to; whoever should reconnect does.
- Transports and sessions: while nothing is lost, the sessions that the two ends
  show end up connected to each other.
- Pairing and handoff: a code that is handed to another tab is handled there, the
  answer that is shown is that of the live connection, and the pairing completes.

## 2. Modules

| module | what it is |
|---|---|
| `Directory` | abstract specification: a set of bindings from peers to connections, and who is online |
| `PeerRegistry` | class `PeerRegistry`; one action per method and per way of returning |
| `PeerRegistryProofs` | theorems for every set of clients |
| `PeerRegistrySingleProofs` | theorems for clients that register one peer id each, and the refinement of `Directory` |
| `SignallingView` | the client's nearby list as a function of presence messages |
| `LocalServer` | `local_server.py` around `PeerRegistry`, its sockets, and the browsers' nearby lists |
| `LambdaSignalling` | `lambda_handler.py`: invocations that interleave at every call to the table or the gateway, and the browsers' nearby lists |
| `SignallingClient` | the client's sockets, callbacks and reconnect timer, and the app's calls to it |
| `ConnectionFlow` | the app's connection handlers and buttons on two browsers, with the WebRTC transport's offers and answers |
| `ManualPairing` | pairing by codes, and the handoff of a link to the tabs that are open |
| `LocalServerProofs` | that the server's steps are the registry's, and its own safety properties |
| `LambdaSignallingProofs`, `LambdaMeetProofs` | theorems whatever lags and fails, and those that need an index that keeps up |
| `SignallingClientProofs`, `ConnectionFlowProofs`, `ManualPairingProofs` | the safety properties of these modules |
| `MCPeerRegistry`, `MCLocalServer`, `MCLambdaSignalling`, `MCSignallingClient`, `MCConnectionFlow`, `MCManualPairing` | the instances for TLC |

`LocalServer` extends `PeerRegistry` and `SignallingView`, `LambdaSignalling`
extends `SignallingView`. The other links between modules are assumptions that
one shows for the next: that a browser has one socket at a time (`OneSocket` of
`SignallingClient`) is a guard of `Connect` in `LocalServer` and of
`HandleConnect` in `LambdaSignalling`; that presence messages come and go at any
time (both servers) is how `ConnectionFlow` treats its nearby list.

### PeerRegistry

A Python dict is a total function with `None` for a missing key. The list of
messages a call returns is the set `outbound`; a call never has two different
messages for one connection, except that `register` answers its caller and
tells the others, who are not the caller. A peer's names are one `Label`. The
actions `Register`, `Unregister`, `UnregisterUnknown` and the seven `Route...`
actions cover each return of the three methods. `Identities` says which peer
ids a connection may register under and `GroupOf` in which group: the app's
client has one id per connection (`SingleIdentity`) and the local server one
group (`OneGroupPerPeer`); the module itself assumes neither.

### LocalServer

`HandleRegister`, `HandleOther` and `HandlerEnds` are what a handler does
between two awaits: it takes a frame (or sees the end of them), calls the
registry, and sends the result until a send suspends it. With the `websockets`
package a send suspends its caller in two cases only: the receiver's buffer is
over its limit (`link` is `slow`; the message is queued all the same), or its
socket is closing (`closing`; the message is lost, and the caller waits until
the connection is gone, up to 10 s). Sends to an open socket do not yield, and
sends to a closed one raise at once, which `deliver` ignores. A task held up
this way keeps the `rest` of its list, waits in the receiver's `waiting` queue
and later in the event loop's `ready` queue. A task in `ready` may be overtaken
by frames that arrive before it runs; the loop of asyncio allows a little less.

Every socket is a connection id that is used once, as the server counts them.
The browser's end is `client`; a browser has at most one open socket
(`doConnect` calls `disconnect` first) and opens the next after it left the one
before, perhaps at once: a changed profile or server setting disconnects and
connects in one go. Its frames `toServer` are read in order; when it leaves,
those not yet read may be lost, or be read after those of its next socket.

`order` is the order of the `_connections` dict as the pairs of connections of
which the first was put in before the second; it decides in which order
`deliver` sends. A `Nameless` browser's register may have a blank name (the
profile form trims a name of blanks to nothing); `HandleNameless` refuses it.
Frames that are not JSON are answered without any change of state and the app
sends none; they are left out, as is the logging. `SentType` are the relayed
types that browsers send in a run: the server treats all five alike.

### LambdaSignalling

A connection's item in the table is a word: the placeholder of `$connect`, the
registered item, or none. `versions` holds what its copies may still show, from
the oldest (the index) to the newest (the table); `Write` appends a version if
the index lags and replaces it if not, and `CatchUp` drops the oldest.
`get_item` is made without `ConsistentRead` and returns any of them.

`reg`, `dis` and `rel` are the invocations a connection may have under way, at
the call they make next; the loops over a group have one step per post, in any
order, as the items of a query have none. `Post` is a call to the gateway: the
browser reads the message at once, or the connection is gone and
`_remove_connection` is called. `RemoveConnection` deletes the item, or fails: the
error is swallowed and the handler goes on with the item still there. `Abort` ends
an invocation at any other call: an error other than Gone, a time limit, or an
invocation that is never made.

Abstractions: a connection relays one message at a time; the five relayed types
are one; a frame without JSON, receiver or known type has `to = None` and gets an
error; the gateway knows of a closed socket at once. A connection keeps the group
of its address. `MaxRunning` bounds how many invocations run at a time: one that
was asked for may always be later.

### SignallingClient

Sockets are names that are used again when their close event has come. `Dropped`
is `disconnect`: it takes the close handler off, so the event, which comes later
(`Ends`), is not heard. `DoConnect` is `disconnect` and a new socket in one step;
a malformed address throws and schedules a reconnect, an empty one is only
remembered. The app calls `connect` from the effect that runs after the profile
or the address changed (`Effect`), and `disconnect` and `connect` from the
settings form, the button that restores the default and, after an await,
`updateProfile`. `TypeUrl` is a key pressed in the address field, which changes
the address at once. A version number stands for the profile, and the nearby list is
the set of sockets its entries came from.

### ConnectionFlow

The state of a browser is that of `App.tsx`: the nearby list, the one pending
request, the three sets of marks, the popup's queue, and the active sessions,
each next to the ref that mirrors it. `Render` copies state to refs; a click
renders what it sets at once, as React does for clicks. Each handler runs until
it awaits, so a handler with an await is two actions: `HandleRequest` and
`DecideRequest`, `PeersChanged` and `AutoConnect`, `HandleAccepted` and
`ResolveAccepted`, `HandleOffer` and `ResolveOffer`. In between, its peer waits
in `lookups`, which the message store answers in the order they were made.

A transport is a record in `attempts`, with the handler that awaits it: it
gathers candidates and sends its offer or answer (`Gathered`), an offerer listens
for the answer (`HandleAnswer`, or `Timeout` after 15 s), the key is derived and
the peer saved, and the session is attached (`Attach`, which merges
`initializeSession` and `attachSession`; trust and session appear together). Its
`state` changes when the channel opens (`Opens`), when the other end closed its
connection (`Closes`), when ICE finds nobody (`Fails`), and when the link is
interrupted (`LinkLost`). The transport reports an interrupted connection as failed,
and the app then removes the session, but the connection itself is not closed: it
may recover (`Recovers`), and its mate is not told. The handler that `attachSession`
installed hears of a change unless the ref shows another transport. `mate` is the
transport an answer came from; two transports connect only if each is the other's
mate.

The signalling server is reduced to a queue from each browser to each other one,
with `peer-joined` and `peer-left`; `LocalServer` has its details. `Drop` is the
loss of a socket with what is in flight to it, and possibly with what it sent.
A third browser appears as `PresenceEvent`, which hands the same list to the
handler again. Only the order of peer ids matters, so browsers are numbers.

Frames, clicks, timers, sockets and callbacks come at any time, between any two of
these steps; no assumption is made on how long anything takes. One order is kept:
between the answer and the session, `initializeSession` goes through the same chain of
key and store operations in each handler, which the browser serves in order, so a
browser's sessions are attached in the order in which their transports got there
(`after` names those that go first). Without it TLC finds, for `AutoConnects`, a session
that is replaced by an older one. Left out: changing the auto-connect setting or the
server during a run, sessions that `openExistingChat` attaches with a transport
that was never connected, and the close callback of a channel that `reset`
already replaced.

### ManualPairing

A browser has a tab that is open and one that a link opens. A transport is its
place in `transports`, which is also the code made from it. `Handle` is
`handlePairingPayload` up to the first await that takes time: an invite makes a
transport that gathers candidates, an answer goes to the tab's invite if that has
none yet (`setRemoteDescription` refuses a second one, and a tab without an
invite makes a transport that has no connection to apply it to). `Gathered` shows
the code; `Attach` is the end of `initializeSession` with `attachSession`.

`OpenLink` is a link that opens a tab: its code is in the `mail` of the other tabs
twice, for the BroadcastChannel and for the storage event, and each copy is
acknowledged and handled (`Receive`). The acknowledgement (`Acknowledged`) races
the 700 ms (`TimedOut`), after which the tab handles the code itself; both race
the mail. Users carry codes as links or paste them, an answer when the tab that
shows it has nothing under way. There is one invite, tabs stay open, and links are not
interrupted once they are up, which `ConnectionFlow` has.

## 3. Runs

| run | expected | instance | shows |
|---|---|---|---|
| `registry_single` | pass | 3 connections, 2 peers, one on two connections, 1 group | all the registry's properties, and that it implements `Directory` |
| `local_meet` | pass | 3 browsers connect once each, 1 full buffer, fairness | `AllSeeEachOther`, `BrowsersMeet` |
| `local_return` | pass | 2 browsers, one comes back, the other may lack a name, 1 full buffer, 1 relayed message, fairness | `NotNearItself`, `NoOrphanedRegistration`, `GhostsLeave` |
| `local_ghost` | violation | 2 browsers, one comes back | `NoGhosts` fails: a browser lists a peer that is gone |
| `lambda_meet` | pass | 3 browsers, 2 networks, 1 lag or failing call, 1 departure, 1 relayed message | `OneSeesTheOther`, `NotFoundIsTrue`, `GroupsApart` |
| `lambda_live` | pass | 3 browsers, two may leave, one may lack a name, 1 lag or failing call, 2 invocations at a time, fairness | `DepartureHeard`, `StaleItemsHeal` |
| `lambda_missed` | violation | 2 browsers that register | `EachSeesTheOther` fails: the earlier one does not list the later one |
| `client_online` | pass | 4 addresses, one malformed, one empty; 3 sockets, 3 edits, 2 losses, fairness | `OneSocket`, `StateIsTrue`, `ListIsOfSocket`, `RegistrationIsCurrent`, `ComesBack` |
| `flow_auto` | pass | auto-connect on, mutual trust, 3 changes of the list or 1 loss, fairness | `OneExchange`, `AutoAcceptIsSilent`, `AutoConnects` |
| `flow_manual` | pass | auto-connect off, 2 clicks, fairness | `AutoAcceptIsSilent`, `WaitingEnds`, with crossing requests |
| `flow_glare` | violation | auto-connect on, 1 click | `SingleInitiator` fails: both sides make offers |
| `pairing_tabs` | pass | 2 tabs on each side, 2 codes carried, ICE gives up once, fairness | `AnswerIsLive`, `HandedIsHandled`, `PairingCompletes` |

Each passing run also checks a type invariant, for `LocalServer` in `local_meet`
and for `ConnectionFlow` in `flow_manual`; `lambda_live` leaves it to
`lambda_meet`.

### Bounds

Three connections are the least at which a stale connection, its
successor and a bystander are distinct, and at which a list has two receivers, so
that it can be held up, or find somebody gone, half way; every property relates at
most these. Two labels tell a renamed peer from the same one; the runs of
`LocalServer` use one, as no property of theirs looks at it. `MaxStalls` bounds how
often a buffer fills: one stall holds up one list, besides those that wait for
closing sockets, which are not bounded. `MaxRelays` bounds relayed messages,
which change no state of the registry; one is enough for the error answers and
for a relay that is held up. In `lambda_meet` the groups may be exchanged, and the
connections other than the one that leaves; the run has no temporal property, so the
symmetry is sound. `MaxTrouble` of `LambdaSignalling` counts lagging writes and failing
calls together; in `lambda_live` one is enough for a delete that fails, an invocation
that aborts or an index that lags, each with the other browser that leaves and a
stayer that registers and finds the item. There two invocations run at a time
(`MaxRunning`): the two whose race matters, a departure with a registration or with
another departure. Deadlock is not checked in the server modules
because connection ids run out: browsers may all be gone for good.

`SignallingClient` has three sockets: the current one and two whose close events
are still to come, which three edits in a row bring about. A browser with all
three busy waits for an event in the model; more sockets add only more that close.

`ConnectionFlow` has two browsers, as every connection has; `MaxClicks` and
`MaxTrouble` bound what the outside world does, and with them how many transports
are made. A change of the nearby list costs one of `MaxTrouble`, a lost socket,
interrupted link or late answer costs three, so 3 allows three changes or one loss:
enough for the list to change while a lookup, a request and a session are each under
way, and for a second exchange when a browser whose socket was lost is back. Two clicks are the least for requests that cross, for a
request that is repeated and for a session that is taken down again.

`ManualPairing` has two tabs on each side, since a third would only receive what
the second does; `MaxCarries` of 2 is one code each way, each as a link or by
hand. The double handling comes from the two channels and the timeout, not from users
that repeat themselves; the invariants also hold with 3 (4.6 million states).

Deadlock is not checked in these three either: users may be done, and browsers
offline.

### Where the properties end

The bounds also mark where the properties end; beyond them they do not hold.

- `registry_single` has clients with one peer id each. `register` on a connection
  that has another id leaves the old one in `_peer_to_conn` (`route_message`
  handles this, but `local_server.py` calls `register` itself), and messages to the
  old id reach the new owner: with `Identities <- MCAny`, `NoStaleLookup` and
  `RelayReachesAddressee` fail. The app never registers a second id on one socket.
- `NoGhosts` fails (`local_ghost`). When browsers come back, lists are right only if
  the frames of the old socket are read before those of the new one, and no list is
  held up meanwhile; `AllSeeEachOther` and `BrowsersMeet` have browsers that connect
  once.
- `BrowsersMeet` fails with three browsers of which one comes back: the peer-left of its
  first connection is held up on its way to a third browser by a socket that is closing,
  its new peer-joined is dropped by that browser as already listed
  (`SignallingDiscoveryProvider.ts:143`), and the late peer-left then removes it
  although it is online. Nothing brings it back while both stay.
- With auto-connect on, one click is enough to break `SingleInitiator`
  (`flow_glare`), and with it `OneExchange`, which is checked and proved without clicks.
  It also breaks `AutoAcceptIsSilent`: the Connect button is offered while an automatic
  request is in flight, both requests are accepted silently, both accepts are
  answered with an offer, and the single mark in `autoAcceptedRef` is used up by
  the first, so the second opens the chat. So `flow_auto` has no clicks, and
  `flow_manual`, where two users can click at the same time, has auto-connect off and
  asks for neither.
- That the two ends show the same session is not stated as an invariant: the code
  refutes every form of it that is worth checking. An answer after the 15 s leaves a
  session at the acceptor only; a link that is interrupted ends the session at the end
  that noticed, and may recover; a session that replaces another and ends before the
  next render is compared with the session the ref still shows (`App.tsx:365`), so its
  end is ignored; and with clicks an answer may be applied to another offer
  (`WebRtcDataChannelTransport.ts:91`). The model has all of these. What holds is
  `AutoConnects`: while nothing is lost, sessions that replace each other end in one
  that is connected at both ends.
- `AutoConnects` stops at the first loss. Auto-connect is only tried when the
  nearby list changes: after an answer that comes too late, a lost request or an
  interrupted link nobody tries again while both browsers stay online.
- `WaitingEnds` is about a request that is on its way. The Connect button of a
  chat, unlike that of the nearby list, sends one to a browser that is offline;
  nothing ends that wait, and a pending request switches auto-connect off for
  every peer. A request that the lower browser ignores as its own crosses it is
  not settled either if its own is then rejected.
- `RegistrationIsCurrent` lets the last server stand while the address field is
  empty: `connect` remembers the empty address and returns before `disconnect`.
- `OneSeesTheOther` and `NotFoundIsTrue` assume that the index does not lag; with
  a lag, two browsers that register at the same time miss each other for good.
- The lambda runs have one connection per peer. The handlers do not evict a
  peer's earlier connection, so until its `$disconnect` has run the peer is near
  itself, and that `$disconnect` announces a peer as gone that is there.
- `DepartureHeard` starts when `$disconnect` has found its item. A connection
  that another invocation found to be gone is deleted without a word
  (`lambda_handler.py:119`), and a `$disconnect` that finds no item tells nobody.
  It excuses an invocation that aborts, and (`Settled`) a receiver whose own list is
  still to come, or that another `register` is still to tell of the peer.
  A `register` that races `$disconnect` puts the item back
  (`lambda_handler.py:281`), a query between the notifications and the delete
  lists the peer that left, and a delete that fails leaves its item;
  `StaleItemsHeal` is what then holds, if the next delete does not fail as well. A `get_item`
  that does not see the placeholder yet ends the register with "Connection not
  found", which the client logs and does not repeat.
- `PairingCompletes` has one invite and tabs that stay open. `applyAnswer` does
  not compare session ids, so the answer to an earlier invite would be applied to
  a later one; and the invite kept in localStorage is of no use after a reload,
  as `createTransport` makes a transport without a connection from it.

### Fairness

`flow_auto` and `flow_manual`: browsers go online (`GoOnline`; the provider
retries every 5 s), handlers and renders run, each queue between two browsers is
read, transports make progress, and a user who has a popup answers it. Clicks,
changes of the list, faults and the recovery of a link are not fair.

`local_meet` and `local_return`: the event loop runs what can run, so `Resume` and
each handler are weakly fair. TCP drains a buffer or the keepalive (20 s) ends
the connection, hence weak fairness of `Drain` or `Lose`, a browser reads what
arrives (`Receive`), and it learns that its socket was closed. Nothing makes a
browser connect, leave or send, and nothing makes a buffer fill.

`lambda_live`: an invocation that started goes on until it ends or aborts, and the
copies of the table catch up.

`client_online`: timers, effects, the store and the events of a socket come, and a
server that is down comes back. Without the last, `ComesBack` would ask for a
server that is gone.

`pairing_tabs`: what the browsers have under way goes on. Nothing makes a user
carry a code, and nothing makes ICE give up.

### Disagreements between the code and what is said of it

`local_ghost`: p1's browser connects, disconnects and connects again at once, as
`updateProfile` and `saveSettings` do (`App.tsx:405-406`, `749-750`). The server reads
the second socket's `register` first; then the first one's, which evicts the live
connection for "any stale connection for the same peerId" (`signalling.py:153`). When
the first socket's handler ends, p1 has no registration left, with its socket still
open. It was told of p2, but no departure reaches it any more: p2 leaves, `unregister`
"returns 'peer-left' messages to broadcast to the remaining peers"
(`signalling.py:190`), p1 is not among them, and lists p2 for as long as it is
connected. The others do not list p1 either.

`lambda_missed`: two browsers register at the same time. The first one's handler
has queried the group but not yet posted the list; the second one's handler
finds the first and posts `peer-joined` to it; then the first gets its list, which
lacks the second and replaces what it had. The README's diagram has both sides
told. `OneSeesTheOther` is what remains: the one that wrote last lists the other.

`flow_glare`: the lower browser's auto-connect lookup and its lookup for the
higher browser's manual request are both under way. It sends its own request and
then an accept. The higher browser yields, which clears the pending request in
the state but not yet in the ref, and so takes the accept that follows for the
answer to its own request. Both make offers, and each answers the other's. The
README says the tie-breaker excludes this.

## 4. Proofs

Every theorem holds for all values of the constants that the named assumptions
of the modules allow: any number of connections, browsers, tabs, sockets or
edits, and any number of faults. Where a theorem has a further hypothesis, it is
named below with what happens without it.

| module | theorems | further hypothesis |
|---|---|---|
| `PeerRegistryProofs` | `TypeCorrect`, `RegisteredReachable`, `DeparturesReal` | |
| `PeerRegistrySingleProofs` | `NoStale`, `RelayCorrect`, `DeparturesTold`, `Refinement` | one peer id per connection; one group per peer for `DeparturesTold` |
| `LocalServerProofs` | `RegistryServed`, `ServerLookups`, `ServerImplementsDirectory`, `RegistrationsEnd`, `NeverNearItself`, `ServerTypeCorrect` | |
| | `EverybodySeen` | `OneConnectionEach`, `Nameless = {}` |
| `LambdaSignallingProofs` | `LambdaTypeCorrect`, `GroupsStayApart` | |
| `LambdaMeetProofs` | `OneLists`, `NotFoundTrue` | `OneConnectionEach` |
| `SignallingClientProofs` | `ClientTypeCorrect`, `OneSocketOnly`, `StateTrue`, `ListCurrent`, `RegistrationCurrent` | |
| `ConnectionFlowProofs` | `FlowTypeCorrect` | |
| | `OneExchangeAtATime` | `MaxClicks = 0` |
| | `AcceptsAreSilent` | `MaxClicks = 0 \/ AutoOn = {}` |
| `ManualPairingProofs` | `PairingTypeCorrect`, `ShownIsLive`, `HandoffsAreHeard` | |

**Registry.** The inductive invariant of `PeerRegistryProofs` is the conjunction of
the type invariant and `RegisteredIsReachable`; the latter alone is not inductive
because eviction is decided on the reverse lookup, whose range matters.
`DeparturesAreReal` follows step by step: only `unregister` returns a peer-left, and
by the invariant the connection it removes was the only one of its peer.
`PeerRegistrySingleProofs` assumes `SingleIdentity`, and `OneGroupPerPeer` where
groups matter. Its strengthening adds that a connection is registered only under
its own id and that the reverse lookup of a peer names a connection which may
register as that peer. Every call is then a bind, an unbind or a stutter of
`Directory`. The first assumption is needed, as said above.

**Local server.** `RegistryServed` is `LocalSpec => Spec`: with the frames in the
sockets' queues being those a browser sends (`FramesOK`), every step of the server
is a call of the registry or leaves it alone. All theorems about the registry
follow for the server, `ServerLookups` and `ServerImplementsDirectory` among them;
the server's own assumption on identities is the `SingleIdentity` they need.
`RegistrationsEnd` and `NeverNearItself` rest on `MailOK`: a suspended task waits in
exactly one queue and only while its handler runs, and everything still to be
sent to a socket (`rest`) or read by it (`toClient`) is news that does not name the
socket's own peer. The second part is why a browser that comes back is never
told of itself by its own older connection, however long a list is held up: the
list was computed when the newer connection was not registered. Both hold with frames
of old sockets read at any time.
`EverybodySeen` is about lists once nothing is under way, so its inductive
invariant, `SeeInv`, has to say what they will become while much is. `Shows` reads
a browser's list through its queue: the last message there that decides about a
peer counts, then the list. `ListsFollow`: a browser that can be told shows exactly
the registered peers, except those whose news a suspended task still holds for it.
`HeldOwn` says what such a task holds: a peer-joined of its own connection while that
is registered, a peer-left once it is not, never both and at most one for each
socket, which is why the order of the tasks in a socket's queue cannot matter.
`OpensOnce` (a connection registers once, with its first frame, which has a name)
and `Attended` (a socket that is open has a handler, and only a registration with
a handler stands) keep a list from being overtaken by a second one. Of the
hypotheses the first is needed: in `local_ghost` a browser that comes back lists a
peer that is gone, and is listed by nobody. Without the
second the property is not what the code promises, as the server refuses the
register of a browser with an empty name. `local_meet` has the instance of both.

**Lambda server.** `LambdaInv` has the types and three families of facts: nothing
happens on a connection before `$connect` (`NothingBefore`), every loop has only
connections of the invocation's group left to tell (`LoopsApart`), and lists and
letters name only these (`ListsApart`, `LettersApart`). `GroupsApart` reads the
group from the browser, the code reads it from the item; the invariant relates
the two at every step between the reads. `MeetInv` adds, for as long as no write
has lagged, that who is registered, listed or told about stays in the index while
connected, and `OneKnows`: of two that have put their items, one has listed, is
about to list or to be told of the other. With a second connection of a peer both
theorems fail, as `$disconnect` of the first takes the second off the lists; hence
`OneConnectionEach`, which is also how the runs are set up.

**Client.** `ClientInv` adds to the properties that exactly the sockets in use have a
close handler (`HeardIsLive`), that a socket in use goes to the provider's address
unless that was emptied under it, and that the provider has the app's profile and,
once the effects have run, its address. `StateIsTrue` needs the first: the close
event of a replaced socket must not be heard.

**Connections.** `FlowOK` has the types; that a browser is not twice in a popup's queue
is the part that is not obvious. `QuietInv` is what holds while nobody clicks.
`LowerAsks`: requests, offers and popups go one way, so of two browsers the lower asks
and the higher decides. `QueuesOnce`: no queue holds the same call twice, nor a request
before an offer. `PairsOK`, for each pair: the exchange is at one place at a time
(a lookup, a request, a decision, an accept, an offer), an offer that is under way
comes before a new request, and the mark of a silent accept is there exactly while
such an accept is. `AutoAcceptIsSilent` needs all of it, as marks are one per peer and
are used up by the first offer. With nobody's auto-connect on, `AskedInv` shows the
same under any number of clicks: there is no silent accept, and each mark of an accept
is that of a request the user made. `OneExchange` counts the places of an exchange
over queues, lookups, popups and transports; that there is at most one is `PairsOK`
(no two kinds of place at once) with `QueuesOnce` and the parts of `FlowOK` about
queues (no kind twice), and that it is never one in each direction is `LowerAsks`. What
keeps the invariant is the mark in `autoConnectingRef`: it is there whenever an
exchange is under way, and only the exchange's own end takes it away. The hypotheses
are needed: with both browsers' auto-connect on and one click TLC finds
counterexamples to both properties, described in section 3 under "Where the
properties end".

**Pairing.** `PairInv` says of tabs and transports that refs, links and mail name
transports of the right tab and kind, that a handed-over link was received
(`HandOK`), and that the answer shown is that of the session or its transport is
over (`LiveOK`). The proof corrected the property: that a tab which handed its own
link over makes no transport at all is true of one link, but with three tabs it
may get the link of another tab, and answers that. `HandedIsHandled` says so now.

**Only model-checked.** Liveness, as the prover has no rule for fairness:
`GhostsLeave`, `BrowsersMeet`, `DepartureHeard`, `StaleItemsHeal`, `ComesBack`,
`AutoConnects`, `WaitingEnds`, `PairingCompletes`. Every invariant and every
action property the passing runs check is stated by a theorem, under the hypotheses
of the table. The runs that expect a violation (`NoGhosts`, `EachSeesTheOther`,
`SingleInitiator`) are counterexamples and stay with TLC by their nature.

## 5. Plan

Every module of the plan is written, and every type invariant, safety invariant and
action property that a passing run checks is proved. What could be added: what remains
of `BrowsersMeet` and `NoGhosts` for browsers that come back when nothing is held up
and no frame is late, and what two users may expect of crossing clicks beyond
`WaitingEnds`.

## 6. Not modelled

- Messages (`sendMessage`, `retryMessage`, `handleIncomingEnvelope`,
  `loadMessagesFor` and the message store). What one would state of them the code
  refutes at once: a load that overlaps a message that arrives hides it or shows it
  twice, a load for one chat may replace the list of the next, a message is stored
  as sent before it is, and an envelope that comes before `attachSession` is lost.
  Nothing is acknowledged, and no document promises more. The hazards are in
  `PROJECT.json`.
- The heartbeat, whose pings and pongs change no state, and the close callback of
  a channel that `reset` already replaced.
- `RelayTextTransport`, the fallback without WebRTC: a socket whose callbacks set
  a state.
- Encoding and encryption: pure functions around the browser's Web Crypto.
- Markup, styles, themes, notices and reactions; the vendored packages other than
  how a send suspends; build and deployment files; the browser's WebRTC and
  IndexedDB, which are taken to do what their interfaces say.
