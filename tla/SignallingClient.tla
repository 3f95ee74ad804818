-------------------------- MODULE SignallingClient --------------------------
(***************************************************************************)
(* The signalling client, WebSocketSignallingProvider, and how App.tsx     *)
(* uses it: which sockets it opens, when it retries, and under which       *)
(* profile and with which server the browser is registered.                *)
(*                                                                         *)
(* A call of the app and a callback of a socket or of the timer each run   *)
(* to their end.  A socket the client closes fires its close event later.  *)
(* A number stands for a version of the profile.  Users are slower than    *)
(* renders, so they act on what is shown.                                  *)
(***************************************************************************)
EXTENDS Naturals, FiniteSets

CONSTANTS
  Url,         \* addresses that may stand in the settings
  BadUrl,      \* those for which new WebSocket throws
  DefaultUrl,  \* DEFAULT_SIGNAL_SERVER
  Socket,      \* names of sockets, used again when one is over
  NoUrl,       \* the empty address
  NoSocket,
  MaxEdits,    \* how often the user changes the settings or the profile
  MaxTroubles  \* how often a socket is lost or a server goes down

ASSUME ClientAssumption ==
  /\ BadUrl \subseteq Url /\ DefaultUrl \in Url \ (BadUrl \cup {NoUrl})
  /\ NoUrl \in Url \ BadUrl
  /\ NoSocket \notin Socket /\ IsFiniteSet(Socket)
  /\ MaxEdits \in Nat /\ MaxTroubles \in Nat

VARIABLES
  sockets,   \* phase, address, profile sent in register, onclose installed?
  socket,    \* this.socket
  state, timer, peers, serverUrl, profile,
  app,       \* the app's signalServerUrl and profile
  due,       \* the signalling effect is to run
  saving,    \* the address updateProfile saw before its await, if it is there
  up,        \* the servers that answer
  edits, troubles

provider == <<sockets, socket, state, timer, peers, serverUrl, profile>>
cvars == <<provider, app, due, saving, up, edits, troubles>>

Live(s) == sockets[s].phase \in {"connecting", "open"}
Over == [phase |-> "over", url |-> NoUrl, registered |-> 0, hears |-> FALSE]

-----------------------------------------------------------------------------
(* connect, doConnect and disconnect.                                      *)

\* A mutant of Dropped: the close event of the old socket is still heard.
DroppedHeard ==
  IF socket = NoSocket \/ ~Live(socket) THEN sockets
  ELSE [sockets EXCEPT ![socket].phase = "closing"]

\* The sockets after disconnect: the current one is told to close, and its
\* close event is not heard any more.
Dropped ==
  IF socket = NoSocket \/ ~Live(socket) THEN sockets
  ELSE [sockets EXCEPT ![socket].phase = "closing", ![socket].hears = FALSE]

\* A mutant of DoConnect: the old socket is left to itself.
DoConnectOnly(u, v) ==
  /\ serverUrl' = u /\ profile' = v /\ peers' = {}
  /\ \/ /\ u \in BadUrl \cup {NoUrl}
        /\ state' = "disconnected" /\ timer' = (u \in BadUrl)
        /\ socket' = NoSocket /\ UNCHANGED sockets
     \/ /\ u \notin BadUrl \cup {NoUrl}
        /\ state' = "connecting" /\ timer' = FALSE
        /\ \E s \in {r \in Socket : sockets[r].phase = "over"} :
             /\ socket' = s
             /\ sockets' = [sockets EXCEPT ![s] =
                  [phase |-> "connecting", url |-> u, registered |-> 0, hears |-> TRUE]]

\* disconnect, then a new socket; if its constructor throws a reconnect is
\* scheduled, and without an address nothing follows.
DoConnect(u, v) ==
  /\ serverUrl' = u /\ profile' = v /\ peers' = {}
  /\ \/ /\ u \in BadUrl \cup {NoUrl}
        /\ state' = "disconnected" /\ timer' = (u \in BadUrl)
        /\ socket' = NoSocket /\ sockets' = Dropped
     \/ /\ u \notin BadUrl \cup {NoUrl}
        /\ state' = "connecting" /\ timer' = FALSE
        /\ \E s \in {r \in Socket : sockets[r].phase = "over"} :
             /\ socket' = s
             /\ sockets' = [Dropped EXCEPT ![s] =
                  [phase |-> "connecting", url |-> u, registered |-> 0, hears |-> TRUE]]

\* A mutant of Connect: whoever is connected stays so.
ConnectOnce(u, v) ==
  \/ state = "connected" /\ UNCHANGED provider
  \/ state # "connected" /\ DoConnect(u, v)

\* An empty address is only remembered: doConnect returns before disconnect.
Connect(u, v) ==
  \/ state = "connected" /\ serverUrl = u /\ UNCHANGED provider
  \/ /\ ~(state = "connected" /\ serverUrl = u)
     /\ u # NoUrl
     /\ DoConnect(u, v)
  \/ /\ ~(state = "connected" /\ serverUrl = u)
     /\ u = NoUrl
     /\ serverUrl' = u /\ profile' = v
     /\ UNCHANGED <<sockets, socket, state, timer, peers>>

\* The reconnect timer, five seconds after it was set.
Reconnect ==
  /\ timer
  /\ \/ serverUrl # NoUrl /\ DoConnect(serverUrl, profile)
     \/ /\ serverUrl = NoUrl
        /\ timer' = FALSE
        /\ UNCHANGED <<sockets, socket, state, peers, serverUrl, profile>>
  /\ UNCHANGED <<app, due, saving, up, edits, troubles>>

-----------------------------------------------------------------------------
(* The callbacks of a socket.                                              *)

\* onopen, which sends register.
Opened(s) ==
  /\ sockets[s].phase = "connecting" /\ sockets[s].url \in up
  /\ sockets' = [sockets EXCEPT ![s].phase = "open", ![s].registered = profile]
  /\ state' = "connected"
  /\ UNCHANGED <<socket, timer, peers, serverUrl, profile, app, due, saving, up,
                 edits, troubles>>

\* onmessage: a presence message replaces or extends the list.
Message(s) ==
  /\ sockets[s].phase = "open"
  /\ peers' = peers \cup {s}
  /\ UNCHANGED <<sockets, socket, state, timer, serverUrl, profile, app, due,
                 saving, up, edits, troubles>>

\* A mutant of Closed: the list stays.
ClosedListed(s) ==
  /\ sockets' = [sockets EXCEPT ![s] = Over]
  /\ IF sockets[s].hears THEN state' = "disconnected" /\ timer' = TRUE
                         ELSE UNCHANGED <<state, timer>>
  /\ UNCHANGED <<peers, socket, serverUrl, profile, app, due, saving, up, edits>>

\* A mutant of Closed: no reconnect is scheduled.
ClosedForGood(s) ==
  /\ sockets' = [sockets EXCEPT ![s] = Over]
  /\ IF sockets[s].hears THEN state' = "disconnected" /\ peers' = {}
                         ELSE UNCHANGED <<state, peers>>
  /\ UNCHANGED <<timer, socket, serverUrl, profile, app, due, saving, up, edits>>

\* The close event; this.socket keeps the closed socket.
Closed(s) ==
  /\ sockets' = [sockets EXCEPT ![s] = Over]
  /\ IF sockets[s].hears
       THEN state' = "disconnected" /\ peers' = {} /\ timer' = TRUE
       ELSE UNCHANGED <<state, peers, timer>>
  /\ UNCHANGED <<socket, serverUrl, profile, app, due, saving, up, edits>>

\* A close that the client asked for, or a connection that is refused.
Ends(s) ==
  /\ \/ sockets[s].phase = "closing"
     \/ sockets[s].phase = "connecting" /\ sockets[s].url \notin up
  /\ Closed(s)
  /\ UNCHANGED troubles

Lost(s) ==
  /\ Live(s)
  /\ troubles < MaxTroubles
  /\ troubles' = troubles + 1
  /\ Closed(s)

-----------------------------------------------------------------------------
(* The app.                                                                *)

\* The effect runs after a render that changed the profile or the address.
Effect ==
  /\ due
  /\ due' = FALSE
  /\ Connect(app.url, app.profile)
  /\ UNCHANGED <<app, saving, up, edits, troubles>>

Edit ==
  /\ ~due
  /\ edits < MaxEdits
  /\ edits' = edits + 1
  /\ UNCHANGED <<up, troubles>>

\* A key pressed in the address field changes the address at once.
TypeUrl(u) ==
  /\ Edit
  /\ app' = [app EXCEPT !.url = u]
  /\ due' = TRUE
  /\ UNCHANGED <<provider, saving>>

\* The field is required: an empty address is not submitted.
SaveSettings ==
  /\ Edit
  /\ app.url # NoUrl
  /\ DoConnect(app.url, app.profile)
  /\ UNCHANGED <<app, due, saving>>

RevertToDefault ==
  /\ Edit
  /\ app' = [app EXCEPT !.url = DefaultUrl]
  /\ due' = TRUE
  /\ DoConnect(DefaultUrl, app.profile)
  /\ UNCHANGED saving

\* updateProfile awaits the store with the address of the moment ...
UpdateProfile ==
  /\ Edit
  /\ saving = {}
  /\ saving' = {app.url}
  /\ UNCHANGED <<provider, app, due>>

\* A mutant of ProfileSaved: the form can be sent again at once.
ProfileSavedAgain ==
  /\ saving # {}
  /\ app' = [app EXCEPT !.profile = @ + 1]
  /\ due' = TRUE
  /\ \E u \in saving : DoConnect(u, app.profile + 1)
  /\ UNCHANGED <<saving, up, edits, troubles>>

\* ... and reconnects with it.
ProfileSaved ==
  /\ saving # {}
  /\ saving' = {}
  /\ app' = [app EXCEPT !.profile = @ + 1]
  /\ due' = TRUE
  /\ \E u \in saving : DoConnect(u, app.profile + 1)
  /\ UNCHANGED <<up, edits, troubles>>

-----------------------------------------------------------------------------
ServerDown(u) ==
  /\ u \in up
  /\ troubles < MaxTroubles
  /\ troubles' = troubles + 1
  /\ up' = up \ {u}
  /\ UNCHANGED <<provider, app, due, saving, edits>>

ServerUp(u) ==
  /\ u \notin up \cup BadUrl \cup {NoUrl}
  /\ up' = up \cup {u}
  /\ UNCHANGED <<provider, app, due, saving, edits, troubles>>

\* The profile was loaded; the first effect is to run.
ClientInit ==
  /\ sockets = [s \in Socket |-> Over]
  /\ socket = NoSocket /\ state = "disconnected" /\ timer = FALSE /\ peers = {}
  /\ serverUrl = NoUrl /\ profile = 0
  /\ app \in [url : Url \ {NoUrl}, profile : {1}]
  /\ due = TRUE /\ saving = {}
  /\ up = Url \ (BadUrl \cup {NoUrl})
  /\ edits = 0 /\ troubles = 0

ClientNext ==
  \/ Reconnect \/ Effect \/ SaveSettings \/ RevertToDefault
  \/ UpdateProfile \/ ProfileSaved
  \/ \E s \in Socket : Opened(s) \/ Message(s) \/ Ends(s) \/ Lost(s)
  \/ \E u \in Url : TypeUrl(u) \/ ServerDown(u) \/ ServerUp(u)

\* Callbacks, timers and renders come; servers come back.
ClientFairness ==
  /\ WF_cvars(Reconnect) /\ WF_cvars(Effect) /\ WF_cvars(ProfileSaved)
  /\ \A s \in Socket : WF_cvars(Opened(s)) /\ WF_cvars(Ends(s))
  /\ \A u \in Url : WF_cvars(ServerUp(u))

ClientSpec == ClientInit /\ [][ClientNext]_cvars
FairClient == ClientSpec /\ ClientFairness

-----------------------------------------------------------------------------
(* Properties.                                                             *)

\* The variables have their types; the current socket has not been dropped.
ClientTypeOK ==
  /\ sockets \in [Socket -> [phase : {"over", "connecting", "open", "closing"},
                             url : Url,
                             registered : 0..MaxEdits + 1, hears : BOOLEAN]]
  /\ socket \in Socket \cup {NoSocket}
  /\ state \in {"disconnected", "connecting", "connected"}
  /\ timer \in BOOLEAN /\ due \in BOOLEAN
  /\ serverUrl \in Url /\ saving \subseteq Url
  /\ profile \in 0..MaxEdits + 1
  /\ app \in [url : Url, profile : 1..MaxEdits + 1]
  /\ peers \subseteq Socket /\ up \subseteq Url \ (BadUrl \cup {NoUrl})
  /\ edits \in 0..MaxEdits /\ troubles \in 0..MaxTroubles

\* A browser never has two sockets at the servers: whoever is not the current
\* one has been closed.  The servers' modules rely on this.
OneSocket == \A s \in Socket : Live(s) => s = socket

\* What the user is shown as connected, connecting or offline is the current
\* socket's phase, and a reconnect is pending only while there is none: the
\* timer, which closes the current socket, never ends a connection.
StateIsTrue ==
  /\ state = "connected" <=> \E s \in Socket : sockets[s].phase = "open"
  /\ state = "connecting" <=> \E s \in Socket : sockets[s].phase = "connecting"
  /\ timer => state = "disconnected"

\* The nearby list comes from the socket that is open, never from an earlier
\* one.
ListIsOfSocket == \A s \in peers : s = socket /\ sockets[s].phase = "open"

\* Once the effects have run, an open socket is registered under the app's
\* profile with the app's server, though connect leaves a connection to the
\* same server alone and updateProfile uses an address read before its await.
\* (While the address field is empty the last server stays in use.)
RegistrationIsCurrent ==
  \A s \in Socket :
    ~due /\ sockets[s].phase = "open" =>
      sockets[s].url \in {app.url} \cup (IF app.url = NoUrl THEN Url ELSE {})
        /\ sockets[s].registered = app.profile

\* Whatever was lost, refused or mistyped in between: a browser with an
\* address that can be used ends up online.
ComesBack == <>[](app.url \in BadUrl \cup {NoUrl} \/ state = "connected")
=============================================================================
