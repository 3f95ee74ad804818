----------------------- MODULE SignallingClientProofs -----------------------
(***************************************************************************)
(* Proofs about SignallingClient, for every set of addresses and sockets   *)
(* and however often the user edits or a connection is lost.  One          *)
(* inductive invariant, ClientInv, carries all the safety properties.      *)
(***************************************************************************)
EXTENDS SignallingClient, TLAPS

USE ClientAssumption

-----------------------------------------------------------------------------
(* The invariant.                                                          *)

\* Exactly the sockets in use have their onclose handler.
HeardIsLive == \A s \in Socket : sockets[s].hears <=> Live(s)

\* A socket in use goes to the provider's address, which is only emptied
\* under it, and an open one is registered under the provider's profile.
SocketIsProviders ==
  \A s \in Socket :
    /\ Live(s) => serverUrl \in {sockets[s].url, NoUrl}
    /\ sockets[s].phase = "open" => sockets[s].registered = profile

\* The provider knows the app's profile unless it was never called, and the
\* app's address once the effects have run.
ProviderFollows ==
  /\ profile = app.profile \/ (due /\ state = "disconnected" /\ ~timer)
  /\ due \/ serverUrl = app.url

\* Every version of the profile but the first comes from an edit, that of a
\* save under way included.
EditsCounted ==
  /\ profile <= app.profile
  /\ app.profile <= edits + 1
  /\ saving # {} => app.profile <= edits

ClientInv ==
  /\ ClientTypeOK /\ OneSocket /\ StateIsTrue /\ ListIsOfSocket
  /\ HeardIsLive /\ SocketIsProviders /\ ProviderFollows /\ EditsCounted

\* What of the invariant is about the provider alone.
SocketRecord == [phase : {"over", "connecting", "open", "closing"}, url : Url,
                 registered : 0..MaxEdits + 1, hears : BOOLEAN]

ProviderTypeOK ==
  /\ sockets \in [Socket -> SocketRecord]
  /\ socket \in Socket \cup {NoSocket}
  /\ state \in {"disconnected", "connecting", "connected"}
  /\ timer \in BOOLEAN /\ serverUrl \in Url
  /\ profile \in 0..MaxEdits + 1 /\ peers \subseteq Socket

ProviderInv ==
  /\ ProviderTypeOK /\ OneSocket /\ StateIsTrue /\ ListIsOfSocket
  /\ HeardIsLive /\ SocketIsProviders

AppTypeOK ==
  /\ due \in BOOLEAN /\ saving \subseteq Url
  /\ app \in [url : Url, profile : 1..MaxEdits + 1]
  /\ up \subseteq Url \ (BadUrl \cup {NoUrl})
  /\ edits \in 0..MaxEdits /\ troubles \in 0..MaxTroubles

LEMMA ClientInvParts ==
  ClientInv <=> ProviderInv /\ AppTypeOK /\ ProviderFollows /\ EditsCounted
BY DEF ClientInv, ProviderInv, ClientTypeOK, ProviderTypeOK, AppTypeOK, SocketRecord

-----------------------------------------------------------------------------
(* disconnect and doConnect.                                               *)

\* After disconnect no socket is in use or heard.
LEMMA DroppedIsDead ==
  ASSUME ProviderInv
  PROVE  /\ Dropped \in [Socket -> SocketRecord]
         /\ \A s \in Socket : /\ Dropped[s].phase \notin {"connecting", "open"}
                              /\ ~Dropped[s].hears
<1>1. CASE socket = NoSocket \/ ~Live(socket)
  <2>1. Dropped = sockets
    BY <1>1 DEF Dropped
  <2>2. \A s \in Socket : ~Live(s)
    BY <1>1 DEF ProviderInv, OneSocket
  <2> QED BY <2>1, <2>2 DEF ProviderInv, ProviderTypeOK, HeardIsLive, Live
<1>2. CASE ~(socket = NoSocket \/ ~Live(socket))
  <2>1. socket \in Socket
    BY <1>2 DEF ProviderInv, ProviderTypeOK
  <2>2. Dropped = [sockets EXCEPT ![socket].phase = "closing", ![socket].hears = FALSE]
    BY <1>2 DEF Dropped
  <2>3. \A s \in Socket : s # socket => ~Live(s)
    BY DEF ProviderInv, OneSocket
  <2>4. \A s \in Socket : s # socket => Dropped[s] = sockets[s]
    BY <2>2 DEF ProviderInv, ProviderTypeOK
  <2>5. Dropped[socket] = [sockets[socket] EXCEPT !.phase = "closing", !.hears = FALSE]
    BY <2>1, <2>2 DEF ProviderInv, ProviderTypeOK
  <2>6. sockets[socket] \in SocketRecord
    BY <2>1 DEF ProviderInv, ProviderTypeOK
  <2>7. /\ Dropped[socket] \in SocketRecord
        /\ Dropped[socket].phase = "closing" /\ ~Dropped[socket].hears
    BY <2>5, <2>6 DEF SocketRecord
  <2>8. Dropped \in [Socket -> SocketRecord]
    BY <2>1, <2>2, <2>7 DEF ProviderInv, ProviderTypeOK
  <2>9. ASSUME NEW s \in Socket
        PROVE  Dropped[s].phase \notin {"connecting", "open"} /\ ~Dropped[s].hears
    BY <2>3, <2>4, <2>7 DEF ProviderInv, HeardIsLive, Live
  <2> QED BY <2>8, <2>9
<1> QED BY <1>1, <1>2

\* doConnect leaves at most the socket it makes, from whatever state.
LEMMA DoConnectKeeps ==
  ASSUME ProviderInv, NEW u \in Url, NEW v \in 0..MaxEdits + 1, DoConnect(u, v)
  PROVE  ProviderInv' /\ serverUrl' = u /\ profile' = v
<1>0. serverUrl' = u /\ profile' = v /\ peers' = {}
  BY DEF DoConnect
<1>1. Dropped \in [Socket -> SocketRecord]
      /\ \A s \in Socket : /\ Dropped[s].phase \notin {"connecting", "open"}
                           /\ ~Dropped[s].hears
  BY DroppedIsDead
<1>2. CASE u \in BadUrl \cup {NoUrl}
  <2>1. state' = "disconnected" /\ timer' = (u \in BadUrl) /\ socket' = NoSocket
        /\ sockets' = Dropped
    BY <1>2 DEF DoConnect
  <2> QED BY <1>0, <1>1, <2>1
         DEF ProviderInv, ProviderTypeOK, OneSocket, StateIsTrue, ListIsOfSocket,
             HeardIsLive, SocketIsProviders, Live
<1>3. CASE u \notin BadUrl \cup {NoUrl}
  <2> DEFINE new == [phase |-> "connecting", url |-> u, registered |-> 0, hears |-> TRUE]
  <2>1. state' = "connecting" /\ timer' = FALSE
    BY <1>3 DEF DoConnect
  <2>2. PICK s \in Socket : socket' = s /\ sockets' = [Dropped EXCEPT ![s] = new]
    BY <1>3 DEF DoConnect
  <2>3. new \in SocketRecord
    BY DEF SocketRecord
  <2>4. sockets'[s] = new /\ \A r \in Socket : r # s => sockets'[r] = Dropped[r]
    BY <1>1, <2>2
  <2>5. sockets' \in [Socket -> SocketRecord]
    BY <1>1, <2>2, <2>3
  <2>6. ProviderTypeOK'
    BY <1>0, <2>1, <2>2, <2>5 DEF ProviderTypeOK
  <2>7. \A r \in Socket : Live(r)' <=> r = s
    BY <1>1, <2>4 DEF Live
  <2>8. OneSocket' /\ HeardIsLive' /\ ListIsOfSocket'
    BY <1>0, <1>1, <2>2, <2>4, <2>7 DEF OneSocket, HeardIsLive, ListIsOfSocket
  <2>9. StateIsTrue' /\ SocketIsProviders'
    BY <1>0, <1>1, <2>1, <2>4, <2>7 DEF StateIsTrue, SocketIsProviders, Live
  <2> QED BY <1>0, <2>6, <2>8, <2>9 DEF ProviderInv
<1> QED BY <1>0, <1>2, <1>3

\* The close event: the current socket's is heard, a dropped one's is not.
LEMMA ClosedKeeps ==
  ASSUME ProviderInv, NEW s \in Socket, Closed(s)
  PROVE  /\ ProviderInv'
         /\ state = "disconnected" => UNCHANGED <<state, timer>>
<1>0. UNCHANGED <<socket, serverUrl, profile>> /\ sockets' = [sockets EXCEPT ![s] = Over]
  BY DEF Closed
<1>1. sockets'[s] = Over /\ \A r \in Socket : r # s => sockets'[r] = sockets[r]
  BY <1>0 DEF ProviderInv, ProviderTypeOK
<1>2. \A r \in Socket : r # s => (Live(r)' <=> Live(r))
  BY <1>1 DEF Live
<1>3. ~Live(s)'
  BY <1>1 DEF Live, Over
<1>4. HeardIsLive' /\ OneSocket'
  BY <1>0, <1>1, <1>2, <1>3 DEF ProviderInv, HeardIsLive, OneSocket, Over
<1>5. SocketIsProviders'
  BY <1>0, <1>1, <1>2, <1>3 DEF ProviderInv, SocketIsProviders, Over
<1>6. sockets' \in [Socket -> SocketRecord]
  BY <1>0 DEF ProviderInv, ProviderTypeOK, SocketRecord, Over
<1>7. CASE sockets[s].hears
  <2>1. state' = "disconnected" /\ peers' = {} /\ timer' = TRUE
    BY <1>7 DEF Closed
  <2>2. Live(s) /\ \A r \in Socket : ~Live(r)'
    BY <1>2, <1>3, <1>7 DEF ProviderInv, HeardIsLive, OneSocket
  <2>3. StateIsTrue' /\ ListIsOfSocket'
    BY <2>1, <2>2 DEF StateIsTrue, ListIsOfSocket, Live
  <2>4. state # "disconnected"
    BY <2>2 DEF ProviderInv, StateIsTrue, Live
  <2> QED BY <1>0, <1>4, <1>5, <1>6, <2>1, <2>3, <2>4 DEF ProviderInv, ProviderTypeOK
<1>8. CASE ~sockets[s].hears
  <2>1. UNCHANGED <<state, peers, timer>>
    BY <1>8 DEF Closed
  <2>2. ~Live(s)
    BY <1>8 DEF ProviderInv, HeardIsLive
  <2>3. StateIsTrue'
    BY <1>1, <2>1, <2>2 DEF ProviderInv, StateIsTrue, Live, Over
  <2>4. ListIsOfSocket'
    BY <1>0, <1>1, <2>1, <2>2 DEF ProviderInv, ListIsOfSocket, Live
  <2> QED BY <1>0, <1>4, <1>5, <1>6, <2>1, <2>3, <2>4 DEF ProviderInv, ProviderTypeOK
<1> QED BY <1>7, <1>8

-----------------------------------------------------------------------------
(* The callbacks of an open socket and the calls of the app.               *)

LEMMA OpenedKeeps ==
  ASSUME ProviderInv, NEW s \in Socket, Opened(s)
  PROVE  ProviderInv' /\ state = "connecting"
<1>1. /\ sockets[s].phase = "connecting" /\ state' = "connected"
      /\ sockets' = [sockets EXCEPT ![s].phase = "open", ![s].registered = profile]
      /\ UNCHANGED <<socket, timer, peers, serverUrl, profile>>
  BY DEF Opened
<1>2. state = "connecting" /\ socket = s /\ sockets[s].hears
  BY <1>1 DEF ProviderInv, OneSocket, StateIsTrue, HeardIsLive, Live
<1>3. sockets[s] \in SocketRecord /\ profile \in 0..MaxEdits + 1
  BY DEF ProviderInv, ProviderTypeOK
<1>4. sockets'[s] = [sockets[s] EXCEPT !.phase = "open", !.registered = profile]
      /\ \A r \in Socket : r # s => sockets'[r] = sockets[r]
  BY <1>1 DEF ProviderInv, ProviderTypeOK
<1>5. /\ sockets'[s] \in SocketRecord /\ sockets'[s].phase = "open"
      /\ sockets'[s].registered = profile /\ sockets'[s].url = sockets[s].url
      /\ sockets'[s].hears = sockets[s].hears
  BY <1>3, <1>4 DEF SocketRecord
<1>6. sockets' \in [Socket -> SocketRecord]
  BY <1>1, <1>4, <1>5 DEF ProviderInv, ProviderTypeOK
<1>7. \A r \in Socket : r # s => ~Live(r)
  BY <1>2 DEF ProviderInv, OneSocket
<1>8. OneSocket' /\ HeardIsLive'
  BY <1>1, <1>2, <1>4, <1>5, <1>7 DEF ProviderInv, OneSocket, HeardIsLive, Live
<1>9. StateIsTrue' /\ ListIsOfSocket'
  <2>1. StateIsTrue'
    <3>1. \A r \in Socket : r # s => sockets'[r].phase \notin {"connecting", "open"}
      BY <1>4, <1>7 DEF Live
    <3>2. ~timer'
      BY <1>1, <1>2 DEF ProviderInv, StateIsTrue
    <3> QED BY <1>1, <1>5, <3>1, <3>2 DEF StateIsTrue
  <2>2. ListIsOfSocket'
    BY <1>1, <1>2, <1>4, <1>5, <1>7 DEF ProviderInv, ListIsOfSocket
  <2> QED BY <2>1, <2>2
<1>10. SocketIsProviders'
  <2>1. \A r \in Socket : r # s => sockets'[r] = sockets[r]
    BY <1>4
  <2>2. Live(s) /\ sockets'[s].url = sockets[s].url /\ UNCHANGED <<serverUrl, profile>>
    BY <1>1, <1>5 DEF Live
  <2>3. \A r \in Socket : Live(r)' => Live(r) /\ sockets'[r].url = sockets[r].url
    BY <2>1, <2>2 DEF Live
  <2> QED BY <1>1, <1>5, <2>1, <2>2, <2>3 DEF ProviderInv, SocketIsProviders
<1> QED BY <1>1, <1>2, <1>6, <1>8, <1>9, <1>10 DEF ProviderInv, ProviderTypeOK

LEMMA MessageKeeps ==
  ASSUME ProviderInv, NEW s \in Socket, Message(s)
  PROVE  ProviderInv'
<1>1. sockets[s].phase = "open" /\ s = socket
  BY DEF Message, ProviderInv, OneSocket, Live
<1> QED
  BY <1>1 DEF Message, ProviderInv, ProviderTypeOK, OneSocket, StateIsTrue,
              ListIsOfSocket, HeardIsLive, SocketIsProviders, Live

\* connect brings the address and, if it was not given before, the profile.
LEMMA ConnectKeeps ==
  ASSUME ClientInv, Connect(app.url, app.profile)
  PROVE  ProviderInv' /\ serverUrl' = app.url /\ profile' = app.profile
<1>0. /\ ProviderInv /\ ProviderFollows
      /\ app.url \in Url /\ app.profile \in 0..MaxEdits + 1
  BY ClientInvParts DEF AppTypeOK
<1>1. CASE state = "connected" /\ serverUrl = app.url /\ UNCHANGED provider
  BY <1>0, <1>1
     DEF provider, ProviderInv, ProviderTypeOK, OneSocket, StateIsTrue,
         ListIsOfSocket, HeardIsLive, SocketIsProviders, ProviderFollows, Live
<1>2. CASE DoConnect(app.url, app.profile)
  BY <1>0, <1>2, DoConnectKeeps
<1>3. CASE /\ app.url = NoUrl
           /\ serverUrl' = app.url /\ profile' = app.profile
           /\ UNCHANGED <<sockets, socket, state, timer, peers>>
           /\ ~(state = "connected" /\ serverUrl = app.url)
  <2>1. SocketIsProviders'
    <3>1. \A s \in Socket : sockets[s].phase = "open" => state = "connected"
      BY <1>0 DEF ProviderInv, StateIsTrue
    <3> QED BY <1>0, <1>3, <3>1 DEF ProviderInv, SocketIsProviders, ProviderFollows, Live
  <2> QED BY <1>0, <1>3, <2>1
         DEF ProviderInv, ProviderTypeOK, OneSocket, StateIsTrue, ListIsOfSocket,
             HeardIsLive, Live
<1> QED BY <1>1, <1>2, <1>3 DEF Connect

-----------------------------------------------------------------------------
(* The theorems.                                                           *)

LEMMA ClientInvInit == ClientInit => ClientInv
<1> SUFFICES ASSUME ClientInit
             PROVE  ClientInv
  OBVIOUS
<1>1. \A s \in Socket : sockets[s] = Over
  BY DEF ClientInit
<1>2. ProviderTypeOK
  <2>1. Over \in SocketRecord
    BY DEF SocketRecord, Over
  <2>2. sockets \in [Socket -> SocketRecord]
    BY <2>1 DEF ClientInit
  <2>3. profile \in 0..MaxEdits + 1 /\ serverUrl \in Url
    BY DEF ClientInit
  <2> QED BY <2>2, <2>3 DEF ClientInit, ProviderTypeOK
<1>3. AppTypeOK
  BY DEF ClientInit, AppTypeOK
<1>4. OneSocket /\ StateIsTrue /\ ListIsOfSocket /\ HeardIsLive /\ SocketIsProviders
  BY <1>1 DEF ClientInit, OneSocket, StateIsTrue, ListIsOfSocket, HeardIsLive,
              SocketIsProviders, Live, Over
<1>5. ProviderFollows /\ EditsCounted
  BY DEF ClientInit, ProviderFollows, EditsCounted
<1> QED BY <1>2, <1>3, <1>4, <1>5, ClientInvParts DEF ProviderInv

LEMMA ClientInvNext ==
  ASSUME ClientInv, [ClientNext]_cvars
  PROVE  ClientInv'
<1>0. ProviderInv /\ AppTypeOK /\ ProviderFollows /\ EditsCounted
  BY ClientInvParts
<1>1. ProviderInv' /\ AppTypeOK' /\ ProviderFollows' /\ EditsCounted' => ClientInv'
  BY DEF ClientInv, ProviderInv, ClientTypeOK, ProviderTypeOK, AppTypeOK, SocketRecord
<1>2. UNCHANGED provider => ProviderInv'
  BY <1>0 DEF provider, ProviderInv, ProviderTypeOK, OneSocket, StateIsTrue,
              ListIsOfSocket, HeardIsLive, SocketIsProviders, Live
<1>3. /\ profile \in 0..MaxEdits + 1 /\ serverUrl \in Url
      /\ app.url \in Url /\ app.profile \in 0..MaxEdits + 1 /\ app.profile \in Nat
      /\ edits \in Nat
  BY <1>0 DEF ProviderInv, ProviderTypeOK, AppTypeOK
<1>4. CASE Reconnect
  <2>1. ProviderInv' /\ serverUrl' = serverUrl /\ profile' = profile
    <3>1. CASE serverUrl # NoUrl /\ DoConnect(serverUrl, profile)
      BY <1>0, <1>3, <3>1, DoConnectKeeps
    <3>2. CASE /\ serverUrl = NoUrl /\ timer' = FALSE
               /\ UNCHANGED <<sockets, socket, state, peers, serverUrl, profile>>
      BY <1>0, <3>2
         DEF ProviderInv, ProviderTypeOK, OneSocket, StateIsTrue, ListIsOfSocket,
             HeardIsLive, SocketIsProviders, Live
    <3> QED BY <1>4, <3>1, <3>2 DEF Reconnect
  <2>2. profile = app.profile
    BY <1>0, <1>4 DEF Reconnect, ProviderFollows
  <2>3. ProviderFollows' /\ EditsCounted' /\ AppTypeOK'
    BY <1>0, <1>4, <2>1, <2>2 DEF Reconnect, ProviderFollows, EditsCounted, AppTypeOK
  <2> QED BY <1>1, <2>1, <2>3
<1>5. CASE Effect
  <2>1. ProviderInv' /\ serverUrl' = app.url /\ profile' = app.profile
    BY <1>5, ConnectKeeps DEF Effect
  <2>2. UNCHANGED <<app, saving, up, edits, troubles>> /\ due' = FALSE
    BY <1>5 DEF Effect
  <2>3. ProviderFollows'
    BY <2>1, <2>2 DEF ProviderFollows
  <2>4. EditsCounted'
    BY <1>0, <1>3, <2>1, <2>2 DEF EditsCounted
  <2>5. AppTypeOK'
    BY <1>0, <2>2 DEF AppTypeOK
  <2> QED BY <1>1, <2>1, <2>3, <2>4, <2>5
<1>6. CASE SaveSettings
  <2>1. ProviderInv' /\ serverUrl' = app.url /\ profile' = app.profile
    BY <1>0, <1>3, <1>6, DoConnectKeeps DEF SaveSettings
  <2>2. ProviderFollows' /\ EditsCounted' /\ AppTypeOK'
    BY <1>0, <1>3, <1>6, <2>1
       DEF SaveSettings, Edit, ProviderFollows, EditsCounted, AppTypeOK
  <2> QED BY <1>1, <2>1, <2>2
<1>7. CASE RevertToDefault
  <2>1. ProviderInv' /\ profile' = app.profile
    BY <1>0, <1>3, <1>7, DoConnectKeeps DEF RevertToDefault
  <2>2. /\ app' \in [url : Url, profile : 1..MaxEdits + 1]
        /\ app'.profile = app.profile
    BY <1>0, <1>7 DEF RevertToDefault, AppTypeOK
  <2>3. ProviderFollows' /\ EditsCounted' /\ AppTypeOK'
    BY <1>0, <1>3, <1>7, <2>1, <2>2
       DEF RevertToDefault, Edit, ProviderFollows, EditsCounted, AppTypeOK
  <2> QED BY <1>1, <2>1, <2>3
<1>8. CASE UpdateProfile
  <2>1. ProviderFollows' /\ EditsCounted' /\ AppTypeOK'
    BY <1>0, <1>3, <1>8
       DEF UpdateProfile, Edit, provider, ProviderFollows, EditsCounted, AppTypeOK
  <2> QED BY <1>1, <1>2, <1>8, <2>1 DEF UpdateProfile
<1>9. CASE ProfileSaved
  <2>1. app.profile + 1 \in 0..MaxEdits + 1 /\ app.profile <= edits
    BY <1>0, <1>3, <1>9 DEF ProfileSaved, EditsCounted, AppTypeOK
  <2>2. PICK u \in Url : DoConnect(u, app.profile + 1)
    BY <1>0, <1>9 DEF ProfileSaved, AppTypeOK
  <2>3. ProviderInv' /\ profile' = app.profile + 1
    BY <1>0, <2>1, <2>2, DoConnectKeeps
  <2>4. /\ app' \in [url : Url, profile : 1..MaxEdits + 1]
        /\ app'.profile = app.profile + 1
    BY <1>0, <1>9, <2>1 DEF ProfileSaved, AppTypeOK
  <2>5. ProviderFollows' /\ EditsCounted' /\ AppTypeOK'
    BY <1>0, <1>3, <1>9, <2>1, <2>3, <2>4
       DEF ProfileSaved, ProviderFollows, EditsCounted, AppTypeOK
  <2> QED BY <1>1, <2>3, <2>5
<1>10. ASSUME NEW s \in Socket, Opened(s)
       PROVE  ClientInv'
  <2>1. ProviderInv' /\ state = "connecting"
    BY <1>0, <1>10, OpenedKeeps
  <2>2. ProviderFollows' /\ EditsCounted' /\ AppTypeOK'
    BY <1>0, <1>10, <2>1 DEF Opened, ProviderFollows, EditsCounted, AppTypeOK
  <2> QED BY <1>1, <2>1, <2>2
<1>11. ASSUME NEW s \in Socket, Message(s)
       PROVE  ClientInv'
  <2>1. ProviderInv'
    BY <1>0, <1>11, MessageKeeps
  <2>2. ProviderFollows' /\ EditsCounted' /\ AppTypeOK'
    BY <1>0, <1>11 DEF Message, ProviderFollows, EditsCounted, AppTypeOK
  <2> QED BY <1>1, <2>1, <2>2
<1>12. ASSUME NEW s \in Socket, Ends(s) \/ Lost(s)
       PROVE  ClientInv'
  <2>1. Closed(s)
    BY <1>12 DEF Ends, Lost
  <2>2. ProviderInv' /\ (state = "disconnected" => UNCHANGED <<state, timer>>)
    BY <1>0, <2>1, ClosedKeeps
  <2>3. ProviderFollows' /\ EditsCounted'
    BY <1>0, <2>1, <2>2 DEF Closed, ProviderFollows, EditsCounted
  <2>4. AppTypeOK'
    BY <1>0, <1>12, <2>1 DEF Closed, Ends, Lost, AppTypeOK
  <2> QED BY <1>1, <2>2, <2>3, <2>4
<1>13. ASSUME NEW u \in Url, TypeUrl(u)
       PROVE  ClientInv'
  <2>1. /\ app' \in [url : Url, profile : 1..MaxEdits + 1]
        /\ app'.profile = app.profile
    BY <1>0, <1>13 DEF TypeUrl, AppTypeOK
  <2>2. ProviderFollows' /\ EditsCounted' /\ AppTypeOK'
    BY <1>0, <1>3, <1>13, <2>1
       DEF TypeUrl, Edit, provider, ProviderFollows, EditsCounted, AppTypeOK
  <2> QED BY <1>1, <1>2, <1>13, <2>2 DEF TypeUrl
<1>14. ASSUME NEW u \in Url, ServerDown(u) \/ ServerUp(u)
       PROVE  ClientInv'
  <2>1. ProviderFollows' /\ EditsCounted' /\ AppTypeOK'
    BY <1>0, <1>14
       DEF ServerDown, ServerUp, provider, ProviderFollows, EditsCounted, AppTypeOK
  <2> QED BY <1>1, <1>2, <1>14, <2>1 DEF ServerDown, ServerUp
<1>15. CASE UNCHANGED cvars
  BY <1>0, <1>1, <1>2, <1>15
     DEF cvars, provider, ProviderFollows, EditsCounted, AppTypeOK
<1> QED BY <1>4, <1>5, <1>6, <1>7, <1>8, <1>9, <1>10, <1>11, <1>12, <1>13, <1>14, <1>15
       DEF ClientNext

LEMMA ClientInvariant == ClientSpec => []ClientInv
BY ClientInvInit, ClientInvNext, PTL DEF ClientSpec

\* The client's variables have their types.
THEOREM ClientTypeCorrect == ClientSpec => []ClientTypeOK
<1>1. ClientInv => ClientTypeOK
  BY DEF ClientInv
<1> QED BY <1>1, ClientInvariant, PTL

\* However connect, disconnect, the timer and the callbacks interleave, a
\* browser has at most one socket that is connecting or open, the current one.
THEOREM OneSocketOnly == ClientSpec => []OneSocket
<1>1. ClientInv => OneSocket
  BY DEF ClientInv
<1> QED BY <1>1, ClientInvariant, PTL

\* The state shown is the phase of the current socket, whichever close events
\* of earlier sockets come late, and a pending reconnect has none to close.
THEOREM StateTrue == ClientSpec => []StateIsTrue
<1>1. ClientInv => StateIsTrue
  BY DEF ClientInv
<1> QED BY <1>1, ClientInvariant, PTL

\* The nearby list never shows what an earlier socket was told.
THEOREM ListCurrent == ClientSpec => []ListIsOfSocket
<1>1. ClientInv => ListIsOfSocket
  BY DEF ClientInv
<1> QED BY <1>1, ClientInvariant, PTL

\* Once the effects have run, the open socket is registered with the app's
\* server under the app's profile, in whatever order edits, saves and
\* reconnects came.
THEOREM RegistrationCurrent == ClientSpec => []RegistrationIsCurrent
<1>1. ASSUME ClientInv
      PROVE  RegistrationIsCurrent
  <2> SUFFICES ASSUME NEW s \in Socket, ~due, sockets[s].phase = "open"
               PROVE  /\ sockets[s].url \in {app.url} \cup (IF app.url = NoUrl THEN Url ELSE {})
                      /\ sockets[s].registered = app.profile
    BY DEF RegistrationIsCurrent
  <2>1. /\ ProviderInv /\ ProviderFollows
        /\ sockets[s] \in SocketRecord
    BY <1>1, ClientInvParts DEF ProviderInv, ProviderTypeOK
  <2>2. serverUrl = app.url /\ profile = app.profile
    BY <2>1 DEF ProviderFollows
  <2>3. serverUrl \in {sockets[s].url, NoUrl} /\ sockets[s].registered = profile
    BY <2>1 DEF ProviderInv, SocketIsProviders, Live
  <2> QED BY <2>1, <2>2, <2>3 DEF SocketRecord
<1> QED BY <1>1, ClientInvariant, PTL
=============================================================================
