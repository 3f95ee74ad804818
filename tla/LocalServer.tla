---------------------------- MODULE LocalServer ----------------------------
(***************************************************************************)
(* The self-hosted signalling server, signal-server/local_server.py, its   *)
(* sockets and the nearby lists of the browsers connected to it.           *)
(*                                                                         *)
(* Every socket has a handler task.  A task runs until it awaits: it calls *)
(* the registry and starts to deliver the result in one step, and is       *)
(* suspended only by a send to a socket whose buffer is full (the message  *)
(* is queued) or which is closing (the message is lost).  The tasks that a *)
(* socket held up resume in the order in which they stopped, between steps *)
(* of any other task.                                                      *)
(*                                                                         *)
(* A connection id is used once, as _generate_connection_id never repeats  *)
(* one; a browser that reconnects does so on another connection id.        *)
(***************************************************************************)
EXTENDS PeerRegistry, SignallingView, SequencesExt

CONSTANTS
  MaxStalls,  \* how often a send buffer fills up
  MaxRelays,  \* how many messages browsers send to each other
  SentType,   \* the types of those messages
  Nameless    \* connections whose browser's name may be blank

ASSUME LocalAssumption ==
  /\ \A c \in Conn : \E p \in Peer : Identities[c] = {p}
  /\ \A c, d \in Conn : GroupOf[c] = GroupOf[d]   \* FIXED_LOCAL_GROUP
  /\ MaxStalls \in Nat /\ MaxRelays \in Nat
  /\ SentType \subseteq RelayedType
  /\ Nameless \subseteq Conn /\ None \notin Label

VARIABLES
  order,     \* the order of the dict: who was put in before whom
  client,    \* the browser's end of a socket: none, open or gone
  link,      \* the server's end: none, open, slow, closing or closed
  serving,   \* handle_client: none, reading, leaving (finally) or done
  toServer,  \* frames the handler has not read
  toClient,  \* frames the browser has not read
  rest,      \* what a suspended deliver has yet to send
  waiting,   \* the tasks a socket holds up, first come first
  ready,     \* the tasks that may resume, first come first
  view,      \* the browser's nearby list
  stalls, relays

serverVars == <<order, link, serving, toServer, toClient, rest, waiting, ready>>
browserVars == <<client, view, stalls, relays>>
lvars == <<vars, serverVars, browserVars>>

PeerOf(c) == CHOOSE p \in Peer : Identities[c] = {p}

-----------------------------------------------------------------------------
(* deliver.                                                                *)

Suspended(c) == Contains(ready, c) \/ \E d \in Conn : Contains(waiting[d], c)

Without(ord, c) == {pair \in ord : pair[1] # c /\ pair[2] # c}

\* The messages of a call of c as the list it returns: the caller's first, the
\* others in the order of the connections dict.
InDictOrder(c, msgs, ord) ==
  {list \in SetToSeqs(msgs) :
     \A i, j \in DOMAIN list : i < j =>
       LET d == list[i].connection_id
           e == list[j].connection_id
       IN  e # c /\ (d = c \/ <<d, e>> \in ord)}

Stalled(m) == link[m.connection_id] \in {"slow", "closing"}

\* A mutant of Deliver: whatever stops a send ends the whole list, as if the
\* try statement were around the loop.
DeliverAbandons(c, msgs, phase) ==
  LET stops == {i \in DOMAIN msgs : Stalled(msgs[i])}
      last == IF stops = {} THEN Len(msgs) ELSE Min(stops)
      Reached(d) == /\ client[d] = "open" /\ link[d] \in {"open", "slow"}
                    /\ \E i \in 1..last : msgs[i].connection_id = d
      BodyFor(d) == (CHOOSE m \in ToSet(msgs) : m.connection_id = d).body
  IN  /\ toClient' = [d \in Conn |-> IF Reached(d) THEN Append(toClient[d], BodyFor(d))
                                                   ELSE toClient[d]]
      /\ rest' = [rest EXCEPT ![c] = <<>>]
      /\ waiting' = IF stops = {} THEN waiting
                    ELSE [waiting EXCEPT ![msgs[last].connection_id] = Append(@, c)]
      /\ serving' = [serving EXCEPT ![c] = IF phase = "leaving" /\ stops = {}
                                             THEN "done" ELSE phase]

\* Task c, reading or leaving, sends msgs until one of them suspends it.  A
\* closed socket raises ConnectionClosed at once, which deliver swallows.
Deliver(c, msgs, phase) ==
  LET stops == {i \in DOMAIN msgs : Stalled(msgs[i])}
      last == IF stops = {} THEN Len(msgs) ELSE Min(stops)
      For(d) == {i \in 1..last : msgs[i].connection_id = d}
      Reached(d) == client[d] = "open" /\ link[d] \in {"open", "slow"}
  IN  /\ toClient' = [d \in Conn |->
                        IF Reached(d) /\ For(d) # {}
                          THEN Append(toClient[d], msgs[CHOOSE i \in For(d) : TRUE].body)
                          ELSE toClient[d]]
      /\ rest' = [rest EXCEPT ![c] = SubSeq(msgs, last + 1, Len(msgs))]
      /\ waiting' = IF stops = {} THEN waiting
                    ELSE [waiting EXCEPT ![msgs[last].connection_id] = Append(@, c)]
      /\ serving' = [serving EXCEPT ![c] = IF phase = "leaving" /\ stops = {}
                                             THEN "done" ELSE phase]

-----------------------------------------------------------------------------
(* handle_client.                                                          *)

Reads(c) ==
  /\ serving[c] = "reading"
  /\ ~Suspended(c)
  /\ toServer[c] # <<>>
  /\ toServer' = [toServer EXCEPT ![c] = Tail(@)]

HandleRegister(c) ==
  LET info == Head(toServer[c]).info
      kept == Without(Without(order, peer_to_conn[info.peer_id]), c)
  IN  /\ Reads(c)
      /\ Head(toServer[c]).type = "register" /\ info.label # None
      /\ Register(c, info)
      /\ order' = kept \cup ({d \in Conn \ {c} : Registered(d)'} \X {c})
      /\ \E msgs \in InDictOrder(c, outbound', order') : Deliver(c, msgs, "reading")
      /\ UNCHANGED <<link, ready, browserVars>>

\* A register without a name is answered with an error; the registry is not
\* called.  This send is not guarded: if the connection is closed it raises and
\* the finally clause runs, here as the step HandlerEnds, since a browser that
\* was refused has nobody to send to and no other frame is there to be read.
HandleNameless(c) ==
  /\ Reads(c)
  /\ Head(toServer[c]).type = "register" /\ Head(toServer[c]).info.label = None
  /\ Deliver(c, <<To(c, MsgError("Missing peerId or displayName"))>>, "reading")
  /\ UNCHANGED <<vars, order, link, ready, browserVars>>

HandleOther(c) ==
  LET msg == Head(toServer[c])
  IN  /\ Reads(c)
      /\ msg.type # "register"
      /\ \/ RouteUnregistered(c)
         \/ RouteNotFound(c, msg.to)
         \/ RouteRelay(c, msg.type, msg.to)
      /\ \E msgs \in InDictOrder(c, outbound', order) : Deliver(c, msgs, "reading")
      /\ UNCHANGED <<order, link, ready, browserVars>>

\* A mutant of HandlerEnds: a connection that is lost skips unregister.
HandlerEndsRegistered(c) ==
  /\ serving[c] = "reading"
  /\ ~Suspended(c)
  /\ toServer[c] = <<>>
  /\ link[c] = "closed"
  /\ serving' = [serving EXCEPT ![c] = "done"]
  /\ UNCHANGED <<vars, order, link, toServer, toClient, rest, waiting, ready,
                 browserVars>>

\* The loop over the socket's messages ends when the connection is lost and
\* what it received has been read; then the finally clause runs.
HandlerEnds(c) ==
  /\ serving[c] = "reading"
  /\ ~Suspended(c)
  /\ toServer[c] = <<>>
  /\ link[c] = "closed"
  /\ Unregister(c) \/ UnregisterUnknown(c)
  /\ order' = Without(order, c)
  /\ \E msgs \in InDictOrder(c, outbound', order') : Deliver(c, msgs, "leaving")
  /\ UNCHANGED <<link, toServer, ready, browserVars>>

\* A task whose socket drained or closed goes on with its list.
Resume ==
  /\ ready # <<>>
  /\ ready' = Tail(ready)
  /\ Deliver(Head(ready), rest[Head(ready)], serving[Head(ready)])
  /\ UNCHANGED <<vars, order, link, toServer, browserVars>>

-----------------------------------------------------------------------------
(* The sockets, seen from the server.                                      *)

\* Mutants of Release: the waiters stay in the queue; they are forgotten.
ReleaseAgain(c) ==
  /\ ready' = ready \o waiting[c]
  /\ UNCHANGED waiting

ReleaseNobody(c) == UNCHANGED <<ready, waiting>>

\* connection_lost or resume_writing: those who wait on c may go on.
Release(c) ==
  /\ ready' = ready \o waiting[c]
  /\ waiting' = [waiting EXCEPT ![c] = <<>>]

\* A slow receiver fills the socket's buffer ...
Fill(c) ==
  /\ link[c] = "open"
  /\ stalls < MaxStalls
  /\ stalls' = stalls + 1
  /\ link' = [link EXCEPT ![c] = "slow"]
  /\ UNCHANGED <<vars, order, serving, toServer, toClient, rest, waiting, ready,
                 client, view, relays>>

\* ... and empties it again.
Drain(c) ==
  /\ link[c] = "slow"
  /\ link' = [link EXCEPT ![c] = "open"]
  /\ Release(c)
  /\ UNCHANGED <<vars, order, serving, toServer, toClient, rest, browserVars>>

\* The browser's close frame arrives.
Closing(c) ==
  /\ link[c] \in {"open", "slow"}
  /\ client[c] = "gone"
  /\ link' = [link EXCEPT ![c] = "closing"]
  /\ UNCHANGED <<vars, order, serving, toServer, toClient, rest, waiting, ready,
                 browserVars>>

\* The connection is lost: it closed, the browser vanished, or a slow one
\* missed its keepalive.
Lose(c) ==
  /\ \/ link[c] = "closing"
     \/ link[c] = "open" /\ client[c] = "gone"
     \/ link[c] = "slow"
  /\ link' = [link EXCEPT ![c] = "closed"]
  /\ Release(c)
  /\ UNCHANGED <<vars, order, serving, toServer, toClient, rest, browserVars>>

-----------------------------------------------------------------------------
(* The browsers.                                                           *)

\* A browser opens its next socket, which sends register in onopen.  Its
\* earlier sockets are closed, perhaps a moment ago (the app disconnects and
\* connects in one go): the server may still have frames of theirs to read.
Connect(c, label) ==
  /\ client[c] = "none"
  /\ \A d \in Conn \ {c} : PeerOf(d) = PeerOf(c) => client[d] # "open"
  /\ client' = [client EXCEPT ![c] = "open"]
  /\ link' = [link EXCEPT ![c] = "open"]
  /\ serving' = [serving EXCEPT ![c] = "reading"]
  /\ toServer' = [toServer EXCEPT ![c] =
                    <<[type |-> "register",
                       info |-> [peer_id |-> PeerOf(c), label |-> label]]>>]
  /\ UNCHANGED <<vars, order, toClient, rest, waiting, ready, view, stalls, relays>>

\* The socket closes, by the browser or under it, with or without what it
\* sent last; the list of nearby peers is emptied.
Leave(c) ==
  /\ client[c] = "open"
  /\ client' = [client EXCEPT ![c] = "gone"]
  /\ view' = [view EXCEPT ![c] = {}]
  /\ toClient' = [toClient EXCEPT ![c] = <<>>]
  /\ \/ toServer' = toServer
     \/ toServer' = [toServer EXCEPT ![c] = <<>>]
  /\ UNCHANGED <<vars, order, link, serving, rest, waiting, ready, stalls, relays>>

Receive(c) ==
  /\ toClient[c] # <<>>
  /\ toClient' = [toClient EXCEPT ![c] = Tail(@)]
  /\ view' = [view EXCEPT ![c] = HandleMessage(@, Head(toClient[c]))]
  /\ UNCHANGED <<vars, order, link, serving, toServer, rest, waiting, ready,
                 client, stalls, relays>>

\* The app asks a peer of its list for a connection, or answers one.
SendRelay(c, t, to) ==
  /\ client[c] = "open"
  /\ to \in Ids(view[c])
  /\ relays < MaxRelays
  /\ relays' = relays + 1
  /\ toServer' = [toServer EXCEPT ![c] = Append(@, [type |-> t, to |-> to])]
  /\ UNCHANGED <<vars, order, link, serving, toClient, rest, waiting, ready,
                 client, view, stalls>>

-----------------------------------------------------------------------------
LocalInit ==
  /\ Init
  /\ order = {} /\ ready = <<>>
  /\ client = [c \in Conn |-> "none"]
  /\ link = [c \in Conn |-> "none"]
  /\ serving = [c \in Conn |-> "none"]
  /\ toServer = [c \in Conn |-> <<>>]
  /\ toClient = [c \in Conn |-> <<>>]
  /\ rest = [c \in Conn |-> <<>>]
  /\ waiting = [c \in Conn |-> <<>>]
  /\ view = [c \in Conn |-> {}]
  /\ stalls = 0 /\ relays = 0

HandleFrame(c) == HandleRegister(c) \/ HandleNameless(c) \/ HandleOther(c)

Server == Resume \/ \E c \in Conn : HandleFrame(c) \/ HandlerEnds(c)
Network == \E c \in Conn : Fill(c) \/ Drain(c) \/ Closing(c) \/ Lose(c)
Browsers ==
  \E c \in Conn :
    \/ \E label \in Label : Connect(c, label)
    \/ c \in Nameless /\ Connect(c, None)
    \/ Leave(c)
    \/ Receive(c)
    \/ \E t \in SentType, to \in Peer : SendRelay(c, t, to)

LocalNext == Server \/ Network \/ Browsers

\* The event loop runs every task that can run, sockets drain or time out,
\* browsers read what arrives and learn that their socket was lost.  Nothing
\* makes a browser connect, send or leave, or a buffer fill.
Fairness ==
  /\ WF_lvars(Resume)
  /\ \A c \in Conn :
       /\ WF_lvars(HandleFrame(c) \/ HandlerEnds(c))
       /\ WF_lvars(Drain(c) \/ Lose(c))
       /\ WF_lvars(Receive(c))
       /\ WF_lvars(link[c] = "closed" /\ Leave(c))

LocalSpec == LocalInit /\ [][LocalNext]_lvars
FairSpec == LocalSpec /\ Fairness

-----------------------------------------------------------------------------
(* Properties.                                                             *)

\* The variables have their types, the dict's order is one of the registered
\* connections, and a suspended task waits in one place.
LocalTypeOK ==
  /\ TypeOK
  /\ order \subseteq {c \in Conn : Registered(c)} \X {c \in Conn : Registered(c)}
  /\ \A c, d \in Conn : Registered(c) /\ Registered(d) =>
       (<<c, d>> \in order <=> c # d /\ <<d, c>> \notin order)
  /\ \A c, d, e \in Conn : <<c, d>> \in order /\ <<d, e>> \in order => <<c, e>> \in order
  /\ client \in [Conn -> {"none", "open", "gone"}]
  /\ link \in [Conn -> {"none", "open", "slow", "closing", "closed"}]
  /\ serving \in [Conn -> {"none", "reading", "leaving", "done"}]
  /\ view \in [Conn -> SUBSET PeerInfo]
  /\ \A c \in Conn :
       /\ ToSet(rest[c]) \subseteq Outbound
       /\ rest[c] # <<>> => Suspended(c)
       /\ \A d \in Conn : Contains(waiting[d], c) =>
            /\ ~Contains(ready, c)
            /\ \A e \in Conn : Contains(waiting[e], c) => d = e
  /\ IsInjective(ready) /\ \A d \in Conn : IsInjective(waiting[d])

\* Nothing is under way: all messages are delivered and read, the server
\* knows of every socket that closed, and no task is suspended.
Quiet ==
  \A c \in Conn :
    /\ ~Suspended(c)
    /\ toServer[c] = <<>> /\ toClient[c] = <<>>
    /\ client[c] = "open" <=> link[c] = "open"
    /\ serving[c] \in {"reading", "done"} => (link[c] = "open" <=> serving[c] = "reading")

Connected == {c \in Conn : client[c] = "open"}

\* "For a self-hosted local server, all connected clients should see each
\* other": when nothing is under way a browser lists exactly the others.
AllSeeEachOther ==
  Quiet => \A c \in Connected :
             Ids(view[c]) = {PeerOf(d) : d \in Connected \ {c}}

\* "Returns 'peer-left' messages to broadcast to the remaining peers": when
\* nothing is under way, nobody lists a browser that is not connected.
NoGhosts ==
  Quiet => \A c \in Connected :
             Ids(view[c]) \subseteq {PeerOf(d) : d \in Connected \ {c}}

\* No browser is ever told that it is near itself, not even by the presence
\* messages of an older socket of its own.
NotNearItself == \A c \in Conn : PeerOf(c) \notin Ids(view[c])

\* A registration does not outlive its handler: once handle_client has gone
\* through its finally clause nothing can register the connection again.
NoOrphanedRegistration ==
  \A c \in Conn : serving[c] \in {"leaving", "done"} => ~Registered(c)

\* A browser that left is not announced for ever: its registration ends even
\* if its handler is held up by the sockets of others.
GhostsLeave == <>[](\A c \in Conn : client[c] = "gone" => ~Registered(c))

\* A connection of p is open, and its register has a name.
Present(p) ==
  \E c \in Conn :
    /\ PeerOf(c) = p /\ client[c] = "open"
    /\ \/ Registered(c)
       \/ \E i \in DOMAIN toServer[c] :
            toServer[c][i].type = "register" /\ toServer[c][i].info.label # None

\* Two browsers that stay connected find each other, however slow they are,
\* whichever of them came first, and whoever else comes and goes meanwhile, as
\* long as nobody comes back.
BrowsersMeet ==
  \A p, q \in Peer :
    []<>(p # q /\ Present(p) /\ Present(q) =>
           \E c \in Conn : PeerOf(c) = p /\ q \in Ids(view[c]))
=============================================================================
