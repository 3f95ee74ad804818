---------------------------- MODULE PeerRegistry ----------------------------
(***************************************************************************)
(* The in-memory registry of the signalling server: class PeerRegistry of  *)
(* signal-server/signalling.py.  It maps connections to registered peers   *)
(* and peer ids back to connections, and every call returns the messages   *)
(* its caller must deliver.                                                *)
(*                                                                         *)
(* A dict is a total function whose missing keys map to None.  A returned  *)
(* list of Outbound is a set: a call never addresses a connection twice,   *)
(* except a self-relay, which is a single message.  A peer's display name  *)
(* and device name are one label.                                          *)
(***************************************************************************)
EXTENDS Naturals

CONSTANTS
  Conn,        \* connection ids
  Peer,        \* peer ids
  Label,       \* display name and device name, taken together
  Group,       \* network groups
  None,        \* Python's None: no such key
  Identities,  \* the peer ids a connection may register under
  GroupOf      \* the network group the caller passes for a connection

PeerInfo == [peer_id : Peer, label : Label]

\* The record's connection_id is the key it is stored under.
ConnectedPeer == [peer_info : PeerInfo, network_group : Group]

ASSUME IdentitiesAssumption == Identities \in [Conn -> SUBSET Peer]
ASSUME GroupOfAssumption == GroupOf \in [Conn -> Group]
ASSUME NoneAssumption == None \notin Conn \cup ConnectedPeer

\* Every connection speaks for one peer.  The app's SignallingDiscoveryProvider
\* is such a client: it registers the device's profile, once per socket.
SingleIdentity ==
  \A c \in Conn : \A p, q \in Identities[c] : p = q

\* All the connections of a peer are in the same group, which the local
\* server guarantees by having only one.
OneGroupPerPeer ==
  \A c, d \in Conn :
    Identities[c] \cap Identities[d] # {} => GroupOf[c] = GroupOf[d]

VARIABLES
  connections,   \* connection_id -> ConnectedPeer
  peer_to_conn,  \* peer_id -> connection_id
  outbound       \* what the last call returned

vars == <<connections, peer_to_conn, outbound>>

-----------------------------------------------------------------------------
(* Messages.                                                               *)

RelayedType == {"connect-request", "connect-accepted", "connect-rejected",
                "webrtc-offer", "webrtc-answer"}

ErrorText == {"Not registered", "Invalid JSON", "Missing 'to' field",
              "Peer not found", "Unknown message type"}

MsgPeers(infos) == [type |-> "peers", peers |-> infos]
MsgPeerJoined(info) == [type |-> "peer-joined", peer |-> info]
MsgPeerLeft(p) == [type |-> "peer-left", peerId |-> p]
MsgError(text) == [type |-> "error", message |-> text]

\* A relayed message; connect-request carries the sender's whole PeerInfo, in
\* the field where the others carry its id, which the receiver looks up.
MsgRelayed(t, info) ==
  IF t = "connect-request" THEN [type |-> t, peer |-> info]
                           ELSE [type |-> t, from |-> info.peer_id]

Body ==
  [type : {"peers"}, peers : SUBSET PeerInfo]
    \cup [type : {"peer-joined", "connect-request"}, peer : PeerInfo]
    \cup [type : {"peer-left"}, peerId : Peer]
    \cup [type : RelayedType \ {"connect-request"}, from : Peer]
    \cup [type : {"error"}, message : ErrorText]

Outbound == [connection_id : Conn, body : Body]

To(c, body) == [connection_id |-> c, body |-> body]

-----------------------------------------------------------------------------
Registered(c) == connections[c] # None
PeerIdOf(c) == connections[c].peer_info.peer_id

\* _group_peers, as a set of keys of a state conns of the connections dict.
GroupPeers(conns, group) ==
  {d \in Conn : conns[d] # None /\ conns[d].network_group = group}

\* A mutant of Evict: the stale connection of the peer stays.
EvictNothing(conns, ptc, p) == conns

\* The registry without the connection that ptc still holds for peer p.
Evict(conns, ptc, p) ==
  [d \in Conn |-> IF d = ptc[p] THEN None ELSE conns[d]]

\* register, run on the state (conns, ptc).
RegisterFrom(conns, ptc, c, info, group) ==
  LET p == info.peer_id
      now == [Evict(conns, ptc, p) EXCEPT
                ![c] = [peer_info |-> info, network_group |-> group]]
      others == GroupPeers(now, group) \ {c}
  IN  /\ connections' = now
      /\ peer_to_conn' = [ptc EXCEPT ![p] = c]
      /\ outbound' = {To(c, MsgPeers({now[d].peer_info : d \in others}))}
                       \cup {To(d, MsgPeerJoined(info)) : d \in others}

Register(c, info) ==
  /\ info.peer_id \in Identities[c]
  /\ RegisterFrom(connections, peer_to_conn, c, info, GroupOf[c])

\* Mutants of Unregister: the reverse lookup is kept; nobody is told.
UnregisterKeepsLookup(c) ==
  /\ Registered(c)
  /\ connections' = [connections EXCEPT ![c] = None]
  /\ outbound' = {To(d, MsgPeerLeft(PeerIdOf(c))) :
                    d \in GroupPeers(connections', connections[c].network_group)}
  /\ UNCHANGED peer_to_conn

UnregisterSilently(c) ==
  /\ Registered(c)
  /\ connections' = [connections EXCEPT ![c] = None]
  /\ peer_to_conn' = [peer_to_conn EXCEPT ![PeerIdOf(c)] = None]
  /\ outbound' = {}

\* unregister of a connection the registry knows ...
Unregister(c) ==
  /\ Registered(c)
  /\ connections' = [connections EXCEPT ![c] = None]
  /\ peer_to_conn' = [peer_to_conn EXCEPT ![PeerIdOf(c)] = None]
  /\ outbound' = {To(d, MsgPeerLeft(PeerIdOf(c))) :
                    d \in GroupPeers(connections', connections[c].network_group)}

\* ... and of one that never registered or was evicted.
UnregisterUnknown(c) ==
  /\ ~Registered(c)
  /\ outbound' = {}
  /\ UNCHANGED <<connections, peer_to_conn>>

-----------------------------------------------------------------------------
(* route_message, one action per way it returns.                           *)

\* An error goes back to the sender and nothing else changes.
Refuse(c, text) ==
  /\ outbound' = {To(c, MsgError(text))}
  /\ UNCHANGED <<connections, peer_to_conn>>

RouteUnregistered(c) == ~Registered(c) /\ Refuse(c, "Not registered")

RouteInvalidJson(c) == Registered(c) /\ Refuse(c, "Invalid JSON")

\* A "register" message sent through route_message: unregister, whose
\* messages are dropped, then register in the group of the old record.
Reregister(c, info) ==
  /\ Registered(c)
  /\ info.peer_id \in Identities[c]
  /\ RegisterFrom([connections EXCEPT ![c] = None],
                  [peer_to_conn EXCEPT ![PeerIdOf(c)] = None],
                  c, info, connections[c].network_group)

RouteMissingTo(c) == Registered(c) /\ Refuse(c, "Missing 'to' field")

RouteNotFound(c, to) ==
  /\ Registered(c)
  /\ peer_to_conn[to] = None
  /\ Refuse(c, "Peer not found")

\* A mutant of RouteRelay: the lookup's result is not tested.
RouteRelayUntested(c, t, to) ==
  /\ Registered(c)
  /\ outbound' = {To(peer_to_conn[to], MsgRelayed(t, connections[c].peer_info))}
  /\ UNCHANGED <<connections, peer_to_conn>>

\* The connection is looked up by peer id only: neither the group nor whether
\* the connection is still registered is asked.
RouteRelay(c, t, to) ==
  /\ Registered(c)
  /\ peer_to_conn[to] # None
  /\ outbound' = {To(peer_to_conn[to], MsgRelayed(t, connections[c].peer_info))}
  /\ UNCHANGED <<connections, peer_to_conn>>

RouteUnknownType(c, to) ==
  /\ Registered(c)
  /\ peer_to_conn[to] # None
  /\ Refuse(c, "Unknown message type")

RouteMessage(c) ==
  \/ RouteUnregistered(c)
  \/ RouteInvalidJson(c)
  \/ \E info \in PeerInfo : Reregister(c, info)
  \/ RouteMissingTo(c)
  \/ \E to \in Peer : RouteNotFound(c, to)
  \/ \E to \in Peer, t \in RelayedType : RouteRelay(c, t, to)
  \/ \E to \in Peer : RouteUnknownType(c, to)

-----------------------------------------------------------------------------
Init ==
  /\ connections = [c \in Conn |-> None]
  /\ peer_to_conn = [p \in Peer |-> None]
  /\ outbound = {}

Next ==
  \E c \in Conn :
    \/ \E info \in PeerInfo : Register(c, info)
    \/ Unregister(c)
    \/ UnregisterUnknown(c)
    \/ RouteMessage(c)

Spec == Init /\ [][Next]_vars

-----------------------------------------------------------------------------
(* Properties.                                                             *)

\* The two dicts hold what their comments say, and calls return messages of
\* the protocol.
TypeOK ==
  /\ connections \in [Conn -> ConnectedPeer \cup {None}]
  /\ peer_to_conn \in [Peer -> Conn \cup {None}]
  /\ outbound \subseteq Outbound

\* Whoever is registered can be reached: the reverse lookup of a registered
\* connection's peer id is that connection.  In particular no peer id is
\* registered by two connections, so register's eviction of a stale
\* connection is complete.
RegisteredIsReachable ==
  \A c \in Conn : Registered(c) => peer_to_conn[PeerIdOf(c)] = c

\* The reverse lookup has no stale entry: the connection it names for a peer
\* is registered, and as that peer.  route_message trusts this.
NoStaleLookup ==
  \A p \in Peer :
    peer_to_conn[p] # None =>
      /\ Registered(peer_to_conn[p])
      /\ PeerIdOf(peer_to_conn[p]) = p

\* A peer-left is the truth when it is returned: no connection of the
\* announced peer remains, whatever evictions came before.
DeparturesAreReal ==
  \A m \in outbound :
    m.body.type = "peer-left" =>
      \A c \in Conn : Registered(c) => PeerIdOf(c) # m.body.peerId

Online(p, group) == \E c \in GroupPeers(connections, group) : PeerIdOf(c) = p

\* A peer that is no longer online in a group was announced as gone to every
\* connection that stays registered in the group.
DeparturesAnnounced ==
  [][\A p \in Peer, g \in Group :
       Online(p, g) /\ ~Online(p, g)' =>
         \A d \in GroupPeers(connections, g) \cap GroupPeers(connections', g) :
           To(d, MsgPeerLeft(p)) \in outbound']_vars

\* "Route a client message to the appropriate target peer": the connection a
\* message is relayed to is registered as the peer the sender named.
RelayReachesAddressee ==
  [][\A c \in Conn, t \in RelayedType, to \in Peer :
       RouteRelay(c, t, to) =>
         \A m \in outbound' :
           /\ Registered(m.connection_id)
           /\ PeerIdOf(m.connection_id) = to]_vars

\* The two dicts together are the directory the server promises: the reverse
\* lookup, which is all route_message consults, and the connections.
ServerDirectory ==
  INSTANCE Directory WITH dir <- peer_to_conn,
                          online <- {c \in Conn : Registered(c)}

\* Every call is a bind, an unbind or no change of that directory.
ImplementsDirectory == ServerDirectory!Spec
=============================================================================
