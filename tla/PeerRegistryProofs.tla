------------------------- MODULE PeerRegistryProofs -------------------------
(***************************************************************************)
(* Proofs about PeerRegistry, for every set of connections, peers, labels  *)
(* and groups.  The inductive invariant is RegInv; NoStaleLookup joins it  *)
(* where every connection speaks for one peer.                             *)
(***************************************************************************)
EXTENDS PeerRegistry, TLAPS

USE IdentitiesAssumption, GroupOfAssumption, NoneAssumption

-----------------------------------------------------------------------------
(* Messages are well formed.                                               *)

LEMMA ErrorBody ==
  ASSUME NEW c \in Conn, NEW text \in ErrorText
  PROVE  To(c, MsgError(text)) \in Outbound
BY DEF To, MsgError, Outbound, Body

LEMMA LeftBody ==
  ASSUME NEW c \in Conn, NEW p \in Peer
  PROVE  To(c, MsgPeerLeft(p)) \in Outbound
BY DEF To, MsgPeerLeft, Outbound, Body

LEMMA JoinedBody ==
  ASSUME NEW c \in Conn, NEW info \in PeerInfo
  PROVE  To(c, MsgPeerJoined(info)) \in Outbound
BY DEF To, MsgPeerJoined, Outbound, Body

LEMMA PeersBody ==
  ASSUME NEW c \in Conn, NEW infos \in SUBSET PeerInfo
  PROVE  To(c, MsgPeers(infos)) \in Outbound
BY DEF To, MsgPeers, Outbound, Body

LEMMA RelayedBody ==
  ASSUME NEW c \in Conn, NEW t \in RelayedType, NEW info \in PeerInfo
  PROVE  To(c, MsgRelayed(t, info)) \in Outbound
<1>1. info.peer_id \in Peer
  BY DEF PeerInfo
<1>2. CASE t = "connect-request"
  BY <1>2 DEF To, MsgRelayed, Outbound, Body
<1>3. CASE t # "connect-request"
  BY <1>1, <1>3 DEF To, MsgRelayed, Outbound, Body
<1> QED BY <1>2, <1>3

-----------------------------------------------------------------------------
(* What RegisterFrom does to a state (conns, ptc), from whichever caller.  *)

ConnsType == [Conn -> ConnectedPeer \cup {None}]
PtcType == [Peer -> Conn \cup {None}]

\* RegisteredIsReachable and NoStaleLookup of a state that is not (yet) the
\* state of the variables.
ReachableIn(conns, ptc) ==
  \A c \in Conn : conns[c] # None => ptc[conns[c].peer_info.peer_id] = c

FreshIn(conns, ptc) ==
  \A p \in Peer :
    ptc[p] # None => conns[ptc[p]] # None /\ conns[ptc[p]].peer_info.peer_id = p

LEMMA RegisterFromType ==
  ASSUME NEW conns \in ConnsType, NEW ptc \in PtcType,
         NEW c \in Conn, NEW info \in PeerInfo, NEW g \in Group,
         RegisterFrom(conns, ptc, c, info, g)
  PROVE  TypeOK'
<1> DEFINE now == [Evict(conns, ptc, info.peer_id) EXCEPT
                     ![c] = [peer_info |-> info, network_group |-> g]]
           others == GroupPeers(now, g) \ {c}
<1>0. info.peer_id \in Peer
  BY DEF PeerInfo
<1>1. now \in ConnsType
  BY <1>0 DEF Evict, ConnsType, ConnectedPeer
<1>2. connections' \in ConnsType
  BY <1>1 DEF RegisterFrom
<1>3. peer_to_conn' \in PtcType
  BY <1>0 DEF RegisterFrom, PtcType
<1>4. \A d \in others : d \in Conn /\ now[d] \in ConnectedPeer
  BY <1>1 DEF GroupPeers, ConnsType
<1>5. {now[d].peer_info : d \in others} \in SUBSET PeerInfo
  BY <1>4 DEF ConnectedPeer
<1>6. To(c, MsgPeers({now[d].peer_info : d \in others})) \in Outbound
  BY <1>5, PeersBody
<1>7. \A d \in others : To(d, MsgPeerJoined(info)) \in Outbound
  BY <1>4, JoinedBody
<1>8. outbound' = {To(c, MsgPeers({now[d].peer_info : d \in others}))}
                    \cup {To(d, MsgPeerJoined(info)) : d \in others}
  BY DEF RegisterFrom
<1>9. outbound' \subseteq Outbound
  <2> HIDE DEF now, others
  <2> QED BY <1>6, <1>7, <1>8
<1> QED BY <1>2, <1>3, <1>9 DEF TypeOK, ConnsType, PtcType

\* Eviction removes the only other connection that can hold the peer id.
LEMMA RegisterFromReachable ==
  ASSUME NEW conns \in ConnsType, NEW ptc \in PtcType,
         NEW c \in Conn, NEW info \in PeerInfo, NEW g \in Group,
         ReachableIn(conns, ptc),
         RegisterFrom(conns, ptc, c, info, g)
  PROVE  RegisteredIsReachable'
<1>0. info.peer_id \in Peer
  BY DEF PeerInfo
<1>1. SUFFICES ASSUME NEW d \in Conn, connections'[d] # None
               PROVE  peer_to_conn'[connections'[d].peer_info.peer_id] = d
  BY DEF RegisteredIsReachable, Registered, PeerIdOf
<1>2. CASE d = c
  BY <1>0, <1>2 DEF RegisterFrom, Evict, ConnsType, PtcType
<1>3. CASE d # c
  <2>1. d # ptc[info.peer_id] /\ connections'[d] = conns[d] /\ conns[d] # None
    BY <1>0, <1>1, <1>3 DEF RegisterFrom, Evict, ConnsType, PtcType
  <2>2. conns[d] \in ConnectedPeer
    BY <2>1 DEF ConnsType
  <2>3. conns[d].peer_info.peer_id \in Peer
    BY <2>2 DEF ConnectedPeer, PeerInfo
  <2>4. ptc[conns[d].peer_info.peer_id] = d
    BY <2>1 DEF ReachableIn
  <2>5. conns[d].peer_info.peer_id # info.peer_id
    BY <2>1, <2>4
  <2> QED BY <1>0, <2>1, <2>3, <2>4, <2>5 DEF RegisterFrom, PtcType
<1> QED BY <1>2, <1>3

\* With one identity per connection the lookup of every other peer id names a
\* connection that RegisterFrom neither evicts nor overwrites.
LEMMA RegisterFromFresh ==
  ASSUME NEW conns \in ConnsType, NEW ptc \in PtcType,
         NEW c \in Conn, NEW info \in PeerInfo, NEW g \in Group,
         FreshIn(conns, ptc),
         \A q \in Peer : ptc[q] = c => q = info.peer_id,
         RegisterFrom(conns, ptc, c, info, g)
  PROVE  NoStaleLookup'
<1>0. info.peer_id \in Peer
  BY DEF PeerInfo
<1>1. SUFFICES ASSUME NEW p \in Peer, peer_to_conn'[p] # None
               PROVE  /\ connections'[peer_to_conn'[p]] # None
                      /\ connections'[peer_to_conn'[p]].peer_info.peer_id = p
  BY DEF NoStaleLookup, Registered, PeerIdOf
<1>2. CASE p = info.peer_id
  <2>1. peer_to_conn'[p] = c
    BY <1>0, <1>2 DEF RegisterFrom, PtcType
  <2>2. connections'[c] = [peer_info |-> info, network_group |-> g]
    BY DEF RegisterFrom, Evict
  <2>3. connections'[c] \in ConnectedPeer
    BY <2>2 DEF ConnectedPeer
  <2> QED BY <1>2, <2>1, <2>2, <2>3
<1>3. CASE p # info.peer_id
  <2>1. peer_to_conn'[p] = ptc[p]
    BY <1>0, <1>3 DEF RegisterFrom, PtcType
  <2>2. /\ ptc[p] \in Conn
        /\ conns[ptc[p]] # None
        /\ conns[ptc[p]].peer_info.peer_id = p
    BY <1>1, <2>1 DEF FreshIn, PtcType
  <2>3. ptc[p] # c
    BY <1>3
  <2>4. ptc[p] # ptc[info.peer_id]
    BY <1>0, <1>3, <2>2 DEF FreshIn, PtcType
  <2>5. connections'[ptc[p]] = conns[ptc[p]]
    BY <2>2, <2>3, <2>4 DEF RegisterFrom, Evict
  <2> QED BY <2>1, <2>2, <2>5
<1> QED BY <1>2, <1>3

-----------------------------------------------------------------------------
(* The invariant for every client.                                         *)

RegInv == TypeOK /\ RegisteredIsReachable

LEMMA RegInvInit == Init => RegInv
BY DEF Init, RegInv, TypeOK, RegisteredIsReachable, Registered

LEMMA RefuseKeeps ==
  ASSUME TypeOK, NEW c \in Conn, NEW text \in ErrorText, Refuse(c, text)
  PROVE  /\ TypeOK'
         /\ UNCHANGED <<connections, peer_to_conn>>
<1>1. outbound' \subseteq Outbound
  BY ErrorBody DEF Refuse
<1> QED BY <1>1 DEF TypeOK, Refuse

LEMMA UnregisterType ==
  ASSUME TypeOK, NEW c \in Conn, Unregister(c)
  PROVE  TypeOK'
<1>1. connections[c] \in ConnectedPeer
  BY DEF TypeOK, Unregister, Registered
<1>2. PeerIdOf(c) \in Peer
  BY <1>1 DEF PeerIdOf, ConnectedPeer, PeerInfo
<1>3. connections' \in ConnsType
  BY DEF Unregister, TypeOK, ConnsType
<1>4. peer_to_conn' \in PtcType
  BY DEF Unregister, TypeOK, PtcType
<1>5. outbound' = {To(d, MsgPeerLeft(PeerIdOf(c))) :
                     d \in GroupPeers(connections', connections[c].network_group)}
  BY DEF Unregister
<1>6. \A d \in GroupPeers(connections', connections[c].network_group) : d \in Conn
  BY DEF GroupPeers
<1>7. outbound' \subseteq Outbound
  BY <1>2, <1>5, <1>6, LeftBody
<1> QED BY <1>3, <1>4, <1>7 DEF TypeOK, ConnsType, PtcType

\* The state in which Reregister calls register: the sender unregistered.
LEMMA ReregisterFrom ==
  ASSUME TypeOK, NEW c \in Conn, Registered(c)
  PROVE  /\ [connections EXCEPT ![c] = None] \in ConnsType
         /\ [peer_to_conn EXCEPT ![PeerIdOf(c)] = None] \in PtcType
         /\ connections[c].network_group \in Group
         /\ PeerIdOf(c) \in Peer
<1>1. connections[c] \in ConnectedPeer
  BY DEF TypeOK, Registered
<1>2. PeerIdOf(c) \in Peer
  BY <1>1 DEF PeerIdOf, ConnectedPeer, PeerInfo
<1>3. [connections EXCEPT ![c] = None] \in ConnsType
  BY DEF TypeOK, ConnsType
<1>4. [peer_to_conn EXCEPT ![PeerIdOf(c)] = None] \in PtcType
  BY DEF TypeOK, PtcType
<1>5. connections[c].network_group \in Group
  BY <1>1 DEF ConnectedPeer
<1> QED BY <1>2, <1>3, <1>4, <1>5

LEMMA UnregisterReachable ==
  ASSUME TypeOK, RegisteredIsReachable, NEW c \in Conn, Registered(c)
  PROVE  ReachableIn([connections EXCEPT ![c] = None],
                     [peer_to_conn EXCEPT ![PeerIdOf(c)] = None])
<1> SUFFICES ASSUME NEW d \in Conn, [connections EXCEPT ![c] = None][d] # None
             PROVE  [peer_to_conn EXCEPT ![PeerIdOf(c)] = None]
                      [[connections EXCEPT ![c] = None][d].peer_info.peer_id] = d
  BY DEF ReachableIn
<1>1. d # c /\ [connections EXCEPT ![c] = None][d] = connections[d] /\ Registered(d)
  BY DEF TypeOK, Registered
<1>2. connections[d] \in ConnectedPeer
  BY <1>1 DEF TypeOK, Registered
<1>3. PeerIdOf(d) \in Peer
  BY <1>2 DEF PeerIdOf, ConnectedPeer, PeerInfo
<1>4. peer_to_conn[PeerIdOf(d)] = d /\ peer_to_conn[PeerIdOf(c)] = c
  BY <1>1 DEF RegisteredIsReachable
<1>5. PeerIdOf(d) # PeerIdOf(c)
  BY <1>1, <1>4
<1> QED BY <1>1, <1>3, <1>4, <1>5 DEF TypeOK, PeerIdOf

LEMMA RegInvNext ==
  ASSUME RegInv, [Next]_vars
  PROVE  RegInv'
<1> USE DEF RegInv
<1> DEFINE Keeps == UNCHANGED <<connections, peer_to_conn>>
<1>0. connections \in ConnsType /\ peer_to_conn \in PtcType
  BY DEF TypeOK, ConnsType, PtcType
<1>1. TypeOK' /\ Keeps => RegInv'
  BY DEF RegisteredIsReachable, Registered, PeerIdOf
<1>2. ASSUME NEW c \in Conn, NEW info \in PeerInfo, Register(c, info)
      PROVE  RegInv'
  <2>1. ReachableIn(connections, peer_to_conn)
    BY DEF RegisteredIsReachable, ReachableIn, Registered, PeerIdOf
  <2>2. RegisterFrom(connections, peer_to_conn, c, info, GroupOf[c]) /\ GroupOf[c] \in Group
    BY <1>2 DEF Register
  <2> QED BY <1>0, <2>1, <2>2, RegisterFromType, RegisterFromReachable
<1>3. ASSUME NEW c \in Conn, Unregister(c)
      PROVE  RegInv'
  <2>1. ReachableIn(connections', peer_to_conn')
    BY <1>3, UnregisterReachable DEF Unregister
  <2>2. RegisteredIsReachable'
    BY <2>1 DEF RegisteredIsReachable, ReachableIn, Registered, PeerIdOf
  <2> QED BY <1>3, <2>2, UnregisterType
<1>4. ASSUME NEW c \in Conn, UnregisterUnknown(c)
      PROVE  RegInv'
  BY <1>1, <1>4 DEF UnregisterUnknown, TypeOK
<1>5. ASSUME NEW c \in Conn, NEW text \in ErrorText, Refuse(c, text)
      PROVE  RegInv'
  BY <1>1, <1>5, RefuseKeeps
<1>6. ASSUME NEW c \in Conn, NEW info \in PeerInfo, Reregister(c, info)
      PROVE  RegInv'
  <2>1. Registered(c)
    BY <1>6 DEF Reregister
  <2>2. RegisterFrom([connections EXCEPT ![c] = None],
                     [peer_to_conn EXCEPT ![PeerIdOf(c)] = None],
                     c, info, connections[c].network_group)
    BY <1>6 DEF Reregister
  <2> QED BY <2>1, <2>2, ReregisterFrom, UnregisterReachable,
             RegisterFromType, RegisterFromReachable
<1>7. ASSUME NEW c \in Conn, NEW t \in RelayedType, NEW to \in Peer, RouteRelay(c, t, to)
      PROVE  RegInv'
  <2>1. connections[c] \in ConnectedPeer
    BY <1>7 DEF RouteRelay, Registered, TypeOK
  <2>2. peer_to_conn[to] \in Conn /\ connections[c].peer_info \in PeerInfo
    BY <1>7, <2>1 DEF RouteRelay, TypeOK, ConnectedPeer
  <2>3. outbound' \subseteq Outbound
    BY <1>7, <2>2, RelayedBody DEF RouteRelay
  <2> QED BY <1>1, <1>7, <2>3 DEF RouteRelay, TypeOK
<1>8. CASE UNCHANGED vars
  BY <1>1, <1>8 DEF vars, TypeOK
<1>9. ASSUME NEW c \in Conn, RouteMessage(c)
      PROVE  RegInv'
  <2>1. CASE RouteUnregistered(c)
    BY <1>5, <2>1 DEF RouteUnregistered, ErrorText
  <2>2. CASE RouteInvalidJson(c)
    BY <1>5, <2>2 DEF RouteInvalidJson, ErrorText
  <2>3. CASE RouteMissingTo(c)
    BY <1>5, <2>3 DEF RouteMissingTo, ErrorText
  <2>4. CASE \E to \in Peer : RouteNotFound(c, to)
    BY <1>5, <2>4 DEF RouteNotFound, ErrorText
  <2>5. CASE \E to \in Peer : RouteUnknownType(c, to)
    BY <1>5, <2>5 DEF RouteUnknownType, ErrorText
  <2> QED BY <1>6, <1>7, <1>9, <2>1, <2>2, <2>3, <2>4, <2>5 DEF RouteMessage
<1> QED BY <1>2, <1>3, <1>4, <1>8, <1>9 DEF Next

\* The registry's dicts and messages have their types.
THEOREM TypeCorrect == Spec => []TypeOK
<1>1. Spec => []RegInv
  BY RegInvInit, RegInvNext, PTL DEF Spec
<1>2. RegInv => TypeOK
  BY DEF RegInv
<1> QED BY <1>1, <1>2, PTL

\* Whatever its clients register as, the registry finds every registered
\* connection under its peer id: eviction never misses a stale connection.
THEOREM RegisteredReachable == Spec => []RegisteredIsReachable
<1>1. Spec => []RegInv
  BY RegInvInit, RegInvNext, PTL DEF Spec
<1>2. RegInv => RegisteredIsReachable
  BY DEF RegInv
<1> QED BY <1>1, <1>2, PTL

-----------------------------------------------------------------------------
(* Departures, for every client.                                           *)

\* Only Unregister returns a peer-left, and RegisteredIsReachable tells that
\* no second connection of the departed peer was left to be found.
LEMMA UnregisterIsReal ==
  ASSUME RegInv, NEW c \in Conn, Unregister(c)
  PROVE  DeparturesAreReal'
<1>1. SUFFICES ASSUME NEW m \in outbound', m.body.type = "peer-left",
                      NEW d \in Conn, Registered(d)'
               PROVE  PeerIdOf(d)' # m.body.peerId
  BY DEF DeparturesAreReal
<1>2. m.body.peerId = PeerIdOf(c)
  BY <1>1 DEF Unregister, To, MsgPeerLeft
<1>3. d # c /\ connections'[d] = connections[d] /\ Registered(d)
  BY <1>1 DEF Unregister, Registered, RegInv, TypeOK
<1>4. peer_to_conn[PeerIdOf(d)] = d /\ peer_to_conn[PeerIdOf(c)] = c
  BY <1>3 DEF RegInv, RegisteredIsReachable, Unregister
<1>5. PeerIdOf(d)' = PeerIdOf(d)
  BY <1>3 DEF PeerIdOf
<1> QED BY <1>2, <1>3, <1>4, <1>5

\* A relayed message is no departure.
LEMMA RelayedNotLeft ==
  ASSUME NEW c \in Conn, NEW info, NEW t \in RelayedType
  PROVE  To(c, MsgRelayed(t, info)).body.type # "peer-left"
<1>1. CASE t = "connect-request"
  BY <1>1 DEF To, MsgRelayed
<1>2. CASE t # "connect-request"
  BY <1>2 DEF To, MsgRelayed, RelayedType
<1> QED BY <1>1, <1>2

\* RegisterFrom, the errors and the relays announce no departure.
LEMMA NoDeparture ==
  /\ \A conns, ptc, g : \A c \in Conn, info \in PeerInfo :
       RegisterFrom(conns, ptc, c, info, g) =>
         \A m \in outbound' : m.body.type # "peer-left"
  /\ \A c \in Conn : \A text : Refuse(c, text) =>
       \A m \in outbound' : m.body.type # "peer-left"
  /\ \A c \in Conn, t \in RelayedType, to \in Peer :
       TypeOK /\ RouteRelay(c, t, to) =>
         \A m \in outbound' : m.body.type # "peer-left"
<1>1. ASSUME NEW conns, NEW ptc, NEW g, NEW c \in Conn, NEW info \in PeerInfo,
             RegisterFrom(conns, ptc, c, info, g), NEW m \in outbound'
      PROVE  m.body.type # "peer-left"
  <2>1. \/ \E infos : m = To(c, MsgPeers(infos))
        \/ \E d \in Conn : m = To(d, MsgPeerJoined(info))
    BY <1>1 DEF RegisterFrom, GroupPeers
  <2> QED BY <2>1 DEF To, MsgPeers, MsgPeerJoined
<1>2. ASSUME NEW c \in Conn, NEW text, Refuse(c, text), NEW m \in outbound'
      PROVE  m.body.type # "peer-left"
  BY <1>2 DEF Refuse, To, MsgError
<1>3. ASSUME NEW c \in Conn, NEW t \in RelayedType, NEW to \in Peer,
             TypeOK, RouteRelay(c, t, to), NEW m \in outbound'
      PROVE  m.body.type # "peer-left"
  <2>1. peer_to_conn[to] \in Conn
    BY <1>3 DEF TypeOK, RouteRelay
  <2>2. m = To(peer_to_conn[to], MsgRelayed(t, connections[c].peer_info))
    BY <1>3 DEF RouteRelay
  <2> QED BY <2>1, <2>2, RelayedNotLeft
<1> QED BY <1>1, <1>2, <1>3

LEMMA DeparturesAreRealNext ==
  ASSUME RegInv, DeparturesAreReal, [Next]_vars
  PROVE  DeparturesAreReal'
<1> DEFINE Quiet == \A m \in outbound' : m.body.type # "peer-left"
<1>1. Quiet => DeparturesAreReal'
  BY DEF DeparturesAreReal
<1>2. CASE UNCHANGED vars
  BY <1>2 DEF vars, DeparturesAreReal, Registered, PeerIdOf
<1>3. ASSUME NEW c \in Conn, NEW info \in PeerInfo,
             Register(c, info) \/ Reregister(c, info)
      PROVE  Quiet
  <2>1. CASE Register(c, info)
    BY <2>1, NoDeparture DEF Register
  <2>2. CASE Reregister(c, info)
    BY <2>2, NoDeparture DEF Reregister
  <2> QED BY <1>3, <2>1, <2>2
<1>4. ASSUME NEW c \in Conn, UnregisterUnknown(c)
      PROVE  Quiet
  BY <1>4 DEF UnregisterUnknown
<1>5. ASSUME NEW c \in Conn, NEW text, Refuse(c, text)
      PROVE  Quiet
  BY <1>5, NoDeparture
<1>6. ASSUME NEW c \in Conn, NEW t \in RelayedType, NEW to \in Peer, RouteRelay(c, t, to)
      PROVE  Quiet
  BY <1>6, NoDeparture DEF RegInv
<1>7. ASSUME NEW c \in Conn, RouteMessage(c)
      PROVE  Quiet
  BY <1>3, <1>5, <1>6, <1>7
     DEF RouteMessage, RouteUnregistered, RouteInvalidJson, RouteMissingTo,
         RouteNotFound, RouteUnknownType
<1> HIDE DEF Quiet
<1> QED BY <1>1, <1>2, <1>3, <1>4, <1>7, UnregisterIsReal DEF Next

\* Whatever its clients do, the registry never announces the departure of a
\* peer that is still registered, on that connection or on a newer one.
THEOREM DeparturesReal == Spec => []DeparturesAreReal
<1>1. Init => RegInv /\ DeparturesAreReal
  BY RegInvInit DEF Init, DeparturesAreReal
<1>2. RegInv /\ DeparturesAreReal /\ [Next]_vars => (RegInv /\ DeparturesAreReal)'
  BY RegInvNext, DeparturesAreRealNext
<1> QED BY <1>1, <1>2, PTL DEF Spec
=============================================================================
