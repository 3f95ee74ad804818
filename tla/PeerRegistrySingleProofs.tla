---------------------- MODULE PeerRegistrySingleProofs ----------------------
(***************************************************************************)
(* What PeerRegistry guarantees when every connection speaks for one peer, *)
(* as the app's connections do: its reverse lookup is exact, so messages   *)
(* reach the peer they name, departures are announced to everyone who      *)
(* stays, and the registry implements Directory.                           *)
(***************************************************************************)
EXTENDS PeerRegistryProofs

USE IdentitiesAssumption, GroupOfAssumption, NoneAssumption

\* A registered connection has an identity and the group of its caller.
Attributed ==
  \A c \in Conn :
    Registered(c) => /\ PeerIdOf(c) \in Identities[c]
                     /\ connections[c].network_group = GroupOf[c]

\* The inductive invariant.  NoStaleLookup needs Attributed: a connection that
\* registers again may overwrite only its own entry.
SingleInv == RegInv /\ NoStaleLookup /\ Attributed

LEMMA SingleInvInit == Init => SingleInv
BY RegInvInit DEF Init, SingleInv, NoStaleLookup, Attributed, Registered

\* The lookup of a peer names c only if c may speak for the peer.
LEMMA LookupIsIdentity ==
  ASSUME SingleInv, NEW p \in Peer, NEW c \in Conn, peer_to_conn[p] = c
  PROVE  p \in Identities[c]
<1>1. peer_to_conn[p] # None
  OBVIOUS
<1> QED BY <1>1 DEF SingleInv, NoStaleLookup, Attributed

\* The state in which Reregister calls register has no stale lookup either.
LEMMA UnregisterFresh ==
  ASSUME SingleInv, NEW c \in Conn, Registered(c)
  PROVE  FreshIn([connections EXCEPT ![c] = None],
                 [peer_to_conn EXCEPT ![PeerIdOf(c)] = None])
<1> SUFFICES ASSUME NEW p \in Peer,
                    [peer_to_conn EXCEPT ![PeerIdOf(c)] = None][p] # None
             PROVE  LET d == [peer_to_conn EXCEPT ![PeerIdOf(c)] = None][p]
                        conns == [connections EXCEPT ![c] = None]
                    IN  conns[d] # None /\ conns[d].peer_info.peer_id = p
  BY DEF FreshIn
<1>1. p # PeerIdOf(c) /\ [peer_to_conn EXCEPT ![PeerIdOf(c)] = None][p] = peer_to_conn[p]
  BY DEF SingleInv, RegInv, TypeOK
<1>2. /\ peer_to_conn[p] \in Conn
      /\ Registered(peer_to_conn[p])
      /\ PeerIdOf(peer_to_conn[p]) = p
  BY <1>1 DEF SingleInv, RegInv, TypeOK, NoStaleLookup
<1>3. peer_to_conn[p] # c
  BY <1>1, <1>2
<1> QED BY <1>1, <1>2, <1>3 DEF SingleInv, RegInv, TypeOK, Registered, PeerIdOf

\* What register and re-registration have in common: the state RegisterFrom
\* starts in knows c under info's peer id only.
LEMMA RegisterStarts ==
  ASSUME SingleIdentity, SingleInv,
         NEW c \in Conn, NEW info \in PeerInfo, info.peer_id \in Identities[c]
  PROVE  /\ \A q \in Peer : peer_to_conn[q] = c => q = info.peer_id
         /\ Registered(c) => PeerIdOf(c) = info.peer_id
<1>1. \A q \in Peer : peer_to_conn[q] = c => q = info.peer_id
  BY LookupIsIdentity DEF SingleIdentity
<1>2. Registered(c) => PeerIdOf(c) = info.peer_id
  BY DEF SingleInv, Attributed, SingleIdentity
<1> QED BY <1>1, <1>2

LEMMA SingleInvNext ==
  ASSUME SingleIdentity, SingleInv, [Next]_vars
  PROVE  SingleInv'
<1> USE DEF SingleInv
<1> DEFINE Keeps == UNCHANGED <<connections, peer_to_conn>>
<1>1. Keeps => NoStaleLookup' /\ Attributed'
  BY DEF NoStaleLookup, Attributed, Registered, PeerIdOf
<1>2. RegInv'
  BY RegInvNext
<1>3. connections \in ConnsType /\ peer_to_conn \in PtcType
  BY DEF RegInv, TypeOK, ConnsType, PtcType
<1>4. ASSUME NEW c \in Conn, NEW info \in PeerInfo, Register(c, info)
      PROVE  NoStaleLookup' /\ Attributed'
  <2>1. /\ info.peer_id \in Identities[c]
        /\ RegisterFrom(connections, peer_to_conn, c, info, GroupOf[c])
        /\ GroupOf[c] \in Group
    BY <1>4 DEF Register
  <2>2. FreshIn(connections, peer_to_conn)
    BY DEF NoStaleLookup, FreshIn, Registered, PeerIdOf
  <2>3. NoStaleLookup'
    BY <1>3, <2>1, <2>2, RegisterStarts, RegisterFromFresh
  <2>4. Attributed'
    BY <1>3, <2>1 DEF RegisterFrom, Evict, Attributed, Registered, PeerIdOf, ConnsType
  <2> QED BY <2>3, <2>4
<1>5. ASSUME NEW c \in Conn, Unregister(c)
      PROVE  NoStaleLookup' /\ Attributed'
  <2>1. FreshIn(connections', peer_to_conn')
    BY <1>5, UnregisterFresh DEF Unregister
  <2>2. Attributed'
    BY <1>3, <1>5 DEF Unregister, Attributed, Registered, PeerIdOf, ConnsType
  <2> QED BY <2>1, <2>2 DEF NoStaleLookup, FreshIn, Registered, PeerIdOf
<1>6. ASSUME NEW c \in Conn, NEW info \in PeerInfo, Reregister(c, info)
      PROVE  NoStaleLookup' /\ Attributed'
  <2> DEFINE conns == [connections EXCEPT ![c] = None]
             ptc == [peer_to_conn EXCEPT ![PeerIdOf(c)] = None]
             g == connections[c].network_group
  <2>1. Registered(c) /\ info.peer_id \in Identities[c] /\ g = GroupOf[c]
    BY <1>6 DEF Reregister, Attributed
  <2>2. conns \in ConnsType /\ ptc \in PtcType /\ g \in Group /\ PeerIdOf(c) \in Peer
    BY <2>1, ReregisterFrom DEF RegInv
  <2>3. FreshIn(conns, ptc)
    BY <2>1, UnregisterFresh
  <2>4. \A q \in Peer : ptc[q] = c => q = info.peer_id
    BY <1>3, <2>1, RegisterStarts DEF PtcType
  <2>5. RegisterFrom(conns, ptc, c, info, g)
    BY <1>6 DEF Reregister
  <2>6. NoStaleLookup'
    <3> HIDE DEF conns, ptc, g
    <3> QED BY <2>2, <2>3, <2>4, <2>5, RegisterFromFresh
  <2>7. Attributed'
    BY <1>3, <2>1, <2>5 DEF RegisterFrom, Evict, Attributed, Registered, PeerIdOf, ConnsType
  <2> QED BY <2>6, <2>7
<1>7. ASSUME NEW c \in Conn, UnregisterUnknown(c)
      PROVE  Keeps
  BY <1>7 DEF UnregisterUnknown
<1>8. ASSUME NEW c \in Conn, RouteMessage(c), \A info \in PeerInfo : ~Reregister(c, info)
      PROVE  Keeps
  BY <1>8 DEF RouteMessage, RouteUnregistered, RouteInvalidJson, RouteMissingTo,
              RouteNotFound, RouteRelay, RouteUnknownType, Refuse
<1>9. CASE UNCHANGED vars
  BY <1>1, <1>2, <1>9 DEF vars
<1> HIDE DEF Keeps
<1> QED BY <1>1, <1>2, <1>4, <1>5, <1>6, <1>7, <1>8, <1>9 DEF Next

LEMMA SingleInvariant == ASSUME SingleIdentity PROVE Spec => []SingleInv
<1>1. Init => SingleInv
  BY SingleInvInit
<1>2. SingleInv /\ [Next]_vars => SingleInv'
  BY SingleInvNext
<1> QED BY <1>1, <1>2, PTL DEF Spec

\* With one identity per connection the reverse lookup never goes stale.
THEOREM NoStale == ASSUME SingleIdentity PROVE Spec => []NoStaleLookup
<1>1. SingleInv => NoStaleLookup
  BY DEF SingleInv
<1> QED BY <1>1, SingleInvariant, PTL

-----------------------------------------------------------------------------
(* Relays reach the peer they name.                                        *)

LEMMA RelayStep ==
  ASSUME SingleInv, NEW c \in Conn, NEW t \in RelayedType, NEW to \in Peer,
         RouteRelay(c, t, to), NEW m \in outbound'
  PROVE  Registered(m.connection_id) /\ PeerIdOf(m.connection_id) = to
<1>1. m.connection_id = peer_to_conn[to] /\ peer_to_conn[to] # None
  BY DEF RouteRelay, To
<1> QED BY <1>1 DEF SingleInv, NoStaleLookup

\* With one identity per connection, a connect-request, its answer, an offer
\* or an answer is handed only to a connection registered as the peer the
\* sender named.
THEOREM RelayCorrect == ASSUME SingleIdentity PROVE Spec => RelayReachesAddressee
<1> DEFINE Reaches ==
      \A c \in Conn, t \in RelayedType, to \in Peer :
        RouteRelay(c, t, to) =>
          \A m \in outbound' :
            /\ Registered(m.connection_id)
            /\ PeerIdOf(m.connection_id) = to
<1>1. ASSUME SingleInv
      PROVE  Reaches
  <2> SUFFICES ASSUME NEW c \in Conn, NEW t \in RelayedType, NEW to \in Peer,
                      RouteRelay(c, t, to), NEW m \in outbound'
               PROVE  Registered(m.connection_id) /\ PeerIdOf(m.connection_id) = to
    OBVIOUS
  <2> QED BY <1>1, RelayStep
<1>2. SingleInv /\ [Next]_vars => [Reaches]_vars
  BY <1>1
<1>3. RelayReachesAddressee <=> [][Reaches]_vars
  BY DEF RelayReachesAddressee
<1> HIDE DEF Reaches
<1> QED BY <1>2, <1>3, SingleInvariant, PTL DEF Spec

-----------------------------------------------------------------------------
(* Departures are announced.                                               *)

\* A registration takes no peer offline in any group: the registering peer is
\* online again in its only group and the others keep their connections.
LEMMA RegisterKeepsOnline ==
  ASSUME OneGroupPerPeer, SingleIdentity, SingleInv,
         NEW c \in Conn, NEW info \in PeerInfo,
         Register(c, info) \/ Reregister(c, info),
         NEW p \in Peer, NEW g \in Group, Online(p, g)
  PROVE  Online(p, g)'
<1>1. PICK e \in Conn : /\ Registered(e)
                        /\ connections[e].network_group = g
                        /\ PeerIdOf(e) = p
  BY DEF Online, GroupPeers, Registered
<1>2. info.peer_id \in Identities[c] /\ p \in Identities[e] /\ g = GroupOf[e]
  BY <1>1 DEF Register, Reregister, SingleInv, Attributed
<1>3. connections \in ConnsType /\ peer_to_conn \in PtcType /\ info.peer_id \in Peer
  BY DEF SingleInv, RegInv, TypeOK, ConnsType, PtcType, PeerInfo
<1>4. connections'[c] = [peer_info |-> info, network_group |-> GroupOf[c]]
  <2>1. CASE Register(c, info)
    BY <2>1, <1>3 DEF Register, RegisterFrom, Evict, ConnsType
  <2>2. CASE Reregister(c, info)
    <3>1. connections[c].network_group = GroupOf[c]
      BY <2>2 DEF Reregister, SingleInv, Attributed
    <3> QED BY <2>2, <3>1, <1>3 DEF Reregister, RegisterFrom, Evict, ConnsType
  <2> QED BY <2>1, <2>2
<1>5. connections'[c] # None
  BY <1>4 DEF ConnectedPeer
<1>6. CASE p = info.peer_id
  <2>1. GroupOf[c] = g
    BY <1>2, <1>6 DEF OneGroupPerPeer
  <2> QED BY <1>4, <1>5, <1>6, <2>1 DEF Online, GroupPeers, PeerIdOf
<1>7. CASE p # info.peer_id
  <2>1. e # c
    BY <1>2, <1>7 DEF SingleIdentity
  <2>2. e # peer_to_conn[info.peer_id]
    BY <1>1, <1>3, <1>7 DEF SingleInv, NoStaleLookup
  <2>3. connections'[e] = connections[e]
    <3>1. CASE Register(c, info)
      BY <3>1, <1>3, <2>1, <2>2 DEF Register, RegisterFrom, Evict, ConnsType
    <3>2. CASE Reregister(c, info)
      <4>1. PeerIdOf(c) = info.peer_id
        BY <3>2, <1>2, RegisterStarts DEF Reregister
      <4>2. e # [peer_to_conn EXCEPT ![PeerIdOf(c)] = None][info.peer_id]
        BY <4>1, <1>3 DEF PtcType
      <4> QED BY <3>2, <4>2, <1>3, <2>1 DEF Reregister, RegisterFrom, Evict, ConnsType
    <3> QED BY <3>1, <3>2
  <2> QED BY <1>1, <2>3 DEF Online, GroupPeers, PeerIdOf, Registered
<1> QED BY <1>6, <1>7

\* Whoever unregisters is announced to the rest of the group.
LEMMA UnregisterAnnounces ==
  ASSUME SingleInv, NEW c \in Conn, Unregister(c),
         NEW p \in Peer, NEW g \in Group, Online(p, g), ~Online(p, g)',
         NEW d \in GroupPeers(connections', g)
  PROVE  To(d, MsgPeerLeft(p)) \in outbound'
<1>1. PICK e \in Conn : /\ Registered(e)
                        /\ connections[e].network_group = g
                        /\ PeerIdOf(e) = p
  BY DEF Online, GroupPeers, Registered
<1>2. e = c
  <2> SUFFICES ASSUME e # c
               PROVE  FALSE
    OBVIOUS
  <2>1. connections'[e] = connections[e]
    BY DEF Unregister, SingleInv, RegInv, TypeOK
  <2> QED BY <1>1, <2>1 DEF Online, GroupPeers, PeerIdOf, Registered
<1> QED BY <1>1, <1>2 DEF Unregister

\* With one identity per connection and one group per peer, as on the local
\* server, nobody who stays is left with a departed peer in its list for want
\* of a peer-left: the evictions inside register never make a peer vanish.
THEOREM DeparturesTold ==
  ASSUME SingleIdentity, OneGroupPerPeer
  PROVE  Spec => DeparturesAnnounced
<1> DEFINE Told ==
      \A p \in Peer, g \in Group :
        Online(p, g) /\ ~Online(p, g)' =>
          \A d \in GroupPeers(connections, g) \cap GroupPeers(connections', g) :
            To(d, MsgPeerLeft(p)) \in outbound'
<1>1. ASSUME SingleInv, Next
      PROVE  Told
  <2> SUFFICES ASSUME NEW p \in Peer, NEW g \in Group,
                      Online(p, g), ~Online(p, g)',
                      NEW d \in GroupPeers(connections', g)
               PROVE  To(d, MsgPeerLeft(p)) \in outbound'
    OBVIOUS
  <2>1. connections' # connections
    BY DEF Online, PeerIdOf
  <2>2. PICK c \in Conn : \/ Unregister(c)
                          \/ \E info \in PeerInfo : Register(c, info) \/ Reregister(c, info)
    BY <1>1, <2>1
       DEF Next, UnregisterUnknown, RouteMessage, RouteUnregistered,
           RouteInvalidJson, RouteMissingTo, RouteNotFound, RouteRelay,
           RouteUnknownType, Refuse
  <2> QED BY <1>1, <2>2, RegisterKeepsOnline, UnregisterAnnounces
<1>2. SingleInv /\ [Next]_vars => [Told]_vars
  BY <1>1
<1>3. DeparturesAnnounced <=> [][Told]_vars
  BY DEF DeparturesAnnounced
<1> HIDE DEF Told
<1> QED BY <1>2, <1>3, SingleInvariant, PTL DEF Spec

-----------------------------------------------------------------------------
(* The registry implements Directory.                                      *)

\* RegisterFrom binds info's peer id to c when only that id may name c.
LEMMA RegisterFromBinds ==
  ASSUME NEW c \in Conn, NEW info \in PeerInfo, NEW g \in Group,
         NEW conns \in ConnsType, NEW ptc \in PtcType,
         peer_to_conn \in PtcType,
         info.peer_id \in Identities[c],
         RegisterFrom(conns, ptc, c, info, g),
         \A q \in Peer : q # info.peer_id =>
           ptc[q] = peer_to_conn[q] /\ peer_to_conn[q] # c,
         \A d \in Conn \ {c} : d # peer_to_conn[info.peer_id] =>
           (conns[d] # None <=> Registered(d)) /\ d # ptc[info.peer_id],
         \A d \in Conn \ {c} : d = peer_to_conn[info.peer_id] =>
           conns[d] = None \/ d = ptc[info.peer_id]
  PROVE  ServerDirectory!Bind(c, info.peer_id)
<1>0. info.peer_id \in Peer
  BY DEF PeerInfo
<1>1. peer_to_conn' = [ServerDirectory!Forget(c) EXCEPT ![info.peer_id] = c]
  <2>1. peer_to_conn' = [ptc EXCEPT ![info.peer_id] = c]
    BY DEF RegisterFrom
  <2>2. \A q \in Peer : q # info.peer_id => ServerDirectory!Forget(c)[q] = ptc[q]
    BY DEF ServerDirectory!Forget
  <2> QED BY <1>0, <2>1, <2>2 DEF ServerDirectory!Forget, PtcType
<1>2. \A d \in Conn : Registered(d)' <=>
        (d = c \/ (Registered(d) /\ d # peer_to_conn[info.peer_id]))
  <2>1. connections' \in ConnsType /\ connections'[c] # None
    BY <1>0 DEF RegisterFrom, Evict, ConnsType, ConnectedPeer
  <2>2. \A d \in Conn \ {c} :
          connections'[d] = IF d = ptc[info.peer_id] THEN None ELSE conns[d]
    BY DEF RegisterFrom, Evict, ConnsType
  <2> QED BY <2>1, <2>2 DEF Registered
<1>3. {d \in Conn : Registered(d)}'
        = ({d \in Conn : Registered(d)} \ {peer_to_conn[info.peer_id]}) \cup {c}
  BY <1>2
<1> QED BY <1>1, <1>3 DEF ServerDirectory!Bind

LEMMA UnregisterUnbinds ==
  ASSUME SingleInv, NEW c \in Conn, Unregister(c)
  PROVE  ServerDirectory!Unbind(c)
<1>0. connections \in ConnsType /\ peer_to_conn \in PtcType
  BY DEF SingleInv, RegInv, TypeOK, ConnsType, PtcType
<1>1. Registered(c) /\ PeerIdOf(c) \in Peer
  BY ReregisterFrom DEF Unregister, SingleInv, RegInv
<1>2. peer_to_conn' = ServerDirectory!Forget(c)
  <2>1. \A q \in Peer : peer_to_conn[q] = c <=> q = PeerIdOf(c)
    BY <1>1 DEF SingleInv, RegInv, RegisteredIsReachable, NoStaleLookup
  <2> QED BY <1>0, <2>1 DEF Unregister, ServerDirectory!Forget, PtcType
<1>3. \A d \in Conn : Registered(d)' <=> Registered(d) /\ d # c
  BY <1>0 DEF Unregister, Registered, ConnsType
<1>4. {d \in Conn : Registered(d)}' = {d \in Conn : Registered(d)} \ {c}
  BY <1>3
<1> QED BY <1>1, <1>2, <1>4 DEF ServerDirectory!Unbind

LEMMA DirectoryStep ==
  ASSUME SingleIdentity, SingleInv, [Next]_vars
  PROVE  [ServerDirectory!Next]_<<peer_to_conn, {c \in Conn : Registered(c)}>>
<1> DEFINE Same == UNCHANGED <<peer_to_conn, {c \in Conn : Registered(c)}>>
<1>0. connections \in ConnsType /\ peer_to_conn \in PtcType
  BY DEF SingleInv, RegInv, TypeOK, ConnsType, PtcType
<1>1. UNCHANGED <<connections, peer_to_conn>> => Same
  BY DEF Registered
<1>2. ASSUME NEW c \in Conn, NEW info \in PeerInfo, Register(c, info)
      PROVE  ServerDirectory!Next
  <2>1. /\ info.peer_id \in Identities[c]
        /\ RegisterFrom(connections, peer_to_conn, c, info, GroupOf[c])
        /\ GroupOf[c] \in Group
        /\ info.peer_id \in Peer
    BY <1>2 DEF Register, PeerInfo
  <2>2. \A q \in Peer : peer_to_conn[q] = c => q = info.peer_id
    BY <2>1, RegisterStarts
  <2>3. \A d \in Conn \ {c} : d # peer_to_conn[info.peer_id] =>
          (connections[d] # None <=> Registered(d)) /\ d # peer_to_conn[info.peer_id]
    BY DEF Registered
  <2>4. ServerDirectory!Bind(c, info.peer_id)
    BY <1>0, <2>1, <2>2, <2>3, RegisterFromBinds
  <2> QED BY <2>1, <2>4 DEF ServerDirectory!Next
<1>3. ASSUME NEW c \in Conn, NEW info \in PeerInfo, Reregister(c, info)
      PROVE  ServerDirectory!Next
  <2> DEFINE conns == [connections EXCEPT ![c] = None]
             ptc == [peer_to_conn EXCEPT ![PeerIdOf(c)] = None]
             g == connections[c].network_group
  <2>1. /\ info.peer_id \in Identities[c]
        /\ Registered(c)
        /\ RegisterFrom(conns, ptc, c, info, g)
        /\ info.peer_id \in Peer
    BY <1>3 DEF Reregister, PeerInfo
  <2>2. PeerIdOf(c) = info.peer_id /\ peer_to_conn[info.peer_id] = c
    BY <2>1, RegisterStarts DEF SingleInv, RegInv, RegisteredIsReachable
  <2>3. conns \in ConnsType /\ ptc \in PtcType /\ g \in Group
    BY <2>1, ReregisterFrom DEF SingleInv, RegInv
  <2>4. \A q \in Peer : q # info.peer_id =>
          ptc[q] = peer_to_conn[q] /\ peer_to_conn[q] # c
    BY <1>0, <2>1, <2>2, RegisterStarts DEF PtcType
  <2>5. ptc[info.peer_id] = None
    BY <1>0, <2>1, <2>2 DEF PtcType
  <2>6. \A d \in Conn \ {c} :
          (conns[d] # None <=> Registered(d)) /\ d # ptc[info.peer_id]
    BY <1>0, <2>5 DEF Registered, ConnsType
  <2>7. ServerDirectory!Bind(c, info.peer_id)
    <3> HIDE DEF conns, ptc, g
    <3> QED BY <1>0, <2>1, <2>2, <2>3, <2>4, <2>6, RegisterFromBinds
  <2> QED BY <2>1, <2>7 DEF ServerDirectory!Next
<1>4. ASSUME NEW c \in Conn, Unregister(c)
      PROVE  ServerDirectory!Next
  BY <1>4, UnregisterUnbinds DEF ServerDirectory!Next
<1>5. ASSUME NEW c \in Conn, UnregisterUnknown(c)
      PROVE  Same
  BY <1>1, <1>5 DEF UnregisterUnknown
<1>6. ASSUME NEW c \in Conn, RouteMessage(c), \A info \in PeerInfo : ~Reregister(c, info)
      PROVE  Same
  BY <1>1, <1>6
     DEF RouteMessage, RouteUnregistered, RouteInvalidJson, RouteMissingTo,
         RouteNotFound, RouteRelay, RouteUnknownType, Refuse
<1>7. CASE UNCHANGED vars
  BY <1>1, <1>7 DEF vars
<1> HIDE DEF Same
<1>8. ASSUME NEW c \in Conn, RouteMessage(c)
      PROVE  Same \/ ServerDirectory!Next
  <2>1. CASE \E info \in PeerInfo : Reregister(c, info)
    BY <1>3, <2>1
  <2>2. CASE \A info \in PeerInfo : ~Reregister(c, info)
    BY <1>6, <1>8, <2>2
  <2> QED BY <2>1, <2>2
<1>9. ASSUME Next
      PROVE  Same \/ ServerDirectory!Next
  <2>1. PICK c \in Conn : \/ \E info \in PeerInfo : Register(c, info)
                          \/ Unregister(c)
                          \/ UnregisterUnknown(c)
                          \/ RouteMessage(c)
    BY <1>9 DEF Next
  <2> QED BY <1>2, <1>4, <1>5, <1>8, <2>1
<1> QED BY <1>7, <1>9 DEF Same

\* With one identity per connection the registry implements the directory:
\* every call binds one peer to the calling connection, drops the binding of a
\* closed one, or leaves the directory alone.
THEOREM Refinement == ASSUME SingleIdentity PROVE Spec => ImplementsDirectory
<1>1. Init => ServerDirectory!Init
  BY DEF Init, ServerDirectory!Init, Registered
<1>2. SingleInv /\ [Next]_vars =>
        [ServerDirectory!Next]_<<peer_to_conn, {c \in Conn : Registered(c)}>>
  BY DirectoryStep
<1> QED BY <1>1, <1>2, SingleInvariant, PTL
       DEF Spec, ImplementsDirectory, ServerDirectory!Spec
=============================================================================
