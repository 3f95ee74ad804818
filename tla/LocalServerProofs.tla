------------------------- MODULE LocalServerProofs -------------------------
(***************************************************************************)
(* Proofs about LocalServer, for every set of browsers, however often they *)
(* come back and however many sends are held up: that the registry's       *)
(* theorems hold in the server, that registrations end with their          *)
(* handlers, what is never sent to a browser, and the types; and for       *)
(* browsers that use one connection each, that they all see each other.    *)
(***************************************************************************)
EXTENDS LocalServer, PeerRegistrySingleProofs, SequenceTheorems,
        FiniteSetTheorems, WellFoundedInduction

-----------------------------------------------------------------------------
(* What connections speak for.                                             *)

LEMMA PeerOfFacts ==
  /\ \A c \in Conn : PeerOf(c) \in Peer /\ Identities[c] = {PeerOf(c)}
  /\ SingleIdentity
<1>1. \A c \in Conn : \E p \in Peer : Identities[c] = {p}
  BY LocalAssumption
<1>2. \A c \in Conn : PeerOf(c) \in Peer /\ Identities[c] = {PeerOf(c)}
  BY <1>1 DEF PeerOf
<1> QED BY <1>2 DEF SingleIdentity

-----------------------------------------------------------------------------
(* Frames.                                                                 *)

\* A browser registers as itself and relays what the protocol knows.
RegisterFrame(c) ==
  [type : {"register"}, info : [peer_id : {PeerOf(c)}, label : Label \cup {None}]]
RelayFrame == [type : RelayedType, to : Peer]
Frame(c) == RegisterFrame(c) \cup RelayFrame

FramesOK ==
  /\ toServer \in [Conn -> Seq(UNION {Frame(c) : c \in Conn})]
  /\ \A c \in Conn : toServer[c] \in Seq(Frame(c))

LEMMA FrameFacts ==
  ASSUME FramesOK, NEW c \in Conn, toServer[c] # <<>>
  PROVE  /\ Tail(toServer[c]) \in Seq(Frame(c))
         /\ Head(toServer[c]).type = "register" =>
              /\ Head(toServer[c]).info.peer_id = PeerOf(c)
              /\ Head(toServer[c]).info.label # None => Head(toServer[c]).info \in PeerInfo
         /\ Head(toServer[c]).type # "register" =>
              Head(toServer[c]).type \in RelayedType /\ Head(toServer[c]).to \in Peer
<1>1. toServer[c] \in Seq(Frame(c))
  BY DEF FramesOK
<1>2. /\ Head(toServer[c]) \in Frame(c)
      /\ Tail(toServer[c]) \in Seq(Frame(c))
  BY <1>1, HeadTailProperties
<1>3. \A f \in RegisterFrame(c) :
        /\ f.type = "register" /\ f.info.peer_id = PeerOf(c)
        /\ f.info.label # None => f.info \in PeerInfo
  BY PeerOfFacts DEF RegisterFrame, PeerInfo
<1>4. \A f \in RelayFrame : f.type \in RelayedType /\ f.to \in Peer /\ f.type # "register"
  BY DEF RelayFrame, RelayedType
<1> QED BY <1>2, <1>3, <1>4 DEF Frame

\* A step that reads a frame, or loses or adds some.
LEMMA FramesKept ==
  ASSUME FramesOK, NEW c \in Conn, NEW q \in Seq(Frame(c)),
         toServer' = [toServer EXCEPT ![c] = q]
  PROVE  FramesOK'
<1> DEFINE Frames == UNION {Frame(d) : d \in Conn}
<1>1. q \in Seq(Frames)
  BY SeqMonotonic, Frame(c) \subseteq Frames
<1>2. toServer' \in [Conn -> Seq(Frames)]
  BY <1>1 DEF FramesOK
<1> QED BY <1>2 DEF FramesOK

LEMMA FramesInit == LocalInit => FramesOK
<1> SUFFICES ASSUME LocalInit PROVE FramesOK
  OBVIOUS
<1>1. \A S : <<>> \in Seq(S)
  OBVIOUS
<1> QED BY <1>1 DEF LocalInit, FramesOK

LEMMA ConnectFrames ==
  ASSUME FramesOK, NEW c \in Conn, NEW label \in Label \cup {None}, Connect(c, label)
  PROVE  FramesOK'
<1>1. [type |-> "register", info |-> [peer_id |-> PeerOf(c), label |-> label]] \in Frame(c)
  BY DEF Frame, RegisterFrame
<1>2. <<[type |-> "register", info |-> [peer_id |-> PeerOf(c), label |-> label]]>>
        \in Seq(Frame(c))
  BY <1>1
<1> QED BY <1>2, FramesKept DEF Connect

LEMMA SendFrames ==
  ASSUME FramesOK, NEW c \in Conn, NEW t \in RelayedType, NEW to \in Peer, SendRelay(c, t, to)
  PROVE  FramesOK'
<1>1. [type |-> t, to |-> to] \in Frame(c)
  BY DEF Frame, RelayFrame
<1>2. Append(toServer[c], [type |-> t, to |-> to]) \in Seq(Frame(c))
  BY <1>1, AppendProperties DEF FramesOK
<1> QED BY <1>2, FramesKept DEF SendRelay

LEMMA FramesNext == FramesOK /\ [LocalNext]_lvars => FramesOK'
<1> SUFFICES ASSUME FramesOK, [LocalNext]_lvars PROVE FramesOK'
  OBVIOUS
<1>1. ASSUME NEW c \in Conn, Reads(c)
      PROVE  FramesOK'
  BY <1>1, FrameFacts, FramesKept DEF Reads
<1>2. ASSUME NEW c \in Conn, Leave(c)
      PROVE  FramesOK'
  <2>1. <<>> \in Seq(Frame(c))
    OBVIOUS
  <2> QED BY <1>2, <2>1, FramesKept DEF Leave, FramesOK
<1>3. CASE UNCHANGED toServer
  BY <1>3 DEF FramesOK
<1>4. CASE Server
  BY <1>1, <1>3, <1>4
     DEF Server, HandleFrame, HandleRegister, HandleNameless, HandleOther, HandlerEnds, Resume
<1>5. CASE Network
  BY <1>3, <1>5 DEF Network, Fill, Drain, Closing, Lose
<1>6. CASE Browsers
  <2>1. ASSUME NEW c \in Conn, Receive(c)
        PROVE  FramesOK'
    BY <1>3, <2>1 DEF Receive
  <2> QED BY <1>2, <1>6, <2>1, ConnectFrames, SendFrames, LocalAssumption DEF Browsers
<1>7. CASE UNCHANGED lvars
  BY <1>3, <1>7 DEF lvars, serverVars
<1> QED BY <1>4, <1>5, <1>6, <1>7 DEF LocalNext

-----------------------------------------------------------------------------
(* The server uses the registry as its interface allows.                   *)

LEMMA ServerCalls ==
  ASSUME FramesOK, [LocalNext]_lvars
  PROVE  [Next]_vars
<1>1. ASSUME NEW c \in Conn, HandleRegister(c)
      PROVE  Next
  <2>1. Head(toServer[c]).info \in PeerInfo /\ Register(c, Head(toServer[c]).info)
    BY <1>1, FrameFacts DEF HandleRegister, Reads
  <2> QED BY <2>1 DEF Next
<1>2. ASSUME NEW c \in Conn, HandleOther(c)
      PROVE  Next
  <2> DEFINE msg == Head(toServer[c])
  <2>1. msg.type \in RelayedType /\ msg.to \in Peer
    BY <1>2, FrameFacts DEF HandleOther, Reads
  <2>2. \/ RouteUnregistered(c) \/ RouteNotFound(c, msg.to) \/ RouteRelay(c, msg.type, msg.to)
    BY <1>2 DEF HandleOther
  <2> HIDE DEF msg
  <2> QED BY <2>1, <2>2 DEF Next, RouteMessage
<1>3. ASSUME NEW c \in Conn, HandlerEnds(c)
      PROVE  Next
  BY <1>3 DEF HandlerEnds, Next
<1>4. CASE Server
  BY <1>1, <1>2, <1>3, <1>4 DEF Server, HandleFrame, HandleNameless, Resume
<1>5. CASE Network
  BY <1>5 DEF Network, Fill, Drain, Closing, Lose
<1>6. CASE Browsers
  BY <1>6 DEF Browsers, Connect, Leave, Receive, SendRelay
<1>7. CASE UNCHANGED lvars
  BY <1>7 DEF lvars
<1> QED BY <1>4, <1>5, <1>6, <1>7 DEF LocalNext

LEMMA FramesInvariant == LocalSpec => []FramesOK
BY FramesInit, FramesNext, PTL DEF LocalSpec

\* Whatever its sockets and browsers do, the self-hosted server's calls are a
\* behaviour of PeerRegistry: what holds of the registry holds in the server.
THEOREM RegistryServed == LocalSpec => Spec
<1>1. LocalInit => Init
  BY DEF LocalInit
<1>2. FramesOK /\ [LocalNext]_lvars => [Next]_vars
  BY ServerCalls
<1> QED BY <1>1, <1>2, FramesInvariant, PTL DEF LocalSpec, Spec

\* In the self-hosted server the directory that route_message consults is
\* exact, and no two connections are registered for one peer.
THEOREM ServerLookups == LocalSpec => [](RegisteredIsReachable /\ NoStaleLookup)
BY RegistryServed, RegisteredReachable, NoStale, PeerOfFacts, PTL

\* The self-hosted server implements the directory of the peers that are online.
THEOREM ServerImplementsDirectory == LocalSpec => ImplementsDirectory
BY RegistryServed, Refinement, PeerOfFacts, PTL

-----------------------------------------------------------------------------
(* Registrations and their handlers.                                       *)

ServingOK ==
  /\ serving \in [Conn -> {"none", "reading", "leaving", "done"}]
  /\ NoOrphanedRegistration

\* What Deliver does to the handler.
LEMMA DeliverServing ==
  ASSUME ServingOK, NEW c \in Conn, NEW msgs, NEW phase \in {"none", "reading", "leaving", "done"},
         Deliver(c, msgs, phase)
  PROVE  /\ serving' \in [Conn -> {"none", "reading", "leaving", "done"}]
         /\ \A d \in Conn : d # c => serving'[d] = serving[d]
         /\ serving'[c] = phase \/ (phase = "leaving" /\ serving'[c] = "done")
BY DEF Deliver, ServingOK

\* Only a handler that still reads registers its connection.
LEMMA RegistersOnlyItself ==
  ASSUME TypeOK, NEW c \in Conn, NEW info \in PeerInfo, Register(c, info)
  PROVE  \A d \in Conn : d # c /\ Registered(d)' => Registered(d)
<1>1. connections' = [Evict(connections, peer_to_conn, info.peer_id) EXCEPT
                        ![c] = [peer_info |-> info, network_group |-> GroupOf[c]]]
  BY DEF Register, RegisterFrom
<1>2. \A d \in Conn : d # c => connections'[d] = IF d = peer_to_conn[info.peer_id]
                                                   THEN None ELSE connections[d]
  BY <1>1 DEF Evict
<1> QED BY <1>2 DEF Registered

LEMMA ServingNext ==
  ASSUME TypeOK, FramesOK, ServingOK, ready \in Seq(Conn), [LocalNext]_lvars
  PROVE  ServingOK'
<1>1. ASSUME NEW c \in Conn, HandleRegister(c)
      PROVE  ServingOK'
  <2>1. PICK msgs : Deliver(c, msgs, "reading")
    BY <1>1 DEF HandleRegister
  <2>2. \A d \in Conn : d # c /\ Registered(d)' => Registered(d)
    BY <1>1, FrameFacts, RegistersOnlyItself DEF HandleRegister, Reads
  <2> QED BY <2>1, <2>2, DeliverServing DEF ServingOK, NoOrphanedRegistration
<1>2. ASSUME NEW c \in Conn, HandleNameless(c) \/ HandleOther(c)
      PROVE  ServingOK'
  <2>1. PICK msgs : Deliver(c, msgs, "reading")
    BY <1>2 DEF HandleNameless, HandleOther
  <2>2. serving[c] = "reading" /\ UNCHANGED connections
    BY <1>2 DEF HandleNameless, HandleOther, Reads, RouteUnregistered, RouteNotFound,
                RouteRelay, Refuse, vars
  <2> QED BY <2>1, <2>2, DeliverServing DEF ServingOK, NoOrphanedRegistration, Registered
<1>3. ASSUME NEW c \in Conn, HandlerEnds(c)
      PROVE  ServingOK'
  <2>1. PICK msgs : Deliver(c, msgs, "leaving")
    BY <1>3 DEF HandlerEnds
  <2>2. ~Registered(c)' /\ \A d \in Conn : d # c => (Registered(d)' <=> Registered(d))
    BY <1>3 DEF HandlerEnds, Unregister, UnregisterUnknown, Registered, TypeOK
  <2> QED BY <2>1, <2>2, DeliverServing DEF ServingOK, NoOrphanedRegistration
<1>4. ASSUME Resume
      PROVE  ServingOK'
  <2>1. Head(ready) \in Conn
    BY <1>4, HeadTailProperties DEF Resume
  <2>2. Deliver(Head(ready), rest[Head(ready)], serving[Head(ready)]) /\ UNCHANGED connections
    BY <1>4 DEF Resume, vars
  <2> QED BY <2>1, <2>2, DeliverServing DEF ServingOK, NoOrphanedRegistration, Registered
<1>5. CASE Network
  BY <1>5 DEF Network, Fill, Drain, Closing, Lose, ServingOK, NoOrphanedRegistration,
              Registered, vars
<1>6. ASSUME NEW c \in Conn, NEW label, Connect(c, label)
      PROVE  ServingOK'
  BY <1>6 DEF Connect, ServingOK, NoOrphanedRegistration, Registered, vars
<1>7. CASE Browsers
  BY <1>6, <1>7 DEF Browsers, Leave, Receive, SendRelay, ServingOK, NoOrphanedRegistration,
                    Registered, vars
<1>8. CASE UNCHANGED lvars
  BY <1>8 DEF lvars, vars, serverVars, ServingOK, NoOrphanedRegistration, Registered
<1> QED BY <1>1, <1>2, <1>3, <1>4, <1>5, <1>7, <1>8 DEF LocalNext, Server, HandleFrame

LEMMA RegistrySingle == LocalSpec => []SingleInv
BY RegistryServed, SingleInvariant, PeerOfFacts, PTL

-----------------------------------------------------------------------------
(* Lists.                                                                  *)

LEMMA MinFacts ==
  ASSUME NEW n \in Nat, NEW T \in SUBSET (1..n), T # {}
  PROVE  Min(T) \in T /\ \A m \in T : Min(T) <= m
<1> DEFINE R == StrictSubsetOrdering(1..n)
           F == FiniteSubsetsOf(1..n)
           Below(m) == {k \in T : k < m}
           B == {Below(m) : m \in T}
<1>1. IsFiniteSet(1..n)
  BY FS_Interval
<1>2. F = SUBSET (1..n)
  BY <1>1, FS_FiniteSubsetsOfFinite
<1>3. IsWellFoundedOn(R, F)
  BY FS_StrictSubsetOrderingWellFounded
<1>4. B \subseteq F /\ B # {}
  <2>1. \A m \in T : Below(m) \in SUBSET (1..n)
    OBVIOUS
  <2> HIDE DEF F, Below
  <2> QED BY <1>2, <2>1
<1> HIDE DEF R, F, B
<1>5. PICK x \in B : \A y \in B : ~(<<y, x>> \in R)
  BY <1>3, <1>4, WFMin
<1>6. PICK m \in T : x = Below(m)
  BY <1>5 DEF B
<1>7. \A k \in T : m <= k
  <2> SUFFICES ASSUME NEW k \in T, ~(m <= k) PROVE FALSE
    OBVIOUS
  <2>1. k \in Nat /\ m \in Nat /\ k < m
    OBVIOUS
  <2>2. Below(k) \subseteq Below(m) /\ k \in Below(m) /\ k \notin Below(k)
    <3>1. \A j \in T : j < k => j < m
      BY <2>1
    <3>2. ~(k < k)
      BY <2>1
    <3> QED BY <2>1, <3>1, <3>2
  <2>4. Below(k) \in B
    BY DEF B
  <2>3. <<Below(k), Below(m)>> \in R
    <3>1. Below(k) # Below(m)
      BY <2>2
    <3>2. Below(k) \in SUBSET (1..n) /\ Below(m) \in SUBSET (1..n)
      OBVIOUS
    <3> HIDE DEF Below
    <3> QED BY <2>2, <3>1, <3>2 DEF R, StrictSubsetOrdering
  <2> QED BY <1>5, <1>6, <2>3, <2>4
<1> QED BY <1>7 DEF Min

LEMMA AppendFacts ==
  ASSUME NEW S, NEW s \in Seq(S), NEW e \in S
  PROVE  /\ \A x : Contains(Append(s, e), x) <=> Contains(s, x) \/ x = e
         /\ IsInjective(s) /\ ~Contains(s, e) => IsInjective(Append(s, e))
<1>1. /\ Len(s) \in Nat /\ Len(Append(s, e)) = Len(s) + 1 /\ DOMAIN s = 1..Len(s)
      /\ DOMAIN Append(s, e) = 1..(Len(s) + 1)
      /\ \A i \in 1..Len(s) : Append(s, e)[i] = s[i]
      /\ Append(s, e)[Len(s) + 1] = e
  BY AppendProperties, LenProperties
<1>2. \A i \in 1..(Len(s) + 1) : i \in 1..Len(s) \/ i = Len(s) + 1
  BY <1>1
<1>3. 1..Len(s) \subseteq 1..(Len(s) + 1) /\ Len(s) + 1 \in 1..(Len(s) + 1)
  BY <1>1
<1>4. \A x : Contains(Append(s, e), x) <=> Contains(s, x) \/ x = e
  BY <1>1, <1>2, <1>3 DEF Contains
<1>5. IsInjective(s) /\ ~Contains(s, e) => IsInjective(Append(s, e))
  BY <1>1, <1>2 DEF Contains, IsInjective
<1> QED BY <1>4, <1>5

LEMMA TailFacts ==
  ASSUME NEW S, NEW s \in Seq(S), s # <<>>, IsInjective(s)
  PROVE  /\ \A x : Contains(s, x) <=> Contains(Tail(s), x) \/ x = Head(s)
         /\ ~Contains(Tail(s), Head(s))
         /\ IsInjective(Tail(s))
<1>1. /\ Len(s) \in Nat \ {0} /\ DOMAIN s = 1..Len(s)
      /\ Len(Tail(s)) = Len(s) - 1 /\ DOMAIN Tail(s) = 1..(Len(s) - 1)
      /\ \A i \in 1..(Len(s) - 1) : Tail(s)[i] = s[i + 1]
      /\ Head(s) = s[1]
  BY HeadTailProperties, LenProperties, EmptySeq
<1>2. /\ \A i \in 1..(Len(s) - 1) : i + 1 \in 1..Len(s) /\ i + 1 # 1
      /\ \A i \in 1..Len(s) : i = 1 \/ (i - 1 \in 1..(Len(s) - 1) /\ (i - 1) + 1 = i)
      /\ 1 \in 1..Len(s)
  BY <1>1
<1>3. ASSUME NEW x PROVE Contains(s, x) <=> Contains(Tail(s), x) \/ x = Head(s)
  <2>1. ASSUME NEW i \in 1..Len(s), s[i] = x PROVE Contains(Tail(s), x) \/ x = Head(s)
    <3>1. CASE i = 1
      BY <1>1, <2>1, <3>1
    <3>2. CASE i # 1
      <4>1. i - 1 \in 1..(Len(s) - 1) /\ Tail(s)[i - 1] = x
        BY <1>1, <1>2, <2>1, <3>2
      <4> QED BY <1>1, <4>1 DEF Contains
    <3> QED BY <3>1, <3>2
  <2>2. ASSUME NEW i \in 1..(Len(s) - 1), Tail(s)[i] = x PROVE Contains(s, x)
    BY <1>1, <1>2, <2>2 DEF Contains
  <2>3. Head(s) = x => Contains(s, x)
    BY <1>1, <1>2 DEF Contains
  <2> QED BY <1>1, <2>1, <2>2, <2>3 DEF Contains
<1>4. ~Contains(Tail(s), Head(s))
  BY <1>1, <1>2 DEF Contains, IsInjective
<1>5. IsInjective(Tail(s))
  BY <1>1, <1>2 DEF IsInjective
<1> QED BY <1>3, <1>4, <1>5

LEMMA ConcatFacts ==
  ASSUME NEW S, NEW s \in Seq(S), NEW t \in Seq(S)
  PROVE  /\ \A x : Contains(s \o t, x) <=> Contains(s, x) \/ Contains(t, x)
         /\ (IsInjective(s) /\ IsInjective(t) /\ \A x : ~(Contains(s, x) /\ Contains(t, x)))
              => IsInjective(s \o t)
<1> DEFINE m == Len(s)
           n == Len(t)
           u == s \o t
<1>1. /\ m \in Nat /\ n \in Nat /\ DOMAIN s = 1..m /\ DOMAIN t = 1..n
      /\ Len(u) = m + n /\ DOMAIN u = 1..(m + n)
      /\ \A i \in 1..(m + n) : u[i] = IF i <= m THEN s[i] ELSE t[i - m]
  BY ConcatProperties, LenProperties
<1> HIDE DEF m, n, u
<1>2. /\ \A i \in 1..(m + n) : /\ i <= m => i \in 1..m
                               /\ ~(i <= m) => i - m \in 1..n
      /\ \A i \in 1..m : i \in 1..(m + n) /\ i <= m
      /\ \A i \in 1..n : m + i \in 1..(m + n) /\ ~(m + i <= m) /\ (m + i) - m = i
      /\ \A i, j \in 1..(m + n) : i - m = j - m => i = j
  BY <1>1
<1>3. /\ \A i \in 1..m : u[i] = s[i]
      /\ \A i \in 1..n : u[m + i] = t[i]
      /\ \A i \in 1..(m + n) : \/ i \in 1..m /\ u[i] = s[i]
                               \/ i - m \in 1..n /\ u[i] = t[i - m]
  BY <1>1, <1>2
<1>4. \A x : (\E i \in 1..(m + n) : u[i] = x) <=> (\E i \in 1..m : s[i] = x) \/ (\E i \in 1..n : t[i] = x)
  BY <1>2, <1>3
<1>5. \A x : Contains(u, x) <=> Contains(s, x) \/ Contains(t, x)
  BY <1>1, <1>4 DEF Contains, m, n
<1>6. ASSUME IsInjective(s), IsInjective(t), \A x : ~(Contains(s, x) /\ Contains(t, x))
      PROVE  IsInjective(u)
  <2>1. \A i \in 1..m, j \in 1..n : s[i] # t[j]
    BY <1>6 DEF Contains, m, n
  <2>2. \A i, j \in 1..m : s[i] = s[j] => i = j
    BY <1>1, <1>6 DEF IsInjective
  <2>3. \A i, j \in 1..n : t[i] = t[j] => i = j
    BY <1>1, <1>6 DEF IsInjective
  <2>4. \A i, j \in 1..(m + n) : u[i] = u[j] => i = j
    BY <1>2, <1>3, <2>1, <2>2, <2>3
  <2> QED BY <1>1, <2>4 DEF IsInjective
<1> QED BY <1>5, <1>6 DEF u

-----------------------------------------------------------------------------
(* Suspended tasks.                                                        *)

\* A suspended task waits in one place: for w, the queues of the sockets, and
\* r, the queue of those that may go on.
QueuesIn(w, r) ==
  /\ w \in [Conn -> Seq(Conn)] /\ \A d \in Conn : IsInjective(w[d])
  /\ r \in Seq(Conn) /\ IsInjective(r)
  /\ \A c, d \in Conn : Contains(w[d], c) =>
       /\ ~Contains(r, c)
       /\ \A e \in Conn : Contains(w[e], c) => d = e

SuspendedIn(w, r, c) == Contains(r, c) \/ \E d \in Conn : Contains(w[d], c)

LEMMA SuspendFacts ==
  ASSUME NEW w, NEW r, QueuesIn(w, r), NEW c \in Conn, NEW d \in Conn, ~SuspendedIn(w, r, c)
  PROVE  LET v == [w EXCEPT ![d] = Append(@, c)]
         IN  /\ QueuesIn(v, r)
             /\ \A e \in Conn : SuspendedIn(v, r, e) <=> SuspendedIn(w, r, e) \/ e = c
<1> DEFINE v == [w EXCEPT ![d] = Append(@, c)]
<1>1. /\ w[d] \in Seq(Conn) /\ IsInjective(w[d]) /\ ~Contains(w[d], c)
      /\ w \in [Conn -> Seq(Conn)]
  BY DEF QueuesIn, SuspendedIn
<1>2. /\ Append(w[d], c) \in Seq(Conn) /\ IsInjective(Append(w[d], c))
      /\ \A x : Contains(Append(w[d], c), x) <=> Contains(w[d], x) \/ x = c
  BY <1>1, AppendProperties, AppendFacts
<1>3. /\ v \in [Conn -> Seq(Conn)] /\ v[d] = Append(w[d], c)
      /\ \A e \in Conn : e # d => v[e] = w[e]
  BY <1>1, <1>2
<1> HIDE DEF v
<1>4. \A e, x \in Conn : Contains(v[e], x) <=> Contains(w[e], x) \/ (e = d /\ x = c)
  BY <1>2, <1>3
<1>5. QueuesIn(v, r)
  <2>1. \A e \in Conn : IsInjective(v[e])
    BY <1>2, <1>3 DEF QueuesIn
  <2>2. r \in Seq(Conn) /\ IsInjective(r)
    BY DEF QueuesIn
  <2>3. ASSUME NEW x \in Conn, NEW e \in Conn, Contains(v[e], x)
        PROVE  ~Contains(r, x) /\ \A f \in Conn : Contains(v[f], x) => e = f
    <3>1. CASE x = c
      BY <1>4, <2>3, <3>1 DEF SuspendedIn
    <3>2. CASE x # c
      BY <1>4, <2>3, <3>2 DEF QueuesIn
    <3> QED BY <3>1, <3>2
  <2> QED BY <1>3, <2>1, <2>2, <2>3 DEF QueuesIn
<1>6. \A e \in Conn : SuspendedIn(v, r, e) <=> SuspendedIn(w, r, e) \/ e = c
  BY <1>4 DEF SuspendedIn
<1> QED BY <1>5, <1>6 DEF v

LEMMA ReleaseFacts ==
  ASSUME NEW w, NEW r, QueuesIn(w, r), NEW c \in Conn
  PROVE  LET v == [w EXCEPT ![c] = <<>>]
             q == r \o w[c]
         IN  /\ QueuesIn(v, q)
             /\ \A e \in Conn : SuspendedIn(v, q, e) <=> SuspendedIn(w, r, e)
<1> DEFINE v == [w EXCEPT ![c] = <<>>]
           q == r \o w[c]
<1>1. /\ w \in [Conn -> Seq(Conn)] /\ r \in Seq(Conn) /\ w[c] \in Seq(Conn)
      /\ IsInjective(r) /\ IsInjective(w[c])
      /\ \A x \in Conn : ~(Contains(r, x) /\ Contains(w[c], x))
  BY DEF QueuesIn
<1>2. \A x : Contains(r, x) => x \in Conn
  BY <1>1, ElementOfSeq DEF Contains
<1>3. \A x : ~(Contains(r, x) /\ Contains(w[c], x))
  BY <1>1, <1>2
<1>4. /\ q \in Seq(Conn) /\ IsInjective(q)
      /\ \A x : Contains(q, x) <=> Contains(r, x) \/ Contains(w[c], x)
  BY <1>1, <1>3, ConcatProperties, ConcatFacts
<1>5. <<>> \in Seq(Conn) /\ IsInjective(<<>>) /\ \A x : ~Contains(<<>>, x)
  BY DEF IsInjective, Contains
<1>6. /\ v \in [Conn -> Seq(Conn)] /\ v[c] = <<>>
      /\ \A e \in Conn : e # c => v[e] = w[e]
  BY <1>1, <1>5
<1> HIDE DEF v, q
<1>7. \A e, x \in Conn : Contains(v[e], x) <=> Contains(w[e], x) /\ e # c
  BY <1>5, <1>6
<1>8. QueuesIn(v, q)
  BY <1>4, <1>5, <1>6, <1>7 DEF QueuesIn
<1>9. \A e \in Conn : SuspendedIn(v, q, e) <=> SuspendedIn(w, r, e)
  BY <1>4, <1>7 DEF SuspendedIn
<1> QED BY <1>8, <1>9 DEF v, q

LEMMA ResumeFacts ==
  ASSUME NEW w, NEW r, QueuesIn(w, r), r # <<>>
  PROVE  /\ Head(r) \in Conn
         /\ QueuesIn(w, Tail(r)) /\ ~SuspendedIn(w, Tail(r), Head(r))
         /\ \A e \in Conn : e # Head(r) => (SuspendedIn(w, Tail(r), e) <=> SuspendedIn(w, r, e))
<1>1. r \in Seq(Conn) /\ IsInjective(r)
  BY DEF QueuesIn
<1>2. Head(r) \in Conn /\ Tail(r) \in Seq(Conn)
  BY <1>1, HeadTailProperties
<1>3. /\ \A x : Contains(r, x) <=> Contains(Tail(r), x) \/ x = Head(r)
      /\ ~Contains(Tail(r), Head(r)) /\ IsInjective(Tail(r))
  BY <1>1, TailFacts
<1> QED BY <1>2, <1>3 DEF QueuesIn, SuspendedIn

-----------------------------------------------------------------------------
(* Deliveries.                                                             *)

\* What Deliver does with its first messages, and with the others.
LEMMA DeliverFacts ==
  ASSUME NEW c \in Conn, NEW M, \A m \in M : m.connection_id \in Conn,
         NEW msgs \in Seq(M), NEW phase, Deliver(c, msgs, phase)
  PROVE  \E last \in 0..Len(msgs) :
           /\ rest' = [rest EXCEPT ![c] = SubSeq(msgs, last + 1, Len(msgs))]
           /\ \/ waiting' = waiting /\ last = Len(msgs)
              \/ /\ \E d \in Conn : waiting' = [waiting EXCEPT ![d] = Append(@, c)]
                 /\ last # 0
           /\ \A d \in Conn :
                IF /\ client[d] = "open" /\ link[d] \in {"open", "slow"}
                   /\ \E i \in 1..last : msgs[i].connection_id = d
                  THEN \E i \in 1..last : /\ msgs[i].connection_id = d
                                          /\ toClient'[d] = Append(toClient[d], msgs[i].body)
                  ELSE toClient'[d] = toClient[d]
           /\ toClient' = [d \in Conn |-> toClient'[d]]
<1> DEFINE stops == {i \in DOMAIN msgs : Stalled(msgs[i])}
           last == IF stops = {} THEN Len(msgs) ELSE Min(stops)
           For(d) == {i \in 1..last : msgs[i].connection_id = d}
           Reached(d) == client[d] = "open" /\ link[d] \in {"open", "slow"}
           Sent(d) == msgs[CHOOSE i \in For(d) : TRUE].body
           Told(d, l) ==
             IF Reached(d) /\ \E i \in 1..l : msgs[i].connection_id = d
               THEN \E i \in 1..l : /\ msgs[i].connection_id = d
                                    /\ toClient'[d] = Append(toClient[d], msgs[i].body)
               ELSE toClient'[d] = toClient[d]
           Goal(l) ==
             /\ rest' = [rest EXCEPT ![c] = SubSeq(msgs, l + 1, Len(msgs))]
             /\ \/ waiting' = waiting /\ l = Len(msgs)
                \/ /\ \E d \in Conn : waiting' = [waiting EXCEPT ![d] = Append(@, c)]
                   /\ l # 0
             /\ \A d \in Conn : Told(d, l)
             /\ toClient' = [d \in Conn |-> toClient'[d]]
<1>1. /\ toClient' = [d \in Conn |-> IF Reached(d) /\ For(d) # {}
                                       THEN Append(toClient[d], Sent(d)) ELSE toClient[d]]
      /\ rest' = [rest EXCEPT ![c] = SubSeq(msgs, last + 1, Len(msgs))]
      /\ waiting' = IF stops = {} THEN waiting
                    ELSE [waiting EXCEPT ![msgs[last].connection_id] = Append(@, c)]
  BY DEF Deliver
<1>2. Len(msgs) \in Nat /\ DOMAIN msgs = 1..Len(msgs) /\ \A i \in 1..Len(msgs) : msgs[i] \in M
  BY LenProperties, ElementOfSeq
<1>3. /\ last \in 0..Len(msgs)
      /\ \/ waiting' = waiting /\ last = Len(msgs)
         \/ /\ \E d \in Conn : waiting' = [waiting EXCEPT ![d] = Append(@, c)]
            /\ last # 0
  <2>1. CASE stops = {}
    BY <1>1, <1>2, <2>1
  <2>2. CASE stops # {}
    <3>1. last \in stops
      BY <1>2, <2>2, MinFacts, stops \subseteq 1..Len(msgs)
    <3>2. last \in 0..Len(msgs) /\ last # 0 /\ msgs[last].connection_id \in Conn
      BY <1>2, <3>1
    <3>3. waiting' = [waiting EXCEPT ![msgs[last].connection_id] = Append(@, c)]
      BY <1>1, <2>2
    <3> HIDE DEF last
    <3> QED BY <3>2, <3>3
  <2> QED BY <2>1, <2>2
<1> HIDE DEF last, stops
<1>4. \A d \in Conn : Told(d, last)
  BY <1>1
<1>5. toClient' = [d \in Conn |-> toClient'[d]]
  BY <1>1
<1>6. Goal(last)
  <2> HIDE DEF Told
  <2> QED BY <1>1, <1>3, <1>4, <1>5
<1>7. \E l \in 0..Len(msgs) : Goal(l)
  <2> HIDE DEF Goal
  <2> QED BY <1>3, <1>6
<1> QED BY <1>7

\* A list of finitely many messages is a sequence of them.
LEMMA ListFacts ==
  ASSUME NEW c, NEW S, IsFiniteSet(S), NEW ord, NEW msgs \in InDictOrder(c, S, ord)
  PROVE  msgs \in Seq(S)
<1>1. Cardinality(S) \in Nat
  BY FS_CardinalityType
<1>2. msgs \in [1..Cardinality(S) -> S]
  BY DEF InDictOrder, SetToSeqs
<1> QED BY <1>1, <1>2, IsASeq

-----------------------------------------------------------------------------
(* What the registry's calls return.                                       *)

\* What a connection may be told: never that its own peer is near.
News(c) ==
  {b \in Body : /\ b.type = "peers" => PeerOf(c) \notin Ids(b.peers)
                /\ b.type = "peer-joined" => b.peer.peer_id # PeerOf(c)}
Mail == {m \in Outbound : m.body \in News(m.connection_id)}

FewRegistered == IsFiniteSet({c \in Conn : Registered(c)})

LEMMA RegisterMail ==
  ASSUME SingleInv, FewRegistered, NEW c \in Conn, NEW info \in PeerInfo,
         Register(c, info)
  PROVE  /\ outbound' \subseteq Mail /\ IsFiniteSet(outbound')
         /\ FewRegistered'
<1> DEFINE now == [Evict(connections, peer_to_conn, info.peer_id) EXCEPT
                     ![c] = [peer_info |-> info, network_group |-> GroupOf[c]]]
           others == GroupPeers(now, GroupOf[c]) \ {c}
           Regd == {d \in Conn : Registered(d)}
<1>1. /\ connections' = now
      /\ outbound' = {To(c, MsgPeers({now[d].peer_info : d \in others}))}
                       \cup {To(d, MsgPeerJoined(info)) : d \in others}
      /\ info.peer_id = PeerOf(c)
  BY PeerOfFacts DEF Register, RegisterFrom
<1>2. outbound' \subseteq Outbound
  BY RegInvNext DEF SingleInv, RegInv, TypeOK, Next
<1>3. \A d \in others : /\ d \in Regd /\ now[d] = connections[d] /\ d # c
                        /\ d # peer_to_conn[PeerOf(c)]
  BY <1>1 DEF GroupPeers, Evict, Registered
<1>4. \A d \in others : /\ PeerIdOf(d) = PeerOf(d)
                        /\ peer_to_conn[PeerIdOf(d)] = d
  BY <1>3, PeerOfFacts DEF SingleInv, RegInv, Attributed, RegisteredIsReachable
<1>5. \A d \in others : PeerOf(d) # PeerOf(c) /\ now[d].peer_info.peer_id = PeerOf(d)
  BY <1>3, <1>4 DEF PeerIdOf
<1>6. MsgPeers({now[d].peer_info : d \in others}).type = "peers"
      /\ MsgPeers({now[d].peer_info : d \in others}).peers = {now[d].peer_info : d \in others}
      /\ MsgPeerJoined(info).type = "peer-joined" /\ MsgPeerJoined(info).peer = info
  BY DEF MsgPeers, MsgPeerJoined
<1>7. PeerOf(c) \notin Ids({now[d].peer_info : d \in others})
  BY <1>5 DEF Ids
<1>8. \A m \in outbound' : m.body \in News(m.connection_id)
  <2>1. ASSUME NEW m \in outbound', m = To(c, MsgPeers({now[d].peer_info : d \in others}))
        PROVE  m.body \in News(m.connection_id)
    <3>1. m.connection_id = c /\ m.body.type = "peers" /\ m.body \in Body
          /\ m.body.peers = {now[d].peer_info : d \in others}
      BY <1>2, <1>6, <2>1 DEF To, Outbound
    <3> HIDE DEF now, others
    <3> QED BY <1>7, <3>1 DEF News
  <2>2. ASSUME NEW m \in outbound', NEW d \in others, m = To(d, MsgPeerJoined(info))
        PROVE  m.body \in News(m.connection_id)
    <3>1. m.connection_id = d /\ m.body.type = "peer-joined" /\ m.body \in Body
          /\ m.body.peer = info
      BY <1>2, <1>6, <2>2 DEF To, Outbound
    <3> QED BY <1>1, <1>5, <3>1 DEF News
  <2> QED BY <1>1, <2>1, <2>2
<1>9. IsFiniteSet(others)
  BY <1>3, FS_Subset DEF FewRegistered
<1>10. IsFiniteSet(outbound')
  <2> DEFINE F(d) == To(d, MsgPeerJoined(info))
  <2>1. IsFiniteSet({F(d) : d \in others})
    <3> DEFINE f == [d \in others |-> F(d)]
    <3>1. f \in Surjection(others, {F(d) : d \in others})
      BY DEF Surjection
    <3> HIDE DEF f, F, others
    <3> QED BY <1>9, <3>1, FS_Surjection
  <2> DEFINE first == To(c, MsgPeers({now[d].peer_info : d \in others}))
  <2>2. IsFiniteSet({F(d) : d \in others} \cup {first})
    BY <2>1, FS_AddElement
  <2>3. outbound' = {F(d) : d \in others} \cup {first}
    BY <1>1
  <2> QED BY <2>2, <2>3
<1>11. FewRegistered'
  <2>1. {d \in Conn : Registered(d)}' \subseteq Regd \cup {c}
    BY <1>1 DEF Evict, Registered
  <2>2. IsFiniteSet(Regd \cup {c})
    BY FS_AddElement DEF FewRegistered
  <2> QED BY <2>1, <2>2, FS_Subset DEF FewRegistered
<1> QED BY <1>2, <1>8, <1>10, <1>11 DEF Mail

LEMMA OtherMail ==
  ASSUME SingleInv, FewRegistered, NEW c \in Conn, NEW t \in RelayedType, NEW to \in Peer,
         \/ Unregister(c) \/ UnregisterUnknown(c) \/ RouteUnregistered(c)
         \/ RouteNotFound(c, to) \/ RouteRelay(c, t, to)
  PROVE  /\ outbound' \subseteq Mail /\ IsFiniteSet(outbound')
         /\ FewRegistered'
<1>1. outbound' \subseteq Outbound
  <2>1. Next
    BY DEF Next, RouteMessage
  <2> QED BY <2>1, RegInvNext DEF SingleInv, RegInv, TypeOK
<1>2. IsFiniteSet(outbound') /\ FewRegistered'
  <2>1. \A x : IsFiniteSet({x})
    BY FS_Singleton
  <2>2. IsFiniteSet({})
    BY FS_EmptySet
  <2>3. CASE UNCHANGED connections
    <3>1. FewRegistered'
      BY <2>3 DEF FewRegistered, Registered
    <3>2. CASE Unregister(c)
      BY <2>3, <3>2 DEF Unregister, Registered, SingleInv, RegInv, TypeOK
    <3>3. CASE ~Unregister(c)
      BY <2>1, <2>2, <3>1, <3>3
         DEF UnregisterUnknown, RouteUnregistered, RouteNotFound, RouteRelay, Refuse
    <3> QED BY <3>1, <3>2, <3>3
  <2>4. CASE Unregister(c)
    <3> DEFINE now == [connections EXCEPT ![c] = None]
               F(d) == To(d, MsgPeerLeft(PeerIdOf(c)))
               told == GroupPeers(now, connections[c].network_group)
    <3>1. connections' = now /\ outbound' = {F(d) : d \in told}
      BY <2>4 DEF Unregister
    <3>2. /\ told \subseteq {d \in Conn : Registered(d)}
          /\ {d \in Conn : Registered(d)}' \subseteq {d \in Conn : Registered(d)}
      BY <3>1 DEF GroupPeers, Registered
    <3>3. IsFiniteSet(told) /\ FewRegistered'
      BY <3>2, FS_Subset DEF FewRegistered
    <3>4. IsFiniteSet({F(d) : d \in told})
      <4> DEFINE f == [d \in told |-> F(d)]
      <4>1. f \in Surjection(told, {F(d) : d \in told})
        BY DEF Surjection
      <4> HIDE DEF f, F, told
      <4> QED BY <3>3, <4>1, FS_Surjection
    <3> QED BY <3>1, <3>3, <3>4
  <2> QED BY <2>3, <2>4
       DEF UnregisterUnknown, RouteUnregistered, RouteNotFound, RouteRelay, Refuse
<1>3. \A m \in outbound' : m.body.type \notin {"peers", "peer-joined"}
  <2>1. /\ \A p : MsgPeerLeft(p).type = "peer-left"
        /\ \A x : MsgError(x).type = "error"
        /\ \A info : MsgRelayed(t, info).type = t
        /\ t \notin {"peers", "peer-joined"}
    BY DEF MsgPeerLeft, MsgError, MsgRelayed, RelayedType
  <2>2. \A d, b : To(d, b).body = b
    BY DEF To
  <2>3. \A m \in outbound' : \/ \E p : m.body = MsgPeerLeft(p)
                             \/ \E x : m.body = MsgError(x)
                             \/ \E info : m.body = MsgRelayed(t, info)
    <3>1. Unregister(c) => \A m \in outbound' : m.body = MsgPeerLeft(PeerIdOf(c))
      BY <2>2 DEF Unregister
    <3>2. UnregisterUnknown(c) => outbound' = {}
      BY DEF UnregisterUnknown
    <3>3. /\ RouteUnregistered(c) => \A m \in outbound' : m.body = MsgError("Not registered")
          /\ RouteNotFound(c, to) => \A m \in outbound' : m.body = MsgError("Peer not found")
      BY <2>2 DEF RouteUnregistered, RouteNotFound, Refuse
    <3>4. RouteRelay(c, t, to) =>
            \A m \in outbound' : m.body = MsgRelayed(t, connections[c].peer_info)
      BY <2>2 DEF RouteRelay
    <3> QED BY <3>1, <3>2, <3>3, <3>4
  <2> QED BY <2>1, <2>3
<1> QED BY <1>1, <1>2, <1>3 DEF Mail, News, Outbound

-----------------------------------------------------------------------------
(* The lists that wait to be sent, and the sockets' queues.                *)

Told(c) == News(c) \cup {MsgError("Missing peerId or displayName")}

RestOK ==
  /\ rest \in [Conn -> Seq(Mail)]
  /\ \A c \in Conn : rest[c] # <<>> => SuspendedIn(waiting, ready, c)

ToldOK ==
  /\ toClient \in [Conn -> Seq(UNION {Told(c) : c \in Conn})]
  /\ \A c \in Conn : toClient[c] \in Seq(Told(c))

QueuesOK == QueuesIn(waiting, ready)

MailOK == QueuesOK /\ RestOK /\ ToldOK

\* A task that nothing holds up delivers a list.
LEMMA DeliverKeeps ==
  ASSUME MailOK, NEW c \in Conn, QueuesIn(waiting, ready'), ~SuspendedIn(waiting, ready', c),
         \A d \in Conn : d # c /\ SuspendedIn(waiting, ready, d) =>
           SuspendedIn(waiting, ready', d),
         NEW M, \A m \in M : m.connection_id \in Conn /\ m.body \in Told(m.connection_id),
         NEW msgs \in Seq(M), msgs \in Seq(Mail) \/ Len(msgs) = 1,
         NEW phase, Deliver(c, msgs, phase)
  PROVE  MailOK'
<1>1. PICK last \in 0..Len(msgs) :
        /\ rest' = [rest EXCEPT ![c] = SubSeq(msgs, last + 1, Len(msgs))]
        /\ \/ waiting' = waiting /\ last = Len(msgs)
           \/ /\ \E d \in Conn : waiting' = [waiting EXCEPT ![d] = Append(@, c)]
              /\ last # 0
        /\ \A d \in Conn :
             IF /\ client[d] = "open" /\ link[d] \in {"open", "slow"}
                /\ \E i \in 1..last : msgs[i].connection_id = d
               THEN \E i \in 1..last : /\ msgs[i].connection_id = d
                                       /\ toClient'[d] = Append(toClient[d], msgs[i].body)
               ELSE toClient'[d] = toClient[d]
        /\ toClient' = [d \in Conn |-> toClient'[d]]
  BY DeliverFacts
<1>2. Len(msgs) \in Nat /\ \A i \in 1..Len(msgs) : msgs[i] \in M
  BY LenProperties, ElementOfSeq
<1> DEFINE Placed == /\ QueuesIn(waiting', ready')
                     /\ \A e \in Conn : SuspendedIn(waiting, ready', e) =>
                                          SuspendedIn(waiting', ready', e)
                     /\ last = Len(msgs) \/ SuspendedIn(waiting', ready', c)
<1>3. Placed
  <2>1. CASE waiting' = waiting /\ last = Len(msgs)
    BY <2>1
  <2>2. ASSUME NEW d \in Conn, waiting' = [waiting EXCEPT ![d] = Append(@, c)]
        PROVE  Placed
    BY <2>2, SuspendFacts
  <2> QED BY <1>1, <2>1, <2>2
<1>4. /\ SubSeq(msgs, last + 1, Len(msgs)) \in Seq(Mail)
      /\ last = Len(msgs) => SubSeq(msgs, last + 1, Len(msgs)) = <<>>
  <2>1. last = Len(msgs) => SubSeq(msgs, last + 1, Len(msgs)) = <<>>
    BY <1>2, SubSeqEmpty
  <2>2. CASE last = Len(msgs)
    BY <2>1, <2>2
  <2>3. CASE last # Len(msgs)
    <3>1. msgs \in Seq(Mail)
      BY <1>1, <1>2, <2>3
    <3>2. \A i \in (last + 1)..Len(msgs) : msgs[i] \in Mail
      BY <1>2, <3>1, ElementOfSeq
    <3> QED BY <1>2, <2>3, <3>2, SubSeqProperties
  <2> QED BY <2>1, <2>2, <2>3
<1>5. RestOK'
  <2>1. rest' \in [Conn -> Seq(Mail)]
    BY <1>1, <1>4 DEF MailOK, RestOK
  <2>2. \A d \in Conn : d # c => rest'[d] = rest[d]
    BY <1>1 DEF MailOK, RestOK
  <2>3. rest'[c] = SubSeq(msgs, last + 1, Len(msgs))
    BY <1>1 DEF MailOK, RestOK
  <2> QED BY <1>3, <1>4, <2>1, <2>2, <2>3 DEF MailOK, RestOK
<1>6. ToldOK'
  <2>1. \A d \in Conn : toClient'[d] \in Seq(Told(d))
    <3> SUFFICES ASSUME NEW d \in Conn PROVE toClient'[d] \in Seq(Told(d))
      OBVIOUS
    <3>1. toClient[d] \in Seq(Told(d))
      BY DEF MailOK, ToldOK
    <3>2. ASSUME NEW i \in 1..last, msgs[i].connection_id = d,
                 toClient'[d] = Append(toClient[d], msgs[i].body)
          PROVE  toClient'[d] \in Seq(Told(d))
      <4>1. msgs[i].body \in Told(d)
        BY <1>2, <3>2
      <4> QED BY <3>1, <3>2, <4>1, AppendProperties
    <3> QED BY <1>1, <3>1, <3>2
  <2>2. \A d \in Conn : toClient'[d] \in Seq(UNION {Told(e) : e \in Conn})
    <3>1. \A d \in Conn : Told(d) \subseteq UNION {Told(e) : e \in Conn}
      OBVIOUS
    <3> QED BY <2>1, <3>1, SeqMonotonic
  <2> QED BY <1>1, <2>1, <2>2 DEF ToldOK
<1> QED BY <1>3, <1>5, <1>6 DEF MailOK, QueuesOK

LEMMA CallDelivered ==
  ASSUME MailOK, NEW c \in Conn, ~Suspended(c), UNCHANGED ready,
         outbound' \subseteq Mail, IsFiniteSet(outbound'),
         NEW ord, NEW msgs \in InDictOrder(c, outbound', ord),
         NEW phase, Deliver(c, msgs, phase)
  PROVE  MailOK'
<1>1. msgs \in Seq(Mail)
  <2>1. msgs \in Seq(outbound')
    BY ListFacts
  <2> QED BY <2>1, SeqMonotonic
<1>2. \A m \in Mail : m.connection_id \in Conn /\ m.body \in Told(m.connection_id)
  BY DEF Mail, Outbound, Told
<1>3. QueuesIn(waiting, ready') /\ ~SuspendedIn(waiting, ready', c)
  BY DEF MailOK, QueuesOK, Suspended, SuspendedIn
<1>4. \A d \in Conn : SuspendedIn(waiting, ready, d) => SuspendedIn(waiting, ready', d)
  OBVIOUS
<1> QED BY <1>1, <1>2, <1>3, <1>4, DeliverKeeps

LEMMA MailNext ==
  ASSUME FramesOK, SingleInv, FewRegistered, MailOK, [LocalNext]_lvars
  PROVE  MailOK' /\ FewRegistered'
<1>1. ASSUME NEW c \in Conn, HandleRegister(c)
      PROVE  MailOK' /\ FewRegistered'
  <2>1. /\ Head(toServer[c]).info \in PeerInfo /\ Register(c, Head(toServer[c]).info)
        /\ ~Suspended(c) /\ UNCHANGED ready
    BY <1>1, FrameFacts DEF HandleRegister, Reads
  <2>2. PICK msgs \in InDictOrder(c, outbound', order') : Deliver(c, msgs, "reading")
    BY <1>1 DEF HandleRegister
  <2>3. outbound' \subseteq Mail /\ IsFiniteSet(outbound') /\ FewRegistered'
    BY <2>1, RegisterMail
  <2> QED BY <2>1, <2>2, <2>3, CallDelivered
<1>2. ASSUME NEW c \in Conn, HandleNameless(c)
      PROVE  MailOK' /\ FewRegistered'
  <2> DEFINE m == To(c, MsgError("Missing peerId or displayName"))
  <2>1. /\ ~Suspended(c) /\ UNCHANGED ready /\ UNCHANGED connections
        /\ Deliver(c, <<m>>, "reading")
    BY <1>2 DEF HandleNameless, Reads, vars
  <2>2. FewRegistered'
    BY <2>1 DEF FewRegistered, Registered
  <2>3. m.connection_id = c /\ m.body \in Told(c)
    BY DEF To, Told
  <2>4. <<m>> \in Seq({m}) /\ Len(<<m>>) = 1
    OBVIOUS
  <2>5. QueuesIn(waiting, ready') /\ ~SuspendedIn(waiting, ready', c)
    BY <2>1 DEF MailOK, QueuesOK, Suspended, SuspendedIn
  <2>6. \A d \in Conn : SuspendedIn(waiting, ready, d) => SuspendedIn(waiting, ready', d)
    BY <2>1
  <2>7. \A x \in {m} : x.connection_id \in Conn /\ x.body \in Told(x.connection_id)
    BY <2>3
  <2> HIDE DEF m
  <2> QED BY <2>1, <2>2, <2>4, <2>5, <2>6, <2>7, DeliverKeeps
<1>3. ASSUME NEW c \in Conn, HandleOther(c)
      PROVE  MailOK' /\ FewRegistered'
  <2> DEFINE msg == Head(toServer[c])
  <2>1. /\ msg.type \in RelayedType /\ msg.to \in Peer
        /\ RouteUnregistered(c) \/ RouteNotFound(c, msg.to) \/ RouteRelay(c, msg.type, msg.to)
        /\ ~Suspended(c) /\ UNCHANGED ready
    BY <1>3, FrameFacts DEF HandleOther, Reads
  <2>2. PICK msgs \in InDictOrder(c, outbound', order) : Deliver(c, msgs, "reading")
    BY <1>3 DEF HandleOther
  <2> HIDE DEF msg
  <2>3. outbound' \subseteq Mail /\ IsFiniteSet(outbound') /\ FewRegistered'
    BY <2>1, OtherMail
  <2> QED BY <2>1, <2>2, <2>3, CallDelivered
<1>4. ASSUME NEW c \in Conn, HandlerEnds(c)
      PROVE  MailOK' /\ FewRegistered'
  <2>1. /\ Unregister(c) \/ UnregisterUnknown(c)
        /\ ~Suspended(c) /\ UNCHANGED ready
    BY <1>4 DEF HandlerEnds
  <2>2. PICK msgs \in InDictOrder(c, outbound', order') : Deliver(c, msgs, "leaving")
    BY <1>4 DEF HandlerEnds
  <2>3. outbound' \subseteq Mail /\ IsFiniteSet(outbound') /\ FewRegistered'
    <3>1. PICK t : t \in RelayedType
      BY DEF RelayedType
    <3>2. PeerOf(c) \in Peer
      BY PeerOfFacts
    <3> QED BY <2>1, <3>1, <3>2, OtherMail
  <2> QED BY <2>1, <2>2, <2>3, CallDelivered
<1>5. ASSUME Resume
      PROVE  MailOK' /\ FewRegistered'
  <2> DEFINE c == Head(ready)
  <2>1. /\ ready # <<>> /\ ready' = Tail(ready) /\ UNCHANGED connections
        /\ Deliver(c, rest[c], serving[c])
    BY <1>5 DEF Resume, vars
  <2>2. FewRegistered'
    BY <2>1 DEF FewRegistered, Registered
  <2>3. /\ c \in Conn /\ QueuesIn(waiting, ready') /\ ~SuspendedIn(waiting, ready', c)
        /\ \A d \in Conn : d # c => (SuspendedIn(waiting, ready', d)
                                       <=> SuspendedIn(waiting, ready, d))
    BY <2>1, ResumeFacts DEF MailOK, QueuesOK
  <2>4. rest[c] \in Seq(Mail)
    BY <2>3 DEF MailOK, RestOK
  <2>5. \A m \in Mail : m.connection_id \in Conn /\ m.body \in Told(m.connection_id)
    BY DEF Mail, Outbound, Told
  <2> HIDE DEF c
  <2> QED BY <2>1, <2>2, <2>3, <2>4, <2>5, DeliverKeeps
<1>6. CASE Network
  <2>1. FewRegistered'
    BY <1>6 DEF Network, Fill, Drain, Closing, Lose, vars, FewRegistered, Registered
  <2>2. ASSUME NEW c \in Conn, Release(c), UNCHANGED <<rest, toClient>>
        PROVE  MailOK'
    <3>1. /\ QueuesIn(waiting', ready')
          /\ \A e \in Conn : SuspendedIn(waiting', ready', e) <=> SuspendedIn(waiting, ready, e)
      BY <2>2, ReleaseFacts DEF Release, MailOK, QueuesOK
    <3> QED BY <2>2, <3>1 DEF MailOK, QueuesOK, RestOK, ToldOK
  <2>3. CASE UNCHANGED <<rest, toClient, waiting, ready>>
    BY <2>1, <2>3 DEF MailOK, QueuesOK, RestOK, ToldOK
  <2>4. ASSUME NEW c \in Conn, Fill(c) \/ Closing(c)
        PROVE  MailOK'
    BY <2>3, <2>4 DEF Fill, Closing
  <2>5. ASSUME NEW c \in Conn, Drain(c) \/ Lose(c)
        PROVE  MailOK'
    BY <2>2, <2>5 DEF Drain, Lose
  <2> QED BY <1>6, <2>1, <2>4, <2>5 DEF Network
<1>7. CASE Browsers
  <2>1. FewRegistered'
    BY <1>7 DEF Browsers, Connect, Leave, Receive, SendRelay, vars, FewRegistered, Registered
  <2>2. ASSUME NEW c \in Conn, NEW q \in Seq(Told(c)), toClient' = [toClient EXCEPT ![c] = q],
               UNCHANGED <<rest, waiting, ready>>
        PROVE  MailOK'
    <3>1. q \in Seq(UNION {Told(d) : d \in Conn})
      BY SeqMonotonic, Told(c) \subseteq UNION {Told(d) : d \in Conn}
    <3>2. ToldOK'
      BY <2>2, <3>1 DEF MailOK, ToldOK
    <3> QED BY <2>2, <3>2 DEF MailOK, QueuesOK, RestOK
  <2>3. ASSUME NEW c \in Conn, Leave(c)
        PROVE  MailOK'
    <3>1. <<>> \in Seq(Told(c))
      OBVIOUS
    <3> QED BY <2>2, <2>3, <3>1 DEF Leave
  <2>4. ASSUME NEW c \in Conn, Receive(c)
        PROVE  MailOK'
    <3>1. toClient[c] # <<>> /\ toClient' = [toClient EXCEPT ![c] = Tail(toClient[c])]
          /\ UNCHANGED <<rest, waiting, ready>>
      BY <2>4 DEF Receive
    <3>2. Tail(toClient[c]) \in Seq(Told(c))
      BY <3>1, HeadTailProperties DEF MailOK, ToldOK
    <3> QED BY <2>2, <3>1, <3>2
  <2>5. CASE UNCHANGED <<rest, toClient, waiting, ready>>
    BY <2>1, <2>5 DEF MailOK, QueuesOK, RestOK, ToldOK
  <2>6. ASSUME NEW c \in Conn, NEW label, Connect(c, label)
        PROVE  MailOK'
    BY <2>5, <2>6 DEF Connect
  <2>7. ASSUME NEW c \in Conn, NEW t, NEW to, SendRelay(c, t, to)
        PROVE  MailOK'
    BY <2>5, <2>7 DEF SendRelay
  <2> QED BY <1>7, <2>1, <2>3, <2>4, <2>6, <2>7 DEF Browsers
<1>8. CASE UNCHANGED lvars
  BY <1>8 DEF lvars, vars, serverVars, MailOK, QueuesOK, RestOK, ToldOK, FewRegistered, Registered
<1> QED BY <1>1, <1>2, <1>3, <1>4, <1>5, <1>6, <1>7, <1>8
        DEF LocalNext, Server, HandleFrame

LEMMA MailInit == LocalInit => MailOK /\ FewRegistered
<1> SUFFICES ASSUME LocalInit PROVE MailOK /\ FewRegistered
  OBVIOUS
<1>1. {c \in Conn : Registered(c)} = {}
  BY DEF LocalInit, Init, Registered
<1>2. FewRegistered
  BY <1>1, FS_EmptySet DEF FewRegistered
<1>3. /\ \A S : <<>> \in Seq(S)
      /\ IsInjective(<<>>) /\ \A x : ~Contains(<<>>, x)
  BY DEF IsInjective, Contains
<1>4. QueuesOK
  BY <1>3 DEF LocalInit, QueuesOK, QueuesIn
<1>5. RestOK /\ ToldOK
  BY <1>3 DEF LocalInit, RestOK, ToldOK
<1> QED BY <1>2, <1>4, <1>5 DEF MailOK

LEMMA MailInvariant == LocalSpec => [](MailOK /\ FewRegistered)
<1>1. FramesOK /\ SingleInv /\ MailOK /\ FewRegistered /\ [LocalNext]_lvars =>
        (MailOK /\ FewRegistered)'
  BY MailNext
<1> QED BY <1>1, MailInit, FramesInvariant, RegistrySingle, PTL DEF LocalSpec

\* Once handle_client has gone through its finally clause, its connection is
\* not registered, and never will be again.
THEOREM RegistrationsEnd == LocalSpec => []NoOrphanedRegistration
<1>1. LocalInit => ServingOK
  BY DEF LocalInit, ServingOK, NoOrphanedRegistration
<1>2. SingleInv /\ FramesOK /\ MailOK /\ ServingOK /\ [LocalNext]_lvars => ServingOK'
  BY ServingNext DEF SingleInv, RegInv, MailOK, QueuesOK, QueuesIn
<1>3. ServingOK => NoOrphanedRegistration
  BY DEF ServingOK
<1> QED BY <1>1, <1>2, <1>3, FramesInvariant, RegistrySingle, MailInvariant, PTL DEF LocalSpec

-----------------------------------------------------------------------------
(* The browsers' lists.                                                    *)

ViewOK == view \in [Conn -> SUBSET PeerInfo] /\ NotNearItself

\* What a message does to a list.
LEMMA ToldFacts ==
  ASSUME NEW c \in Conn, NEW b \in Told(c), NEW near \in SUBSET PeerInfo,
         PeerOf(c) \notin Ids(near)
  PROVE  /\ HandleMessage(near, b) \in SUBSET PeerInfo
         /\ PeerOf(c) \notin Ids(HandleMessage(near, b))
<1>0. b \in News(c) \/ b.type = "error"
  <2>1. b \in News(c) \/ b = MsgError("Missing peerId or displayName")
    BY DEF Told
  <2>2. MsgError("Missing peerId or displayName").type = "error"
    BY DEF MsgError
  <2> QED BY <2>1, <2>2
<1>1. b.type = "peers" => b.peers \in SUBSET PeerInfo /\ PeerOf(c) \notin Ids(b.peers)
  <2> SUFFICES ASSUME b.type = "peers" PROVE b.peers \in SUBSET PeerInfo /\ PeerOf(c) \notin Ids(b.peers)
    OBVIOUS
  <2>1. b \in Body /\ PeerOf(c) \notin Ids(b.peers)
    BY <1>0 DEF News
  <2> QED BY <2>1 DEF Body, RelayedType
<1>2. b.type = "peer-joined" => b.peer \in PeerInfo /\ b.peer.peer_id # PeerOf(c)
  <2> SUFFICES ASSUME b.type = "peer-joined" PROVE b.peer \in PeerInfo /\ b.peer.peer_id # PeerOf(c)
    OBVIOUS
  <2>1. b \in Body /\ b.peer.peer_id # PeerOf(c)
    BY <1>0 DEF News
  <2> QED BY <2>1 DEF Body, RelayedType
<1>3. CASE b.type = "peers"
  BY <1>1, <1>3 DEF HandleMessage
<1>4. CASE b.type = "peer-joined"
  <2>1. HandleMessage(near, b) = HandlePeerJoined(near, b.peer)
    BY <1>4 DEF HandleMessage
  <2>2. HandlePeerJoined(near, b.peer) \subseteq near \cup {b.peer}
    BY DEF HandlePeerJoined
  <2> QED BY <1>2, <1>4, <2>1, <2>2 DEF Ids
<1>5. CASE b.type \notin {"peers", "peer-joined"}
  <2>1. HandleMessage(near, b) \subseteq near
    BY <1>5 DEF HandleMessage, HandlePeerLeft
  <2> QED BY <2>1 DEF Ids
<1> QED BY <1>3, <1>4, <1>5

LEMMA ViewNext ==
  ASSUME ToldOK, ViewOK, [LocalNext]_lvars
  PROVE  ViewOK'
<1>1. ASSUME NEW c \in Conn, Leave(c)
      PROVE  ViewOK'
  BY <1>1 DEF Leave, ViewOK, NotNearItself, Ids
<1>2. ASSUME NEW c \in Conn, Receive(c)
      PROVE  ViewOK'
  <2> DEFINE b == Head(toClient[c])
  <2>1. toClient[c] # <<>> /\ view' = [view EXCEPT ![c] = HandleMessage(view[c], b)]
    BY <1>2 DEF Receive
  <2>2. b \in Told(c)
    BY <2>1, HeadTailProperties DEF ToldOK
  <2>3. view[c] \in SUBSET PeerInfo /\ PeerOf(c) \notin Ids(view[c])
    BY DEF ViewOK, NotNearItself
  <2> HIDE DEF b
  <2>4. /\ HandleMessage(view[c], b) \in SUBSET PeerInfo
        /\ PeerOf(c) \notin Ids(HandleMessage(view[c], b))
    BY <2>2, <2>3, ToldFacts
  <2> QED BY <2>1, <2>4 DEF ViewOK, NotNearItself
<1>3. CASE UNCHANGED view
  BY <1>3 DEF ViewOK, NotNearItself
<1>4. CASE Server
  BY <1>3, <1>4 DEF Server, HandleFrame, HandleRegister, HandleNameless, HandleOther,
                    HandlerEnds, Resume, browserVars
<1>5. CASE Network
  BY <1>3, <1>5 DEF Network, Fill, Drain, Closing, Lose, browserVars
<1>6. CASE Browsers
  BY <1>1, <1>2, <1>3, <1>6 DEF Browsers, Connect, SendRelay
<1>7. CASE UNCHANGED lvars
  BY <1>3, <1>7 DEF lvars, browserVars
<1> QED BY <1>4, <1>5, <1>6, <1>7 DEF LocalNext

LEMMA ViewInvariant == LocalSpec => []ViewOK
<1>1. LocalInit => ViewOK
  BY DEF LocalInit, ViewOK, NotNearItself, Ids
<1>2. MailOK /\ ViewOK /\ [LocalNext]_lvars => ViewOK'
  BY ViewNext DEF MailOK
<1> QED BY <1>1, <1>2, MailInvariant, PTL DEF LocalSpec

\* No browser is ever told that it is near itself: what the server still has to
\* send to any socket, however long it is held up, never names the socket's peer.
THEOREM NeverNearItself == LocalSpec => []NotNearItself
<1>1. ViewOK => NotNearItself
  BY DEF ViewOK
<1> QED BY <1>1, ViewInvariant, PTL

-----------------------------------------------------------------------------
(* The order of the connections dict.                                      *)

\* What LocalTypeOK says of the order.
OrderOK ==
  /\ order \subseteq {c \in Conn : Registered(c)} \X {c \in Conn : Registered(c)}
  /\ \A c, d \in Conn : Registered(c) /\ Registered(d) =>
       (<<c, d>> \in order <=> c # d /\ <<d, c>> \notin order)
  /\ \A c, d, e \in Conn : <<c, d>> \in order /\ <<d, e>> \in order => <<c, e>> \in order

\* A key is put at the end after others were taken out.
LEMMA PutLast ==
  ASSUME OrderOK, NEW c \in Conn, NEW e,
         order' = Without(Without(order, e), c) \cup
                    ({d \in Conn \ {c} : Registered(d)'} \X {c}),
         Registered(c)',
         \A d \in Conn \ {c} : Registered(d)' <=> Registered(d) /\ d # e
  PROVE  OrderOK'
<1>1. \A d, f \in Conn : <<d, f>> \in order => Registered(d) /\ Registered(f)
  BY DEF OrderOK
<1>2. ASSUME NEW d \in Conn, NEW f \in Conn
      PROVE  <<d, f>> \in order' <=>
               \/ <<d, f>> \in order /\ d \notin {c, e} /\ f \notin {c, e}
               \/ d # c /\ Registered(d)' /\ f = c
  BY DEF Without
<1>3. order' \subseteq {d \in Conn : Registered(d)'} \X {d \in Conn : Registered(d)'}
  BY <1>1 DEF Without, OrderOK
<1>4. \A d, f \in Conn : Registered(d)' /\ Registered(f)' =>
        (<<d, f>> \in order' <=> d # f /\ <<f, d>> \notin order')
  BY <1>1, <1>2 DEF OrderOK
<1>5. \A d, f, g \in Conn : <<d, f>> \in order' /\ <<f, g>> \in order' => <<d, g>> \in order'
  BY <1>1, <1>2 DEF OrderOK
<1> QED BY <1>3, <1>4, <1>5 DEF OrderOK

LEMMA TakeOut ==
  ASSUME OrderOK, NEW c \in Conn, order' = Without(order, c),
         \A d \in Conn : Registered(d)' <=> Registered(d) /\ d # c
  PROVE  OrderOK'
<1>1. ASSUME NEW d \in Conn, NEW f \in Conn
      PROVE  <<d, f>> \in order' <=> <<d, f>> \in order /\ d # c /\ f # c
  BY DEF Without
<1>2. order' \subseteq {d \in Conn : Registered(d)'} \X {d \in Conn : Registered(d)'}
  BY DEF Without, OrderOK
<1> QED BY <1>1, <1>2 DEF OrderOK

LEMMA OrderNext ==
  ASSUME TypeOK, FramesOK, OrderOK, [LocalNext]_lvars
  PROVE  OrderOK'
<1>1. CASE UNCHANGED <<order, connections>>
  BY <1>1 DEF OrderOK, Registered
<1>2. ASSUME NEW c \in Conn, HandleRegister(c)
      PROVE  OrderOK'
  <2> DEFINE info == Head(toServer[c]).info
             e == peer_to_conn[info.peer_id]
  <2>1. info \in PeerInfo /\ Register(c, info)
        /\ order' = Without(Without(order, e), c) \cup
                      ({d \in Conn \ {c} : Registered(d)'} \X {c})
    BY <1>2, FrameFacts DEF HandleRegister, Reads
  <2> HIDE DEF info
  <2>2. connections' = [Evict(connections, peer_to_conn, info.peer_id) EXCEPT
                          ![c] = [peer_info |-> info, network_group |-> GroupOf[c]]]
    BY <2>1 DEF Register, RegisterFrom
  <2>3. [peer_info |-> info, network_group |-> GroupOf[c]] # None
    BY <2>1, GroupOfAssumption, NoneAssumption DEF ConnectedPeer
  <2>4. Registered(c)' /\ \A d \in Conn \ {c} : Registered(d)' <=> Registered(d) /\ d # e
    BY <2>2, <2>3 DEF Evict, Registered
  <2> HIDE DEF e
  <2> QED BY <2>1, <2>4, PutLast
<1>3. ASSUME NEW c \in Conn, HandlerEnds(c)
      PROVE  OrderOK'
  <2>1. \A d \in Conn : Registered(d)' <=> Registered(d) /\ d # c
    BY <1>3 DEF HandlerEnds, Unregister, UnregisterUnknown, Registered, TypeOK
  <2> QED BY <1>3, <2>1, TakeOut DEF HandlerEnds
<1>4. ASSUME NEW c \in Conn, HandleNameless(c) \/ HandleOther(c)
      PROVE  OrderOK'
  BY <1>1, <1>4 DEF HandleNameless, HandleOther, RouteUnregistered, RouteNotFound,
                    RouteRelay, Refuse, vars
<1>5. CASE Resume
  BY <1>1, <1>5 DEF Resume, vars
<1>6. CASE Network
  BY <1>1, <1>6 DEF Network, Fill, Drain, Closing, Lose, vars
<1>7. CASE Browsers
  BY <1>1, <1>7 DEF Browsers, Connect, Leave, Receive, SendRelay, vars
<1>8. CASE UNCHANGED lvars
  BY <1>1, <1>8 DEF lvars, vars, serverVars
<1> QED BY <1>2, <1>3, <1>4, <1>5, <1>6, <1>7, <1>8 DEF LocalNext, Server, HandleFrame

\* The two ends of a socket.
EndsOK ==
  /\ client \in [Conn -> {"none", "open", "gone"}]
  /\ link \in [Conn -> {"none", "open", "slow", "closing", "closed"}]

LEMMA EndsNext == EndsOK /\ [LocalNext]_lvars => EndsOK'
<1> SUFFICES ASSUME EndsOK, [LocalNext]_lvars PROVE EndsOK'
  OBVIOUS
<1>1. CASE UNCHANGED <<client, link>>
  BY <1>1 DEF EndsOK
<1>2. CASE Server
  BY <1>1, <1>2 DEF Server, HandleFrame, HandleRegister, HandleNameless, HandleOther,
                    HandlerEnds, Resume, browserVars
<1>3. CASE Network
  BY <1>3 DEF Network, Fill, Drain, Closing, Lose, browserVars, EndsOK
<1>4. ASSUME NEW c \in Conn, NEW label, Connect(c, label)
      PROVE  EndsOK'
  BY <1>4 DEF Connect, EndsOK
<1>5. ASSUME NEW c \in Conn, Leave(c)
      PROVE  EndsOK'
  BY <1>5 DEF Leave, EndsOK
<1>6. ASSUME NEW c \in Conn, Receive(c)
      PROVE  EndsOK'
  BY <1>1, <1>6 DEF Receive
<1>7. ASSUME NEW c \in Conn, NEW t, NEW to, SendRelay(c, t, to)
      PROVE  EndsOK'
  BY <1>1, <1>7 DEF SendRelay
<1>8. CASE Browsers
  BY <1>4, <1>5, <1>6, <1>7, <1>8 DEF Browsers
<1>9. CASE UNCHANGED lvars
  BY <1>1, <1>9 DEF lvars, serverVars, browserVars
<1> QED BY <1>2, <1>3, <1>8, <1>9 DEF LocalNext

\* The server's variables have their types, the connections dict is in one
\* order, and a task that deliver suspended waits in one place.
THEOREM ServerTypeCorrect == LocalSpec => []LocalTypeOK
<1>1. LocalInit => OrderOK /\ EndsOK
  BY DEF LocalInit, Init, OrderOK, EndsOK, Registered
<1>2. SingleInv /\ FramesOK /\ OrderOK /\ EndsOK /\ [LocalNext]_lvars => OrderOK' /\ EndsOK'
  BY OrderNext, EndsNext DEF SingleInv, RegInv
<1>3. LocalInit => ServingOK
  BY DEF LocalInit, ServingOK, NoOrphanedRegistration
<1>4. SingleInv /\ FramesOK /\ MailOK /\ ServingOK /\ [LocalNext]_lvars => ServingOK'
  BY ServingNext DEF SingleInv, RegInv, MailOK, QueuesOK, QueuesIn
<1>5. SingleInv /\ OrderOK /\ EndsOK /\ ServingOK /\ ViewOK /\ MailOK => LocalTypeOK
  <2> SUFFICES ASSUME SingleInv, OrderOK, EndsOK, ServingOK, ViewOK, MailOK
               PROVE  LocalTypeOK
    OBVIOUS
  <2>1. \A c \in Conn : ToSet(rest[c]) \subseteq Outbound
    <3> SUFFICES ASSUME NEW c \in Conn PROVE ToSet(rest[c]) \subseteq Outbound
      OBVIOUS
    <3>1. rest[c] \in Seq(Mail) /\ Mail \subseteq Outbound
      BY DEF MailOK, RestOK, Mail
    <3>2. DOMAIN rest[c] = 1..Len(rest[c]) /\ \A i \in 1..Len(rest[c]) : rest[c][i] \in Mail
      BY <3>1, LenProperties, ElementOfSeq
    <3> QED BY <3>1, <3>2 DEF ToSet
  <2>2. \A c \in Conn : rest[c] # <<>> => Suspended(c)
    BY DEF MailOK, RestOK, Suspended, SuspendedIn
  <2>3. /\ \A c, d \in Conn : Contains(waiting[d], c) =>
             /\ ~Contains(ready, c)
             /\ \A e \in Conn : Contains(waiting[e], c) => d = e
        /\ IsInjective(ready) /\ \A d \in Conn : IsInjective(waiting[d])
    BY DEF MailOK, QueuesOK, QueuesIn
  <2> QED BY <2>1, <2>2, <2>3
       DEF LocalTypeOK, SingleInv, RegInv, OrderOK, EndsOK, ServingOK, ViewOK
<1> QED BY <1>1, <1>2, <1>3, <1>4, <1>5, FramesInvariant, RegistrySingle, MailInvariant,
           ViewInvariant, PTL DEF LocalSpec

-----------------------------------------------------------------------------
(* Everybody sees each other.                                              *)

\* No browser comes back on another connection: local_ghost shows what happens
\* to one that does while the server still sends to its first one.
OneConnectionEach == \A c, d \in Conn : PeerOf(c) = PeerOf(d) => c = d

\* The frames of a browser start with its register, which is read once.
OpensOnce ==
  \A c \in Conn :
    /\ \A i \in DOMAIN toServer[c] : toServer[c][i].type = "register" =>
         i = 1 /\ ~Registered(c) /\ toServer[c][i].info.label # None
    /\ client[c] = "open" /\ serving[c] = "reading" /\ ~Registered(c) =>
         toServer[c] # <<>> /\ toServer[c][1].type = "register"

\* A socket has a handler from the start, which reads as long as it is open.
Attended ==
  \A c \in Conn :
    /\ client[c] = "none" <=> serving[c] = "none"
    /\ client[c] = "none" => link[c] = "none" /\ toServer[c] = <<>>
    /\ link[c] \in {"open", "slow"} => serving[c] = "reading"
    /\ Registered(c) => serving[c] = "reading"

\* What a suspended task still has to send is news of its own connection, to
\* others, once to each.
HeldOwn ==
  \A a \in Conn :
    /\ \A i, j \in DOMAIN rest[a] :
         rest[a][i].connection_id = rest[a][j].connection_id => i = j
    /\ \A i \in DOMAIN rest[a] :
         /\ rest[a][i].connection_id # a
         /\ \/ /\ serving[a] = "reading" /\ Registered(a)
               /\ rest[a][i].body.type = "peer-joined"
               /\ rest[a][i].body.peer.peer_id = PeerOf(a)
            \/ /\ serving[a] = "leaving" /\ ~Registered(a)
               /\ rest[a][i].body.type = "peer-left"
               /\ rest[a][i].body.peerId = PeerOf(a)

\* A message that says whether p is near, and one that says it is.
Decides(b, p) ==
  \/ b.type = "peers"
  \/ b.type = "peer-joined" /\ b.peer.peer_id = p
  \/ b.type = "peer-left" /\ b.peerId = p

Says(b, p) == b.type = "peer-joined" \/ (b.type = "peers" /\ p \in Ids(b.peers))

\* Whether p is near once the browser has read the messages q: the last one
\* that decides it counts.
Shows(near, q, p) ==
  \/ p \in Ids(near) /\ \A i \in DOMAIN q : ~Decides(q[i], p)
  \/ \E i \in DOMAIN q :
       Decides(q[i], p) /\ Says(q[i], p) /\ \A j \in DOMAIN q : i < j => ~Decides(q[j], p)

Held(a, c) == \E i \in DOMAIN rest[a] : rest[a][i].connection_id = c

\* c is registered and can be told.
Listens(c) == client[c] = "open" /\ link[c] \in {"open", "slow"} /\ Registered(c)

\* Whoever listens shows, or has still to read, who is registered, unless the
\* news is held up; and nobody else.
ListsFollow ==
  \A c \in Conn :
    Listens(c) =>
      /\ \A a \in Conn : a # c /\ ~Held(a, c) =>
           (Shows(view[c], toClient[c], PeerOf(a)) <=> Registered(a))
      /\ \A p \in Peer : (\A a \in Conn : p # PeerOf(a)) => ~Shows(view[c], toClient[c], p)

SeeInv == OpensOnce /\ Attended /\ HeldOwn /\ ListsFollow

\* What is appended decides, if it can.
LEMMA ShowsAppend ==
  ASSUME NEW S, NEW q \in Seq(S), NEW b \in S, NEW near, NEW p
  PROVE  /\ Decides(b, p) => (Shows(near, Append(q, b), p) <=> Says(b, p))
         /\ ~Decides(b, p) => (Shows(near, Append(q, b), p) <=> Shows(near, q, p))
<1> DEFINE n == Len(q)
           r == Append(q, b)
           D(i) == Decides(r[i], p)
           Y(i) == Says(r[i], p)
<1>1. /\ n \in Nat /\ DOMAIN q = 1..n /\ DOMAIN r = 1..(n + 1)
      /\ \A i \in 1..n : r[i] = q[i]
      /\ r[n + 1] = b
  BY AppendProperties, LenProperties
<1>2. Shows(near, q, p) <=> \/ p \in Ids(near) /\ \A i \in 1..n : ~D(i)
                            \/ \E i \in 1..n : D(i) /\ Y(i) /\ \A j \in 1..n : i < j => ~D(j)
  BY <1>1 DEF Shows
<1>3. Shows(near, r, p) <=> \/ p \in Ids(near) /\ \A i \in 1..(n + 1) : ~D(i)
                            \/ \E i \in 1..(n + 1) :
                                 D(i) /\ Y(i) /\ \A j \in 1..(n + 1) : i < j => ~D(j)
  BY <1>1 DEF Shows
<1>4. (D(n + 1) <=> Decides(b, p)) /\ (Y(n + 1) <=> Says(b, p))
  BY <1>1
<1> HIDE DEF D, Y, r, n
<1>5. /\ 1..(n + 1) = (1..n) \cup {n + 1} /\ n + 1 \notin 1..n
      /\ \A i \in 1..n : i < n + 1 /\ ~(n + 1 < i)
      /\ ~(n + 1 < n + 1)
  BY <1>1
<1>6. CASE D(n + 1)
  BY <1>3, <1>4, <1>5, <1>6 DEF r
<1>7. CASE ~D(n + 1)
  <2>1. (\A i \in 1..(n + 1) : ~D(i)) <=> (\A i \in 1..n : ~D(i))
    BY <1>5, <1>7
  <2>2. \A i : (\A j \in 1..(n + 1) : i < j => ~D(j)) <=> (\A j \in 1..n : i < j => ~D(j))
    BY <1>5, <1>7
  <2> QED BY <1>2, <1>3, <1>4, <1>5, <1>7, <2>1, <2>2 DEF r
<1> QED BY <1>6, <1>7

\* Reading a message changes nothing.
LEMMA ShowsTail ==
  ASSUME NEW S, NEW q \in Seq(S), q # <<>>, NEW near, NEW p
  PROVE  Shows(HandleMessage(near, Head(q)), Tail(q), p) <=> Shows(near, q, p)
<1> DEFINE n == Len(q)
           b == Head(q)
           r == Tail(q)
           D(i) == Decides(q[i], p)
           Y(i) == Says(q[i], p)
<1>1. /\ n \in Nat \ {0} /\ DOMAIN q = 1..n /\ DOMAIN r = 1..(n - 1)
      /\ \A i \in 1..(n - 1) : r[i] = q[i + 1]
      /\ b = q[1]
  BY HeadTailProperties, LenProperties, EmptySeq
<1>2. p \in Ids(HandleMessage(near, b)) <=> IF Decides(b, p) THEN Says(b, p) ELSE p \in Ids(near)
  BY DEF HandleMessage, HandlePeerJoined, HandlePeerLeft, Decides, Says, Ids
<1>3. Shows(near, q, p) <=> \/ p \in Ids(near) /\ \A i \in 1..n : ~D(i)
                            \/ \E i \in 1..n : D(i) /\ Y(i) /\ \A j \in 1..n : i < j => ~D(j)
  BY <1>1 DEF Shows
<1>4. Shows(HandleMessage(near, b), r, p) <=>
        \/ p \in Ids(HandleMessage(near, b)) /\ \A i \in 1..(n - 1) : ~D(i + 1)
        \/ \E i \in 1..(n - 1) :
             D(i + 1) /\ Y(i + 1) /\ \A j \in 1..(n - 1) : i < j => ~D(j + 1)
  BY <1>1 DEF Shows
<1>5. (D(1) <=> Decides(b, p)) /\ (Y(1) <=> Says(b, p))
  BY <1>1
<1> HIDE DEF D, Y, r, n, b
<1>6. /\ 1 \in 1..n
      /\ \A i \in 1..n : i = 1 \/ (i - 1 \in 1..(n - 1) /\ (i - 1) + 1 = i /\ 1 < i)
      /\ \A i \in 1..(n - 1) : i + 1 \in 1..n /\ 1 < i + 1
      /\ \A i, j \in 1..(n - 1) : i < j <=> i + 1 < j + 1
  BY <1>1
<1>7. (\A i \in 1..n : ~D(i)) <=> ~D(1) /\ (\A i \in 1..(n - 1) : ~D(i + 1))
  BY <1>6
<1>8. (\A j \in 1..n : 1 < j => ~D(j)) <=> (\A i \in 1..(n - 1) : ~D(i + 1))
  <2>1. ~(1 < 1)
    OBVIOUS
  <2> QED BY <1>6, <2>1
<1>9. \A i \in 1..(n - 1) : (\A j \in 1..n : i + 1 < j => ~D(j))
                              <=> (\A j \in 1..(n - 1) : i < j => ~D(j + 1))
  <2> SUFFICES ASSUME NEW i \in 1..(n - 1)
               PROVE  (\A j \in 1..n : i + 1 < j => ~D(j))
                        <=> (\A j \in 1..(n - 1) : i < j => ~D(j + 1))
    OBVIOUS
  <2>1. ~(i + 1 < 1)
    BY <1>1
  <2> QED BY <1>6, <2>1
<1>10. (\E i \in 1..n : D(i) /\ Y(i) /\ \A j \in 1..n : i < j => ~D(j)) <=>
         \/ D(1) /\ Y(1) /\ \A j \in 1..n : 1 < j => ~D(j)
         \/ \E i \in 1..(n - 1) : D(i + 1) /\ Y(i + 1) /\ \A j \in 1..n : i + 1 < j => ~D(j)
  <2> DEFINE L(i) == D(i) /\ Y(i) /\ \A j \in 1..n : i < j => ~D(j)
  <2> HIDE DEF L
  <2>1. (\E i \in 1..n : L(i)) <=> L(1) \/ \E i \in 1..(n - 1) : L(i + 1)
    BY <1>6
  <2> QED BY <2>1 DEF L
<1>11. (\E i \in 1..(n - 1) : D(i + 1) /\ Y(i + 1) /\ \A j \in 1..n : i + 1 < j => ~D(j)) <=>
         (\E i \in 1..(n - 1) :
            D(i + 1) /\ Y(i + 1) /\ \A j \in 1..(n - 1) : i < j => ~D(j + 1))
  BY <1>9
<1> DEFINE None1 == \A i \in 1..(n - 1) : ~D(i + 1)
           Some1 == \E i \in 1..(n - 1) :
                      D(i + 1) /\ Y(i + 1) /\ \A j \in 1..(n - 1) : i < j => ~D(j + 1)
<1>12. Shows(near, q, p) <=> \/ p \in Ids(near) /\ ~D(1) /\ None1
                             \/ D(1) /\ Y(1) /\ None1
                             \/ Some1
  BY <1>3, <1>7, <1>8, <1>10, <1>11
<1>13. Shows(HandleMessage(near, b), r, p) <=>
         \/ p \in Ids(HandleMessage(near, b)) /\ None1
         \/ Some1
  BY <1>4
<1> HIDE DEF None1, Some1
<1> QED BY <1>2, <1>5, <1>12, <1>13 DEF b, r

LEMMA FirstIsLeast == \A n \in Nat : \A i \in 1..n : 1 \in 1..n /\ (i # 1 => 1 < i)
OBVIOUS

\* A list has every message of the call, the caller's first.
LEMMA ListCovers ==
  ASSUME NEW c, NEW S, IsFiniteSet(S), NEW ord, NEW msgs \in InDictOrder(c, S, ord),
         \A m, n \in S : m.connection_id = n.connection_id => m = n
  PROVE  /\ msgs \in Seq(S) /\ DOMAIN msgs = 1..Len(msgs) /\ Len(msgs) \in Nat
         /\ \A i \in DOMAIN msgs : msgs[i] \in S
         /\ \A m \in S : \E i \in DOMAIN msgs : msgs[i] = m
         /\ \A i, j \in DOMAIN msgs : msgs[i].connection_id = msgs[j].connection_id => i = j
         /\ \A i \in DOMAIN msgs : msgs[i].connection_id = c => i = 1
<1> DEFINE n == Cardinality(S)
<1>1. n \in Nat
  BY FS_CardinalityType
<1>2. /\ msgs \in [1..n -> S] /\ \A i, j \in 1..n : i # j => msgs[i] # msgs[j]
      /\ \A i, j \in DOMAIN msgs : i < j => msgs[j].connection_id # c
  BY DEF InDictOrder, SetToSeqs
<1>3. msgs \in Seq(S) /\ Len(msgs) = n /\ DOMAIN msgs = 1..n
  <2>1. msgs \in Seq(S)
    BY ListFacts
  <2> QED BY <1>1, <1>2, <2>1, LenProperties
<1>4. msgs \in Surjection(1..n, S)
  <2>1. msgs \in Injection(1..n, S)
    BY <1>2 DEF Injection, IsInjective
  <2>2. IsFiniteSet(1..n) /\ Cardinality(1..n) = n
    BY <1>1, FS_Interval
  <2> HIDE DEF n
  <2> QED BY <2>1, <2>2, FS_Injection DEF n
<1>5. \A m \in S : \E i \in 1..n : msgs[i] = m
  BY <1>4 DEF Surjection
<1>6. \A i, j \in 1..n : msgs[i].connection_id = msgs[j].connection_id => i = j
  BY <1>2
<1>7. \A i \in 1..n : msgs[i].connection_id = c => i = 1
  <2> HIDE DEF n
  <2> SUFFICES ASSUME NEW i \in 1..n, i # 1 PROVE msgs[i].connection_id # c
    OBVIOUS
  <2>1. 1 \in 1..n /\ 1 < i
    BY <1>1, FirstIsLeast, Zenon
  <2> QED BY <1>2, <1>3, <2>1
<1> QED BY <1>1, <1>2, <1>3, <1>5, <1>6, <1>7

\* d's socket takes what is sent to it, and its browser reads it.
Hears(d) == client[d] = "open" /\ link[d] \in {"open", "slow"}

LEMMA RestOfList ==
  ASSUME NEW M, NEW q \in Seq(M), NEW last \in 0..Len(q)
  PROVE  LET left == SubSeq(q, last + 1, Len(q))
         IN  /\ DOMAIN left = 1..(Len(q) - last)
             /\ \A i \in 1..(Len(q) - last) : left[i] = q[last + i]
<1> DEFINE n == Len(q)
           left == SubSeq(q, last + 1, n)
<1>1. n \in Nat
  BY LenProperties
<1>2. \A i \in 1..n : q[i] \in M
  BY ElementOfSeq
<1>3. \A i \in (last + 1)..n : i \in 1..n
  BY <1>1
<1>4. \A i \in (last + 1)..n : q[i] \in M
  BY <1>2, <1>3
<1>5. /\ left \in Seq(M)
      /\ Len(left) = IF last + 1 <= n THEN n - (last + 1) + 1 ELSE 0
      /\ \A i \in 1..(n - (last + 1) + 1) : left[i] = q[(last + 1) + i - 1]
  BY <1>1, <1>4, SubSeqProperties
<1>6. DOMAIN left = 1..Len(left)
  BY <1>5, LenProperties
<1> HIDE DEF left, n
<1>7. Len(left) = n - last /\ n - (last + 1) + 1 = n - last
  BY <1>1, <1>5 DEF n
<1>8. \A i \in 1..(n - last) : (last + 1) + i - 1 = last + i
  BY <1>1
<1> QED BY <1>5, <1>6, <1>7, <1>8 DEF left, n

\* What Deliver does with one message for each of its receivers.
LEMMA DeliverOnce ==
  ASSUME rest \in [Conn -> Seq(Mail)], toClient \in [Conn -> Seq(UNION {Told(c) : c \in Conn})],
         NEW c \in Conn, NEW M, \A m \in M : m.connection_id \in Conn, NEW msgs \in Seq(M),
         \A i, j \in DOMAIN msgs : msgs[i].connection_id = msgs[j].connection_id => i = j,
         NEW phase, Deliver(c, msgs, phase)
  PROVE  /\ \A a \in Conn : a # c => rest'[a] = rest[a]
         /\ \A i \in DOMAIN rest'[c] : \E j \in DOMAIN msgs : j # 1 /\ rest'[c][i] = msgs[j]
         /\ \A i, j \in DOMAIN rest'[c] :
              rest'[c][i].connection_id = rest'[c][j].connection_id => i = j
         /\ \A d \in Conn :
              \/ /\ toClient'[d] = toClient[d]
                 /\ Hears(d) /\ (\E j \in DOMAIN msgs : msgs[j].connection_id = d) =>
                      Held(c, d)' /\ msgs[1].connection_id # d
              \/ \E j \in DOMAIN msgs : /\ msgs[j].connection_id = d
                                        /\ toClient'[d] = Append(toClient[d], msgs[j].body)
<1>1. PICK last \in 0..Len(msgs) :
        /\ rest' = [rest EXCEPT ![c] = SubSeq(msgs, last + 1, Len(msgs))]
        /\ \/ waiting' = waiting /\ last = Len(msgs)
           \/ /\ \E d \in Conn : waiting' = [waiting EXCEPT ![d] = Append(@, c)]
              /\ last # 0
        /\ \A d \in Conn :
             IF /\ client[d] = "open" /\ link[d] \in {"open", "slow"}
                /\ \E i \in 1..last : msgs[i].connection_id = d
               THEN \E i \in 1..last : /\ msgs[i].connection_id = d
                                       /\ toClient'[d] = Append(toClient[d], msgs[i].body)
               ELSE toClient'[d] = toClient[d]
        /\ toClient' = [d \in Conn |-> toClient'[d]]
  BY DeliverFacts
<1> DEFINE n == Len(msgs)
           left == SubSeq(msgs, last + 1, n)
<1>2. /\ n \in Nat /\ DOMAIN msgs = 1..n /\ last \in 0..n /\ (n # 0 => last # 0)
      /\ rest'[c] = left /\ \A a \in Conn : a # c => rest'[a] = rest[a]
  BY <1>1, LenProperties
<1>3. DOMAIN left = 1..(n - last) /\ \A i \in 1..(n - last) : left[i] = msgs[last + i]
  BY <1>2, RestOfList
<1> HIDE DEF left, n
<1>4. /\ \A i \in 1..(n - last) : last + i \in 1..n
      /\ \A i, j \in 1..(n - last) : last + i = last + j => i = j
  BY <1>2
<1>5. \A j \in 1..n : j \in 1..last \/ (j - last \in 1..(n - last) /\ last + (j - last) = j)
  BY <1>2
<1>6. /\ 1..last \subseteq 1..n
      /\ n # 0 => 1 \in 1..last
      /\ \A i \in 1..(n - last) : n # 0 /\ last + i # 1
  BY <1>2
<1>7. \A i \in DOMAIN rest'[c] : \E j \in DOMAIN msgs : j # 1 /\ rest'[c][i] = msgs[j]
  <2> SUFFICES ASSUME NEW i \in 1..(n - last)
               PROVE  \E j \in 1..n : j # 1 /\ left[i] = msgs[j]
    BY <1>2, <1>3
  <2>1. last + i \in 1..n /\ last + i # 1 /\ left[i] = msgs[last + i]
    <3>1. 1..(n - last) # {} => n # 0
      BY <1>2
    <3> QED BY <1>3, <1>4, <1>6, <3>1
  <2> QED BY <2>1
<1>8. \A i, j \in DOMAIN rest'[c] :
        rest'[c][i].connection_id = rest'[c][j].connection_id => i = j
  <2>1. \A i, j \in 1..(n - last) : left[i].connection_id = left[j].connection_id => i = j
    <3> SUFFICES ASSUME NEW i \in 1..(n - last), NEW j \in 1..(n - last),
                        left[i].connection_id = left[j].connection_id
                 PROVE  i = j
      OBVIOUS
    <3>1. msgs[last + i].connection_id = msgs[last + j].connection_id
      BY <1>3
    <3>2. last + i \in DOMAIN msgs /\ last + j \in DOMAIN msgs
      BY <1>2, <1>4
    <3> QED BY <1>4, <3>1, <3>2
  <2> QED BY <1>2, <1>3, <2>1
<1>9. ASSUME NEW d \in Conn
      PROVE  \/ /\ toClient'[d] = toClient[d]
                /\ Hears(d) /\ (\E j \in DOMAIN msgs : msgs[j].connection_id = d) =>
                     Held(c, d)' /\ msgs[1].connection_id # d
             \/ \E j \in DOMAIN msgs : /\ msgs[j].connection_id = d
                                       /\ toClient'[d] = Append(toClient[d], msgs[j].body)
  <2>1. CASE Hears(d) /\ \E i \in 1..last : msgs[i].connection_id = d
    BY <1>1, <1>2, <1>6, <2>1 DEF Hears
  <2>2. CASE ~(Hears(d) /\ \E i \in 1..last : msgs[i].connection_id = d)
    <3>1. toClient'[d] = toClient[d]
      BY <1>1, <2>2 DEF Hears
    <3>2. ASSUME Hears(d), NEW j \in DOMAIN msgs, msgs[j].connection_id = d
          PROVE  Held(c, d)' /\ msgs[1].connection_id # d
      <4>1. j \notin 1..last
        BY <2>2, <3>2
      <4>2. j - last \in 1..(n - last) /\ rest'[c][j - last] = msgs[j] /\ n # 0
        BY <1>2, <1>3, <1>5, <1>6, <3>2, <4>1
      <4>3. Held(c, d)'
        BY <1>2, <1>3, <3>2, <4>2 DEF Held
      <4> QED BY <1>6, <2>2, <3>2, <4>2, <4>3
    <3> QED BY <3>1, <3>2
  <2> QED BY <2>1, <2>2
<1> QED BY <1>2, <1>7, <1>8, <1>9

\* The handler's phase after its sends.
LEMMA DeliverPhase ==
  ASSUME ServingOK, NEW c \in Conn, NEW M, NEW msgs \in Seq(M), NEW phase, Deliver(c, msgs, phase),
         rest \in [Conn -> Seq(Mail)]
  PROVE  rest'[c] # <<>> => serving'[c] = phase
<1> DEFINE stops == {i \in DOMAIN msgs : Stalled(msgs[i])}
<1>1. /\ serving'[c] = IF phase = "leaving" /\ stops = {} THEN "done" ELSE phase
      /\ stops = {} => rest'[c] = SubSeq(msgs, Len(msgs) + 1, Len(msgs))
  BY DEF Deliver, ServingOK
<1>2. SubSeq(msgs, Len(msgs) + 1, Len(msgs)) = <<>>
  <2>1. Len(msgs) \in Nat
    BY LenProperties
  <2> QED BY <2>1, SubSeqEmpty
<1> HIDE DEF stops
<1> QED BY <1>1, <1>2

\* A message of a call or of a list tells others of its own connection only.
TellsOf(c, msgs) ==
  \A j \in DOMAIN msgs : msgs[j].connection_id # c =>
    \A p \in Peer : Decides(msgs[j].body, p) =>
      p = PeerOf(c) /\ (Says(msgs[j].body, p) <=> Registered(c)')

\* Task c sends msgs, of which it owes one to all who list c wrongly.
LEMMA TaskSends ==
  ASSUME OneConnectionEach, MailOK, ListsFollow,
         NEW c \in Conn, NEW M, \A m \in M : m.connection_id \in Conn /\ m.body \in Told(m.connection_id),
         NEW msgs \in Seq(M),
         \A i, j \in DOMAIN msgs : msgs[i].connection_id = msgs[j].connection_id => i = j,
         NEW phase, Deliver(c, msgs, phase),
         UNCHANGED <<view, client, link>>,
         \A a \in Conn : a # c => (Registered(a)' <=> Registered(a)),
         TellsOf(c, msgs),
         \A d \in Conn : d # c /\ Listens(d) =>
           \/ \E j \in DOMAIN msgs : /\ msgs[j].connection_id = d
                                     /\ Decides(msgs[j].body, PeerOf(c))
           \/ ~Held(c, d) /\ (Registered(c)' <=> Registered(c)),
         Listens(c)' =>
           /\ \A a \in Conn : a # c /\ ~Held(a, c)' =>
                (Shows(view[c], toClient'[c], PeerOf(a)) <=> Registered(a))
           /\ \A p \in Peer : (\A a \in Conn : p # PeerOf(a)) => ~Shows(view[c], toClient'[c], p)
  PROVE  ListsFollow'
<1>1. /\ \A a \in Conn : a # c => rest'[a] = rest[a]
      /\ \A d \in Conn :
           \/ /\ toClient'[d] = toClient[d]
              /\ Hears(d) /\ (\E j \in DOMAIN msgs : msgs[j].connection_id = d) =>
                   Held(c, d)' /\ msgs[1].connection_id # d
           \/ \E j \in DOMAIN msgs : /\ msgs[j].connection_id = d
                                     /\ toClient'[d] = Append(toClient[d], msgs[j].body)
  <2>1. /\ rest \in [Conn -> Seq(Mail)] /\ toClient \in [Conn -> Seq(UNION {Told(a) : a \in Conn})]
        /\ \A m \in M : m.connection_id \in Conn
    BY DEF MailOK, RestOK, ToldOK
  <2> QED BY <2>1, DeliverOnce
<1>2. \A a, d \in Conn : a # c => (Held(a, d)' <=> Held(a, d))
  BY <1>1 DEF Held
<1>3. \A d \in Conn : d # c => (Listens(d)' <=> Listens(d))
  BY DEF Listens
<1>4. \A d \in Conn : PeerOf(d) \in Peer
  BY PeerOfFacts
<1>5. ASSUME NEW d \in Conn, d # c, Listens(d)
      PROVE  /\ \A a \in Conn : a # d /\ ~Held(a, d)' =>
                  (Shows(view[d], toClient'[d], PeerOf(a)) <=> Registered(a)')
             /\ \A p \in Peer : (\A a \in Conn : p # PeerOf(a)) =>
                  ~Shows(view[d], toClient'[d], p)
  <2> DEFINE q == toClient[d]
             near == view[d]
  <2>1. q \in Seq(Told(d)) /\ Hears(d)
    BY <1>5 DEF MailOK, ToldOK, Listens, Hears
  <2>2. /\ \A a \in Conn : a # d /\ ~Held(a, d) => (Shows(near, q, PeerOf(a)) <=> Registered(a))
        /\ \A p \in Peer : (\A a \in Conn : p # PeerOf(a)) => ~Shows(near, q, p)
    BY <1>5 DEF ListsFollow
  <2>3. CASE toClient'[d] = q
    <3>1. (\E j \in DOMAIN msgs : msgs[j].connection_id = d) => Held(c, d)'
      <4>1. CASE Hears(d) /\ (\E j \in DOMAIN msgs : msgs[j].connection_id = d) => Held(c, d)'
        BY <2>1, <4>1
      <4>2. ASSUME NEW j \in DOMAIN msgs, msgs[j].connection_id = d, q = Append(q, msgs[j].body)
            PROVE  FALSE
        <5>1. Len(q) \in Nat /\ Len(Append(q, msgs[j].body)) = Len(q) + 1
          <6>1. msgs[j].body \in Told(d)
            <7>1. DOMAIN msgs = 1..Len(msgs)
              BY LenProperties
            <7> QED BY <4>2, <7>1, ElementOfSeq
          <6> QED BY <2>1, <6>1, AppendProperties, LenProperties
        <5> QED BY <4>2, <5>1
      <4> QED BY <1>1, <2>3, <4>1, <4>2
    <3>2. ~Held(c, d)' => ~Held(c, d) /\ (Registered(c)' <=> Registered(c))
      BY <1>5, <3>1
    <3>3. \A a \in Conn : a # d /\ ~Held(a, d)' => ~Held(a, d) /\ (Registered(a)' <=> Registered(a))
      BY <1>2, <3>2
    <3> HIDE DEF q, near
    <3> QED BY <2>2, <2>3, <3>3 DEF near
  <2>4. ASSUME NEW j \in DOMAIN msgs, msgs[j].connection_id = d,
               toClient'[d] = Append(q, msgs[j].body)
        PROVE  /\ \A a \in Conn : a # d /\ ~Held(a, d)' =>
                    (Shows(near, toClient'[d], PeerOf(a)) <=> Registered(a)')
               /\ \A p \in Peer : (\A a \in Conn : p # PeerOf(a)) =>
                    ~Shows(near, toClient'[d], p)
    <3> DEFINE b == msgs[j].body
    <3>1. b \in Told(d)
      <4>1. DOMAIN msgs = 1..Len(msgs)
        BY LenProperties
      <4> QED BY <2>4, <4>1, ElementOfSeq
    <3>2. \A p \in Peer : Decides(b, p) => p = PeerOf(c) /\ (Says(b, p) <=> Registered(c)')
      BY <1>5, <2>4 DEF TellsOf
    <3>3. \/ Decides(b, PeerOf(c))
          \/ ~Held(c, d) /\ (Registered(c)' <=> Registered(c))
      <4>1. \A i \in DOMAIN msgs : msgs[i].connection_id = d => i = j
        BY <2>4
      <4> QED BY <1>5, <4>1
    <3>4. ASSUME NEW p
          PROVE  /\ Decides(b, p) => (Shows(near, toClient'[d], p) <=> Says(b, p))
                 /\ ~Decides(b, p) => (Shows(near, toClient'[d], p) <=> Shows(near, q, p))
      <4> HIDE DEF b, q, near
      <4>1. toClient'[d] = Append(q, b)
        BY <2>4 DEF b
      <4> QED BY <2>1, <3>1, <4>1, ShowsAppend
    <3> HIDE DEF b, q, near
    <3>5. \A p \in Peer : (\A a \in Conn : p # PeerOf(a)) => ~Shows(near, toClient'[d], p)
      BY <2>2, <3>2, <3>4
    <3>6. ASSUME NEW a \in Conn, a # d, ~Held(a, d)'
          PROVE  Shows(near, toClient'[d], PeerOf(a)) <=> Registered(a)'
      <4>1. CASE a = c
        BY <1>4, <1>5, <2>2, <3>2, <3>3, <3>4, <4>1
      <4>2. CASE a # c
        <5>1. PeerOf(a) # PeerOf(c)
          BY <4>2 DEF OneConnectionEach
        <5> QED BY <1>2, <1>4, <2>2, <3>2, <3>4, <3>6, <4>2, <5>1
      <4> QED BY <4>1, <4>2
    <3> QED BY <3>5, <3>6
  <2> QED BY <1>1, <2>3, <2>4
<1>6. ASSUME NEW d \in Conn, Listens(d)'
      PROVE  /\ \A a \in Conn : a # d /\ ~Held(a, d)' =>
                  (Shows(view[d], toClient'[d], PeerOf(a)) <=> Registered(a)')
             /\ \A p \in Peer : (\A a \in Conn : p # PeerOf(a)) =>
                  ~Shows(view[d], toClient'[d], p)
  <2>1. CASE d = c
    BY <1>6, <2>1
  <2>2. CASE d # c
    BY <1>3, <1>5, <1>6, <2>2
  <2> QED BY <2>1, <2>2
<1> QED BY <1>6 DEF ListsFollow
\* What the task's own list shows is not changed by messages that do not
\* decide anything.
LEMMA OwnListKept ==
  ASSUME MailOK, ListsFollow, NEW c \in Conn,
         NEW M, \A m \in M : m.connection_id \in Conn /\ m.body \in Told(m.connection_id),
         NEW msgs \in Seq(M),
         \A i, j \in DOMAIN msgs : msgs[i].connection_id = msgs[j].connection_id => i = j,
         NEW phase, Deliver(c, msgs, phase), UNCHANGED view, Listens(c),
         \A j \in DOMAIN msgs : msgs[j].connection_id = c => \A p : ~Decides(msgs[j].body, p)
  PROVE  /\ \A a \in Conn : a # c /\ ~Held(a, c)' =>
              (Shows(view[c], toClient'[c], PeerOf(a)) <=> Registered(a))
         /\ \A p \in Peer : (\A a \in Conn : p # PeerOf(a)) => ~Shows(view[c], toClient'[c], p)
<1>1. /\ \A a \in Conn : a # c => rest'[a] = rest[a]
      /\ \A d \in Conn :
           \/ /\ toClient'[d] = toClient[d]
              /\ Hears(d) /\ (\E j \in DOMAIN msgs : msgs[j].connection_id = d) =>
                   Held(c, d)' /\ msgs[1].connection_id # d
           \/ \E j \in DOMAIN msgs : /\ msgs[j].connection_id = d
                                     /\ toClient'[d] = Append(toClient[d], msgs[j].body)
  <2>1. /\ rest \in [Conn -> Seq(Mail)] /\ toClient \in [Conn -> Seq(UNION {Told(a) : a \in Conn})]
        /\ \A m \in M : m.connection_id \in Conn
    BY DEF MailOK, RestOK, ToldOK
  <2> QED BY <2>1, DeliverOnce
<1>2. ASSUME NEW p PROVE Shows(view[c], toClient'[c], p) <=> Shows(view[c], toClient[c], p)
  <2>1. CASE toClient'[c] = toClient[c]
    BY <2>1
  <2>2. ASSUME NEW j \in DOMAIN msgs, msgs[j].connection_id = c,
               toClient'[c] = Append(toClient[c], msgs[j].body)
        PROVE  Shows(view[c], toClient'[c], p) <=> Shows(view[c], toClient[c], p)
    <3>1. msgs[j].body \in Told(c)
      <4>1. DOMAIN msgs = 1..Len(msgs)
        BY LenProperties
      <4> QED BY <2>2, <4>1, ElementOfSeq
    <3>2. toClient[c] \in Seq(Told(c))
      BY DEF MailOK, ToldOK
    <3>3. ~Decides(msgs[j].body, p)
      BY <2>2
    <3> QED BY <2>2, <3>1, <3>2, <3>3, ShowsAppend
  <2> QED BY <1>1, <2>1, <2>2
<1>3. \A a \in Conn : a # c => (Held(a, c)' <=> Held(a, c))
  BY <1>1 DEF Held
<1> QED BY <1>2, <1>3 DEF ListsFollow

\* The news that a suspended task still has to send, after more of its sends.
LEMMA HeldKept ==
  ASSUME MailOK, ServingOK, HeldOwn, NEW c \in Conn,
         NEW M, \A m \in M : m.connection_id \in Conn /\ m.body \in Told(m.connection_id),
         NEW msgs \in Seq(M),
         \A i, j \in DOMAIN msgs : msgs[i].connection_id = msgs[j].connection_id => i = j,
         NEW phase \in {"none", "reading", "leaving", "done"}, Deliver(c, msgs, phase),
         \A a \in Conn : a # c => (Registered(a)' <=> Registered(a)),
         \A j \in DOMAIN msgs : j # 1 =>
           /\ msgs[j].connection_id # c
           /\ \/ /\ phase = "reading" /\ Registered(c)'
                 /\ msgs[j].body.type = "peer-joined" /\ msgs[j].body.peer.peer_id = PeerOf(c)
              \/ /\ phase = "leaving" /\ ~Registered(c)'
                 /\ msgs[j].body.type = "peer-left" /\ msgs[j].body.peerId = PeerOf(c)
  PROVE  HeldOwn'
<1>1. /\ \A a \in Conn : a # c => rest'[a] = rest[a]
      /\ \A i \in DOMAIN rest'[c] : \E j \in DOMAIN msgs : j # 1 /\ rest'[c][i] = msgs[j]
      /\ \A i, j \in DOMAIN rest'[c] :
           rest'[c][i].connection_id = rest'[c][j].connection_id => i = j
  <2>1. /\ rest \in [Conn -> Seq(Mail)] /\ toClient \in [Conn -> Seq(UNION {Told(a) : a \in Conn})]
        /\ \A m \in M : m.connection_id \in Conn
    BY DEF MailOK, RestOK, ToldOK
  <2> QED BY <2>1, DeliverOnce
<1>2. \A a \in Conn : a # c => serving'[a] = serving[a]
  BY DeliverServing
<1>3. ASSUME NEW i \in DOMAIN rest'[c] PROVE serving'[c] = phase
  <2>1. rest'[c] # <<>>
    BY <1>3
  <2>2. rest \in [Conn -> Seq(Mail)]
    BY DEF MailOK, RestOK
  <2> QED BY <2>1, <2>2, DeliverPhase
<1>4. ASSUME NEW i \in DOMAIN rest'[c]
      PROVE  /\ rest'[c][i].connection_id # c
             /\ \/ /\ serving'[c] = "reading" /\ Registered(c)'
                   /\ rest'[c][i].body.type = "peer-joined"
                   /\ rest'[c][i].body.peer.peer_id = PeerOf(c)
                \/ /\ serving'[c] = "leaving" /\ ~Registered(c)'
                   /\ rest'[c][i].body.type = "peer-left"
                   /\ rest'[c][i].body.peerId = PeerOf(c)
  <2>1. PICK j \in DOMAIN msgs : j # 1 /\ rest'[c][i] = msgs[j]
    BY <1>1
  <2> QED BY <1>3, <2>1
<1>5. ASSUME NEW a \in Conn
      PROVE  /\ \A i, j \in DOMAIN rest'[a] :
                  rest'[a][i].connection_id = rest'[a][j].connection_id => i = j
             /\ \A i \in DOMAIN rest'[a] :
                  /\ rest'[a][i].connection_id # a
                  /\ \/ /\ serving'[a] = "reading" /\ Registered(a)'
                        /\ rest'[a][i].body.type = "peer-joined"
                        /\ rest'[a][i].body.peer.peer_id = PeerOf(a)
                     \/ /\ serving'[a] = "leaving" /\ ~Registered(a)'
                        /\ rest'[a][i].body.type = "peer-left"
                        /\ rest'[a][i].body.peerId = PeerOf(a)
  <2>1. CASE a = c
    BY <1>1, <1>4, <2>1
  <2>2. CASE a # c
    <3>1. rest'[a] = rest[a] /\ serving'[a] = serving[a] /\ (Registered(a)' <=> Registered(a))
      BY <1>1, <1>2, <2>2
    <3> QED BY <3>1 DEF HeldOwn
  <2> QED BY <2>1, <2>2
<1> QED BY <1>5 DEF HeldOwn
\* What a first register does: it evicts nobody, answers with the others, and
\* announces the browser to each of them.
LEMMA FirstRegister ==
  ASSUME OneConnectionEach, SingleInv, NEW c \in Conn, ~Registered(c),
         NEW info \in PeerInfo, Register(c, info)
  PROVE  /\ Registered(c)' /\ info.peer_id = PeerOf(c)
         /\ \A d \in Conn : d # c => (Registered(d)' <=> Registered(d))
         /\ \E infos \in SUBSET PeerInfo :
              /\ outbound' = {To(c, MsgPeers(infos))}
                               \cup {To(d, MsgPeerJoined(info)) :
                                       d \in {e \in Conn \ {c} : Registered(e)}}
              /\ Ids(infos) = {PeerOf(d) : d \in {e \in Conn \ {c} : Registered(e)}}
<1> DEFINE rec == [peer_info |-> info, network_group |-> GroupOf[c]]
           now == [Evict(connections, peer_to_conn, info.peer_id) EXCEPT ![c] = rec]
           others == GroupPeers(now, GroupOf[c]) \ {c}
           known == {e \in Conn \ {c} : Registered(e)}
           infos == {now[d].peer_info : d \in others}
<1>1. /\ info.peer_id = PeerOf(c) /\ PeerOf(c) \in Peer
      /\ connections' = now
      /\ outbound' = {To(c, MsgPeers(infos))} \cup {To(d, MsgPeerJoined(info)) : d \in others}
  BY PeerOfFacts DEF Register, RegisterFrom
<1>2. /\ connections \in [Conn -> ConnectedPeer \cup {None}]
      /\ peer_to_conn \in [Peer -> Conn \cup {None}]
  BY DEF SingleInv, RegInv, TypeOK
<1>3. \A d \in Conn : Registered(d) => /\ PeerIdOf(d) = PeerOf(d)
                                       /\ connections[d].network_group = GroupOf[c]
  BY PeerOfFacts, LocalAssumption DEF SingleInv, Attributed
<1>4. peer_to_conn[PeerOf(c)] = None
  <2> SUFFICES ASSUME peer_to_conn[PeerOf(c)] # None PROVE FALSE
    OBVIOUS
  <2>1. /\ peer_to_conn[PeerOf(c)] \in Conn /\ Registered(peer_to_conn[PeerOf(c)])
        /\ PeerIdOf(peer_to_conn[PeerOf(c)]) = PeerOf(c)
    BY <1>1, <1>2 DEF SingleInv, NoStaleLookup
  <2>2. PeerOf(peer_to_conn[PeerOf(c)]) = PeerOf(c)
    BY <1>3, <2>1
  <2> QED BY <2>1, <2>2 DEF OneConnectionEach
<1>5. now = [connections EXCEPT ![c] = rec]
  <2>1. Evict(connections, peer_to_conn, info.peer_id) = connections
    BY <1>1, <1>2, <1>4, NoneAssumption DEF Evict
  <2> QED BY <2>1
<1>6. rec \in ConnectedPeer /\ rec # None
  BY GroupOfAssumption, NoneAssumption DEF ConnectedPeer
<1>7. now[c] = rec /\ \A d \in Conn : d # c => now[d] = connections[d]
  BY <1>2, <1>5
<1> HIDE DEF now, rec
<1>8. Registered(c)' /\ \A d \in Conn : d # c => (Registered(d)' <=> Registered(d))
  BY <1>1, <1>6, <1>7 DEF Registered
<1>9. others = known
  BY <1>3, <1>7 DEF GroupPeers, Registered
<1>10. \A d \in known : /\ now[d].peer_info \in PeerInfo
                        /\ now[d].peer_info.peer_id = PeerOf(d)
  <2> SUFFICES ASSUME NEW d \in known
               PROVE  /\ now[d].peer_info \in PeerInfo /\ now[d].peer_info.peer_id = PeerOf(d)
    OBVIOUS
  <2>1. now[d] = connections[d] /\ connections[d] \in ConnectedPeer
    BY <1>2, <1>7 DEF Registered
  <2>2. connections[d].peer_info.peer_id = PeerOf(d)
    BY <1>3 DEF PeerIdOf
  <2> QED BY <2>1, <2>2 DEF ConnectedPeer
<1> HIDE DEF others, known
<1>11. infos \in SUBSET PeerInfo /\ Ids(infos) = {PeerOf(d) : d \in known}
  BY <1>9, <1>10 DEF Ids
<1> HIDE DEF infos
<1> QED BY <1>1, <1>8, <1>9, <1>11 DEF known

LEMMA RegisterSeen ==
  ASSUME OneConnectionEach, FramesOK, SingleInv, FewRegistered, MailOK, ServingOK, SeeInv,
         NEW c \in Conn, HandleRegister(c)
  PROVE  /\ HeldOwn' /\ ListsFollow' /\ Registered(c)'
         /\ \A d \in Conn : d # c => (Registered(d)' <=> Registered(d))
<1> DEFINE info == Head(toServer[c]).info
           known == {e \in Conn \ {c} : Registered(e)}
<1>1. /\ info \in PeerInfo /\ Register(c, info) /\ toServer[c] # <<>>
      /\ UNCHANGED <<view, client, link>>
  BY FrameFacts DEF HandleRegister, Reads, browserVars
<1>2. ~Registered(c)
  <2>1. toServer[c] \in Seq(Frame(c)) /\ Head(toServer[c]).type = "register"
    BY DEF FramesOK, HandleRegister
  <2>2. 1 \in DOMAIN toServer[c] /\ Head(toServer[c]) = toServer[c][1]
    <3>1. Len(toServer[c]) \in Nat /\ Len(toServer[c]) # 0 /\ DOMAIN toServer[c] = 1..Len(toServer[c])
      BY <1>1, <2>1, LenProperties, EmptySeq
    <3>2. Head(toServer[c]) = toServer[c][1]
      BY <1>1, <2>1, HeadTailProperties
    <3> QED BY <3>1, <3>2
  <2> QED BY <2>1, <2>2 DEF SeeInv, OpensOnce
<1> HIDE DEF info
<1>3. /\ Registered(c)' /\ info.peer_id = PeerOf(c)
      /\ \A d \in Conn : d # c => (Registered(d)' <=> Registered(d))
  BY <1>1, <1>2, FirstRegister
<1>4. PICK infos \in SUBSET PeerInfo :
        /\ outbound' = {To(c, MsgPeers(infos))} \cup {To(d, MsgPeerJoined(info)) : d \in known}
        /\ Ids(infos) = {PeerOf(d) : d \in known}
  BY <1>1, <1>2, FirstRegister
<1>5. outbound' \subseteq Mail /\ IsFiniteSet(outbound')
  BY <1>1, RegisterMail
<1>6. PICK msgs \in InDictOrder(c, outbound', order') : Deliver(c, msgs, "reading")
  BY DEF HandleRegister
<1>7. \A m \in outbound' : \/ /\ m.connection_id = c /\ m.body = MsgPeers(infos)
                              /\ m = To(c, MsgPeers(infos))
                           \/ /\ m.connection_id \in known /\ m.body = MsgPeerJoined(info)
                              /\ m = To(m.connection_id, MsgPeerJoined(info))
  BY <1>4 DEF To
<1>8. \A m, n \in outbound' : m.connection_id = n.connection_id => m = n
  <2>1. c \notin known
    OBVIOUS
  <2> HIDE DEF known
  <2> QED BY <1>7, <2>1
<1> HIDE DEF known
<1>9. /\ msgs \in Seq(outbound') /\ DOMAIN msgs = 1..Len(msgs) /\ Len(msgs) \in Nat
      /\ \A i \in DOMAIN msgs : msgs[i] \in outbound'
      /\ \A m \in outbound' : \E i \in DOMAIN msgs : msgs[i] = m
      /\ \A i, j \in DOMAIN msgs : msgs[i].connection_id = msgs[j].connection_id => i = j
      /\ \A i \in DOMAIN msgs : msgs[i].connection_id = c => i = 1
  BY <1>5, <1>8, ListCovers
<1>10. \A m \in outbound' : m.connection_id \in Conn /\ m.body \in Told(m.connection_id)
  BY <1>5 DEF Mail, Outbound, Told
<1>11. /\ MsgPeers(infos).type = "peers" /\ MsgPeers(infos).peers = infos
       /\ MsgPeerJoined(info).type = "peer-joined" /\ MsgPeerJoined(info).peer = info
  BY DEF MsgPeers, MsgPeerJoined
<1>12. \A j \in DOMAIN msgs : msgs[j].connection_id # c => msgs[j].body = MsgPeerJoined(info)
  BY <1>7, <1>9
<1>13. \A j \in DOMAIN msgs : msgs[j].connection_id = c => msgs[j].body = MsgPeers(infos)
  BY <1>7, <1>9 DEF known
<1>14. HeldOwn'
  <2>1. /\ msgs[1].connection_id = c
        /\ \A j \in DOMAIN msgs : j # 1 => msgs[j].connection_id # c
    <3>1. PICK j \in DOMAIN msgs : msgs[j] = To(c, MsgPeers(infos))
      BY <1>4, <1>9
    <3>2. msgs[j].connection_id = c
      BY <3>1 DEF To
    <3> QED BY <1>9, <3>2
  <2>2. \A j \in DOMAIN msgs : j # 1 =>
          /\ msgs[j].connection_id # c /\ Registered(c)'
          /\ msgs[j].body.type = "peer-joined" /\ msgs[j].body.peer.peer_id = PeerOf(c)
    BY <1>3, <1>11, <1>12, <2>1
  <2> QED BY <1>3, <1>6, <1>9, <1>10, <2>2, HeldKept DEF SeeInv
<1>15. TellsOf(c, msgs)
  BY <1>3, <1>11, <1>12 DEF TellsOf, Decides, Says
<1>16. \A d \in Conn : d # c /\ Listens(d) =>
         \/ \E j \in DOMAIN msgs : /\ msgs[j].connection_id = d
                                   /\ Decides(msgs[j].body, PeerOf(c))
         \/ ~Held(c, d) /\ (Registered(c)' <=> Registered(c))
  <2> SUFFICES ASSUME NEW d \in Conn, d # c, Listens(d)
               PROVE  \E j \in DOMAIN msgs : /\ msgs[j].connection_id = d
                                             /\ Decides(msgs[j].body, PeerOf(c))
    OBVIOUS
  <2>1. To(d, MsgPeerJoined(info)) \in outbound'
    BY <1>4 DEF Listens, known
  <2>2. PICK j \in DOMAIN msgs : msgs[j] = To(d, MsgPeerJoined(info))
    BY <1>9, <2>1
  <2>3. msgs[j].connection_id = d /\ msgs[j].body = MsgPeerJoined(info)
    BY <2>2 DEF To
  <2> QED BY <1>3, <1>11, <2>3 DEF Decides
<1>17. Listens(c)' =>
         /\ \A a \in Conn : a # c /\ ~Held(a, c)' =>
              (Shows(view[c], toClient'[c], PeerOf(a)) <=> Registered(a))
         /\ \A p \in Peer : (\A a \in Conn : p # PeerOf(a)) => ~Shows(view[c], toClient'[c], p)
  <2> SUFFICES ASSUME Listens(c)'
               PROVE  /\ \A a \in Conn : a # c =>
                           (Shows(view[c], toClient'[c], PeerOf(a)) <=> Registered(a))
                      /\ \A p \in Peer : (\A a \in Conn : p # PeerOf(a)) =>
                           ~Shows(view[c], toClient'[c], p)
    OBVIOUS
  <2>1. Hears(c)
    BY <1>1 DEF Hears, Listens
  <2>2. toClient'[c] = Append(toClient[c], MsgPeers(infos))
    <3>1. \A d \in Conn :
            \/ /\ toClient'[d] = toClient[d]
               /\ Hears(d) /\ (\E j \in DOMAIN msgs : msgs[j].connection_id = d) =>
                    Held(c, d)' /\ msgs[1].connection_id # d
            \/ \E j \in DOMAIN msgs : /\ msgs[j].connection_id = d
                                      /\ toClient'[d] = Append(toClient[d], msgs[j].body)
      <4>1. /\ rest \in [Conn -> Seq(Mail)]
            /\ toClient \in [Conn -> Seq(UNION {Told(a) : a \in Conn})]
            /\ \A m \in outbound' : m.connection_id \in Conn
        BY <1>10 DEF MailOK, RestOK, ToldOK
      <4> QED BY <1>6, <1>9, <4>1, DeliverOnce
    <3>2. PICK j \in DOMAIN msgs : msgs[j] = To(c, MsgPeers(infos))
      BY <1>4, <1>9
    <3>3. msgs[j].connection_id = c /\ msgs[1].connection_id = c
      <4>1. msgs[j].connection_id = c
        BY <3>2 DEF To
      <4> QED BY <1>9, <4>1
    <3> QED BY <1>13, <2>1, <3>1, <3>3
  <2>3. MsgPeers(infos) \in Told(c)
    <3>1. To(c, MsgPeers(infos)) \in outbound'
      BY <1>4
    <3> QED BY <1>10, <3>1 DEF To
  <2>4. toClient[c] \in Seq(Told(c))
    BY DEF MailOK, ToldOK
  <2>5. ASSUME NEW p
        PROVE  Shows(view[c], toClient'[c], p) <=> p \in {PeerOf(d) : d \in known}
    <3>1. Decides(MsgPeers(infos), p) /\ (Says(MsgPeers(infos), p) <=> p \in Ids(infos))
      BY <1>11 DEF Decides, Says
    <3> QED BY <1>4, <2>2, <2>3, <2>4, <3>1, ShowsAppend
  <2>6. \A a \in Conn : a # c => (PeerOf(a) \in {PeerOf(d) : d \in known} <=> Registered(a))
    BY DEF known, OneConnectionEach
  <2>7. \A p \in Peer : (\A a \in Conn : p # PeerOf(a)) => p \notin {PeerOf(d) : d \in known}
    BY DEF known
  <2> QED BY <2>5, <2>6, <2>7
<1>18. ListsFollow'
  BY <1>1, <1>3, <1>6, <1>9, <1>10, <1>15, <1>16, <1>17, TaskSends DEF SeeInv
<1> QED BY <1>3, <1>14, <1>18
\* What route_message returns is one message, which decides nothing.
LEMMA RoutedOnce ==
  ASSUME NEW c \in Conn, NEW t \in RelayedType, NEW to \in Peer,
         RouteUnregistered(c) \/ RouteNotFound(c, to) \/ RouteRelay(c, t, to)
  PROVE  /\ UNCHANGED connections
         /\ \A m, n \in outbound' : m = n
         /\ \A m \in outbound' : \A p : ~Decides(m.body, p)
<1>1. /\ UNCHANGED connections
      /\ \E d, b : /\ outbound' = {To(d, b)}
                   /\ (\E x : b = MsgError(x)) \/ (\E info : b = MsgRelayed(t, info))
  BY DEF RouteUnregistered, RouteNotFound, RouteRelay, Refuse
<1>2. /\ \A x : MsgError(x).type = "error"
      /\ \A info : MsgRelayed(t, info).type = t
      /\ t \notin {"peers", "peer-joined", "peer-left"}
  BY DEF MsgError, MsgRelayed, RelayedType
<1>3. \A d, b : To(d, b).body = b
  BY DEF To
<1> QED BY <1>1, <1>2, <1>3 DEF Decides

LEMMA OtherSeen ==
  ASSUME OneConnectionEach, FramesOK, SingleInv, FewRegistered, MailOK, ServingOK, SeeInv,
         NEW c \in Conn, HandleOther(c)
  PROVE  HeldOwn' /\ ListsFollow' /\ UNCHANGED connections
<1> DEFINE msg == Head(toServer[c])
<1>1. /\ msg.type \in RelayedType /\ msg.to \in Peer
      /\ RouteUnregistered(c) \/ RouteNotFound(c, msg.to) \/ RouteRelay(c, msg.type, msg.to)
      /\ ~Suspended(c) /\ UNCHANGED <<view, client, link>>
  BY FrameFacts DEF HandleOther, Reads, browserVars
<1>2. PICK msgs \in InDictOrder(c, outbound', order) : Deliver(c, msgs, "reading")
  BY DEF HandleOther
<1> HIDE DEF msg
<1>3. outbound' \subseteq Mail /\ IsFiniteSet(outbound')
  BY <1>1, OtherMail
<1>4. /\ UNCHANGED connections
      /\ \A m, n \in outbound' : m = n
      /\ \A m \in outbound' : \A p : ~Decides(m.body, p)
  BY <1>1, RoutedOnce
<1>5. \A m, n \in outbound' : m.connection_id = n.connection_id => m = n
  BY <1>4
<1>6. /\ msgs \in Seq(outbound') /\ DOMAIN msgs = 1..Len(msgs) /\ Len(msgs) \in Nat
      /\ \A i \in DOMAIN msgs : msgs[i] \in outbound'
      /\ \A m \in outbound' : \E i \in DOMAIN msgs : msgs[i] = m
      /\ \A i, j \in DOMAIN msgs : msgs[i].connection_id = msgs[j].connection_id => i = j
      /\ \A i \in DOMAIN msgs : msgs[i].connection_id = c => i = 1
  BY <1>3, <1>5, ListCovers
<1>7. \A m \in outbound' : m.connection_id \in Conn /\ m.body \in Told(m.connection_id)
  BY <1>3 DEF Mail, Outbound, Told
<1>8. \A a \in Conn : Registered(a)' <=> Registered(a)
  BY <1>4 DEF Registered
<1>9. \A j \in DOMAIN msgs : \A p : ~Decides(msgs[j].body, p)
  BY <1>4, <1>6
<1>10. \A d \in Conn : ~Held(c, d)
  <2>1. rest[c] = <<>>
    BY <1>1 DEF MailOK, RestOK, Suspended, SuspendedIn
  <2> QED BY <2>1 DEF Held
<1>11. HeldOwn'
  <2>1. \A j \in DOMAIN msgs : ~(j # 1)
    <3> SUFFICES ASSUME NEW j \in DOMAIN msgs PROVE j = 1
      OBVIOUS
    <3>1. 1 \in DOMAIN msgs
      BY <1>6
    <3>2. msgs[j] = msgs[1]
      BY <1>4, <1>6, <3>1
    <3> QED BY <1>6, <3>1, <3>2
  <2> QED BY <1>2, <1>6, <1>7, <1>8, <2>1, HeldKept DEF SeeInv
<1>12. TellsOf(c, msgs)
  BY <1>9 DEF TellsOf
<1>13. Listens(c)' =>
         /\ \A a \in Conn : a # c /\ ~Held(a, c)' =>
              (Shows(view[c], toClient'[c], PeerOf(a)) <=> Registered(a))
         /\ \A p \in Peer : (\A a \in Conn : p # PeerOf(a)) => ~Shows(view[c], toClient'[c], p)
  <2> SUFFICES ASSUME Listens(c)'
               PROVE  /\ \A a \in Conn : a # c /\ ~Held(a, c)' =>
                           (Shows(view[c], toClient'[c], PeerOf(a)) <=> Registered(a))
                      /\ \A p \in Peer : (\A a \in Conn : p # PeerOf(a)) =>
                           ~Shows(view[c], toClient'[c], p)
    OBVIOUS
  <2>1. Listens(c)
    BY <1>1, <1>8 DEF Listens
  <2>2. \A j \in DOMAIN msgs : msgs[j].connection_id = c => \A p : ~Decides(msgs[j].body, p)
    BY <1>9
  <2> QED BY <1>1, <1>2, <1>6, <1>7, <2>1, <2>2, OwnListKept DEF SeeInv
<1>14. \A d \in Conn : d # c /\ Listens(d) =>
         \/ \E j \in DOMAIN msgs : /\ msgs[j].connection_id = d
                                   /\ Decides(msgs[j].body, PeerOf(c))
         \/ ~Held(c, d) /\ (Registered(c)' <=> Registered(c))
  BY <1>8, <1>10
<1>15. ListsFollow'
  BY <1>1, <1>2, <1>6, <1>7, <1>8, <1>12, <1>13, <1>14, TaskSends DEF SeeInv
<1> QED BY <1>4, <1>11, <1>15

\* What unregister returns.
LEMMA LastUnregister ==
  ASSUME SingleInv, NEW c \in Conn, Unregister(c) \/ UnregisterUnknown(c)
  PROVE  /\ ~Registered(c)'
         /\ \A d \in Conn : d # c => (Registered(d)' <=> Registered(d))
         /\ Registered(c) =>
              outbound' = {To(d, MsgPeerLeft(PeerOf(c))) :
                             d \in {e \in Conn \ {c} : Registered(e)}}
         /\ ~Registered(c) => outbound' = {}
<1>1. connections \in [Conn -> ConnectedPeer \cup {None}]
  BY DEF SingleInv, RegInv, TypeOK
<1>2. \A d \in Conn : Registered(d) => /\ PeerIdOf(d) = PeerOf(d)
                                       /\ connections[d].network_group = GroupOf[c]
  BY PeerOfFacts, LocalAssumption DEF SingleInv, Attributed
<1>3. CASE Unregister(c)
  <2> DEFINE now == [connections EXCEPT ![c] = None]
             told == GroupPeers(now, connections[c].network_group)
             known == {e \in Conn \ {c} : Registered(e)}
  <2>1. /\ Registered(c) /\ connections' = now
        /\ outbound' = {To(d, MsgPeerLeft(PeerIdOf(c))) : d \in told}
    BY <1>3 DEF Unregister
  <2>2. now[c] = None /\ \A d \in Conn : d # c => now[d] = connections[d]
    BY <1>1
  <2> HIDE DEF now
  <2>3. told = known
    BY <1>2, <2>1, <2>2 DEF GroupPeers, Registered
  <2>4. ~Registered(c)' /\ \A d \in Conn : d # c => (Registered(d)' <=> Registered(d))
    BY <2>1, <2>2 DEF Registered
  <2> HIDE DEF told
  <2> QED BY <1>2, <2>1, <2>3, <2>4
<1>4. CASE UnregisterUnknown(c)
  BY <1>4 DEF UnregisterUnknown, Registered
<1> QED BY <1>3, <1>4

LEMMA EndsSeen ==
  ASSUME OneConnectionEach, FramesOK, SingleInv, FewRegistered, MailOK, ServingOK, SeeInv,
         NEW c \in Conn, HandlerEnds(c)
  PROVE  /\ HeldOwn' /\ ListsFollow' /\ ~Registered(c)'
         /\ \A d \in Conn : d # c => (Registered(d)' <=> Registered(d))
<1> DEFINE known == {e \in Conn \ {c} : Registered(e)}
<1>1. /\ Unregister(c) \/ UnregisterUnknown(c)
      /\ ~Suspended(c) /\ link[c] = "closed" /\ UNCHANGED <<view, client, link>>
  BY DEF HandlerEnds, browserVars
<1>2. PICK msgs \in InDictOrder(c, outbound', order') : Deliver(c, msgs, "leaving")
  BY DEF HandlerEnds
<1>3. outbound' \subseteq Mail /\ IsFiniteSet(outbound')
  <2>1. PICK t : t \in RelayedType
    BY DEF RelayedType
  <2>2. PeerOf(c) \in Peer
    BY PeerOfFacts
  <2> QED BY <1>1, <2>1, <2>2, OtherMail
<1>4. /\ ~Registered(c)'
      /\ \A d \in Conn : d # c => (Registered(d)' <=> Registered(d))
      /\ Registered(c) => outbound' = {To(d, MsgPeerLeft(PeerOf(c))) : d \in known}
      /\ ~Registered(c) => outbound' = {}
  BY <1>1, LastUnregister
<1>5. \A m \in outbound' : /\ m.connection_id \in known
                           /\ m.body = MsgPeerLeft(PeerOf(c))
                           /\ m = To(m.connection_id, MsgPeerLeft(PeerOf(c)))
  <2> HIDE DEF known
  <2> QED BY <1>4 DEF To
<1>6. \A m, n \in outbound' : m.connection_id = n.connection_id => m = n
  BY <1>5
<1>7. /\ msgs \in Seq(outbound') /\ DOMAIN msgs = 1..Len(msgs) /\ Len(msgs) \in Nat
      /\ \A i \in DOMAIN msgs : msgs[i] \in outbound'
      /\ \A m \in outbound' : \E i \in DOMAIN msgs : msgs[i] = m
      /\ \A i, j \in DOMAIN msgs : msgs[i].connection_id = msgs[j].connection_id => i = j
      /\ \A i \in DOMAIN msgs : msgs[i].connection_id = c => i = 1
  BY <1>3, <1>6, ListCovers
<1>8. \A m \in outbound' : m.connection_id \in Conn /\ m.body \in Told(m.connection_id)
  BY <1>3 DEF Mail, Outbound, Told
<1>9. \A j \in DOMAIN msgs : /\ msgs[j].connection_id # c
                             /\ msgs[j].body.type = "peer-left"
                             /\ msgs[j].body.peerId = PeerOf(c)
  BY <1>5, <1>7 DEF MsgPeerLeft
<1>10. HeldOwn'
  BY <1>2, <1>4, <1>7, <1>8, <1>9, HeldKept DEF SeeInv
<1>11. TellsOf(c, msgs)
  BY <1>4, <1>9 DEF TellsOf, Decides, Says
<1>12. \A d \in Conn : d # c /\ Listens(d) =>
         \/ \E j \in DOMAIN msgs : /\ msgs[j].connection_id = d
                                   /\ Decides(msgs[j].body, PeerOf(c))
         \/ ~Held(c, d) /\ (Registered(c)' <=> Registered(c))
  <2> SUFFICES ASSUME NEW d \in Conn, d # c, Listens(d)
               PROVE  \/ \E j \in DOMAIN msgs : /\ msgs[j].connection_id = d
                                                /\ Decides(msgs[j].body, PeerOf(c))
                      \/ ~Held(c, d) /\ (Registered(c)' <=> Registered(c))
    OBVIOUS
  <2>1. CASE Registered(c)
    <3>1. To(d, MsgPeerLeft(PeerOf(c))) \in outbound'
      BY <1>4, <2>1 DEF Listens
    <3>2. PICK j \in DOMAIN msgs : msgs[j] = To(d, MsgPeerLeft(PeerOf(c)))
      BY <1>7, <3>1
    <3>3. msgs[j].connection_id = d
      BY <3>2 DEF To
    <3> QED BY <1>9, <3>3 DEF Decides
  <2>2. CASE ~Registered(c)
    <3>1. rest[c] = <<>>
      BY <1>1 DEF MailOK, RestOK, Suspended, SuspendedIn
    <3> QED BY <1>4, <2>2, <3>1 DEF Held
  <2> QED BY <2>1, <2>2
<1>13. ~Listens(c)'
  BY <1>4 DEF Listens
<1>14. ListsFollow'
  BY <1>1, <1>2, <1>4, <1>7, <1>8, <1>11, <1>12, <1>13, TaskSends DEF SeeInv
<1> QED BY <1>4, <1>10, <1>14

LEMMA ResumeSeen ==
  ASSUME OneConnectionEach, MailOK, ServingOK, SeeInv, Resume
  PROVE  HeldOwn' /\ ListsFollow'
<1>1. PICK c \in Conn : /\ Deliver(c, rest[c], serving[c])
                        /\ UNCHANGED <<view, client, link, connections>>
  <2>1. ready \in Seq(Conn) /\ ready # <<>>
    BY DEF MailOK, QueuesOK, QueuesIn, Resume
  <2>2. Head(ready) \in Conn
    BY <2>1, HeadTailProperties
  <2> QED BY <2>2 DEF Resume, vars, browserVars
<1>2. PICK msgs \in Seq(Mail), phase \in {"none", "reading", "leaving", "done"} :
        msgs = rest[c] /\ phase = serving[c]
  <2>1. rest[c] \in Seq(Mail)
    BY DEF MailOK, RestOK
  <2>2. serving[c] \in {"none", "reading", "leaving", "done"}
    BY DEF ServingOK
  <2> QED BY <2>1, <2>2
<1>3. Deliver(c, msgs, phase)
  BY <1>2, <1>1
<1>4. \A m \in Mail : m.connection_id \in Conn /\ m.body \in Told(m.connection_id)
  BY DEF Mail, Outbound, Told
<1>5. \A a \in Conn : Registered(a)' <=> Registered(a)
  BY <1>1 DEF Registered
<1>6. /\ \A i, j \in DOMAIN msgs : msgs[i].connection_id = msgs[j].connection_id => i = j
      /\ \A i \in DOMAIN msgs :
           /\ msgs[i].connection_id # c
           /\ \/ /\ phase = "reading" /\ Registered(c)
                 /\ msgs[i].body.type = "peer-joined" /\ msgs[i].body.peer.peer_id = PeerOf(c)
              \/ /\ phase = "leaving" /\ ~Registered(c)
                 /\ msgs[i].body.type = "peer-left" /\ msgs[i].body.peerId = PeerOf(c)
  BY <1>2 DEF SeeInv, HeldOwn
<1>7. HeldOwn'
  BY <1>3, <1>4, <1>5, <1>6, HeldKept DEF SeeInv
<1>8. TellsOf(c, msgs)
  BY <1>5, <1>6 DEF TellsOf, Decides, Says
<1>9. \A d \in Conn : d # c /\ Listens(d) =>
        \/ \E j \in DOMAIN msgs : /\ msgs[j].connection_id = d
                                  /\ Decides(msgs[j].body, PeerOf(c))
        \/ ~Held(c, d) /\ (Registered(c)' <=> Registered(c))
  BY <1>2, <1>5, <1>6 DEF Held, Decides
<1>10. Listens(c)' =>
         /\ \A a \in Conn : a # c /\ ~Held(a, c)' =>
              (Shows(view[c], toClient'[c], PeerOf(a)) <=> Registered(a))
         /\ \A p \in Peer : (\A a \in Conn : p # PeerOf(a)) => ~Shows(view[c], toClient'[c], p)
  <2> SUFFICES ASSUME Listens(c)'
               PROVE  /\ \A a \in Conn : a # c /\ ~Held(a, c)' =>
                           (Shows(view[c], toClient'[c], PeerOf(a)) <=> Registered(a))
                      /\ \A p \in Peer : (\A a \in Conn : p # PeerOf(a)) =>
                           ~Shows(view[c], toClient'[c], p)
    OBVIOUS
  <2>1. Listens(c)
    BY <1>1, <1>5 DEF Listens
  <2>2. \A j \in DOMAIN msgs : msgs[j].connection_id = c => \A p : ~Decides(msgs[j].body, p)
    BY <1>6
  <2> QED BY <1>1, <1>3, <1>4, <1>6, <2>1, <2>2, OwnListKept DEF SeeInv
<1>11. ListsFollow'
  BY <1>1, <1>3, <1>4, <1>5, <1>6, <1>8, <1>9, <1>10, TaskSends DEF SeeInv
<1> QED BY <1>7, <1>11
\* A step of a socket or of a browser changes at most what one browser has read.
LEMMA QuietStep ==
  ASSUME HeldOwn, ListsFollow, UNCHANGED <<rest, connections>>,
         \A a \in Conn : serving[a] # "none" => serving'[a] = serving[a],
         \A d \in Conn : Listens(d)' =>
           /\ Listens(d)
           /\ \A p : Shows(view'[d], toClient'[d], p) <=> Shows(view[d], toClient[d], p)
  PROVE  HeldOwn' /\ ListsFollow'
<1>1. \A d \in Conn : Registered(d)' <=> Registered(d)
  BY DEF Registered
<1>2. \A a, d \in Conn : Held(a, d)' <=> Held(a, d)
  BY DEF Held
<1>3. ListsFollow'
  BY <1>1, <1>2 DEF ListsFollow
<1>4. HeldOwn'
  <2> SUFFICES ASSUME NEW a \in Conn
               PROVE  /\ \A i, j \in DOMAIN rest[a] :
                           rest[a][i].connection_id = rest[a][j].connection_id => i = j
                      /\ \A i \in DOMAIN rest[a] :
                           /\ rest[a][i].connection_id # a
                           /\ \/ /\ serving'[a] = "reading" /\ Registered(a)
                                 /\ rest[a][i].body.type = "peer-joined"
                                 /\ rest[a][i].body.peer.peer_id = PeerOf(a)
                              \/ /\ serving'[a] = "leaving" /\ ~Registered(a)
                                 /\ rest[a][i].body.type = "peer-left"
                                 /\ rest[a][i].body.peerId = PeerOf(a)
    BY <1>1 DEF HeldOwn
  <2>1. \A i \in DOMAIN rest[a] : serving'[a] = serving[a]
    BY DEF HeldOwn
  <2> QED BY <2>1 DEF HeldOwn
<1> QED BY <1>3, <1>4

LEMMA NetworkSeen ==
  ASSUME EndsOK, HeldOwn, ListsFollow, NEW c \in Conn,
         Fill(c) \/ Drain(c) \/ Closing(c) \/ Lose(c)
  PROVE  HeldOwn' /\ ListsFollow'
<1>1. UNCHANGED <<rest, connections, serving, client, view, toClient>>
  BY DEF Fill, Drain, Closing, Lose, vars, browserVars
<1>2. /\ \A d \in Conn : d # c => link'[d] = link[d]
      /\ link'[c] \in {"open", "slow"} => link[c] \in {"open", "slow"}
  BY DEF Fill, Drain, Closing, Lose, EndsOK
<1>3. \A d \in Conn : Listens(d)' => Listens(d)
  BY <1>1, <1>2 DEF Listens, Registered
<1> QED BY <1>1, <1>3, QuietStep

LEMMA BrowsersSeen ==
  ASSUME EndsOK, ServingOK, MailOK, ViewOK, FramesOK, SeeInv, Browsers
  PROVE  HeldOwn' /\ ListsFollow'
<1>1. ASSUME NEW c \in Conn, NEW label, Connect(c, label)
      PROVE  HeldOwn' /\ ListsFollow'
  <2>1. /\ client[c] = "none" /\ UNCHANGED <<rest, connections, view, toClient>>
        /\ \A d \in Conn : d # c => client'[d] = client[d] /\ link'[d] = link[d]
        /\ serving' = [serving EXCEPT ![c] = "reading"]
    BY <1>1 DEF Connect, vars, EndsOK
  <2>2. serving[c] = "none" /\ ~Registered(c)
    BY <2>1 DEF SeeInv, Attended
  <2>3. \A a \in Conn : serving[a] # "none" => serving'[a] = serving[a]
    BY <2>1, <2>2 DEF ServingOK
  <2>4. \A d \in Conn : Listens(d)' => Listens(d)
    BY <2>1, <2>2 DEF Listens, Registered
  <2> QED BY <2>1, <2>3, <2>4, QuietStep DEF SeeInv
<1>2. ASSUME NEW c \in Conn, Leave(c)
      PROVE  HeldOwn' /\ ListsFollow'
  <2>1. /\ UNCHANGED <<rest, connections, serving, link>>
        /\ client'[c] = "gone"
        /\ \A d \in Conn : d # c => /\ client'[d] = client[d] /\ view'[d] = view[d]
                                    /\ toClient'[d] = toClient[d]
    BY <1>2 DEF Leave, vars, EndsOK, ViewOK, MailOK, ToldOK
  <2>2. \A d \in Conn : Listens(d)' => Listens(d) /\ d # c
    BY <2>1 DEF Listens, Registered
  <2>3. \A d \in Conn : Listens(d)' =>
          /\ Listens(d)
          /\ \A p : Shows(view'[d], toClient'[d], p) <=> Shows(view[d], toClient[d], p)
    BY <2>1, <2>2
  <2> QED BY <2>1, <2>3, QuietStep DEF SeeInv
<1>3. ASSUME NEW c \in Conn, Receive(c)
      PROVE  HeldOwn' /\ ListsFollow'
  <2>1. /\ UNCHANGED <<rest, connections, serving, link, client>>
        /\ toClient[c] # <<>>
        /\ toClient' = [toClient EXCEPT ![c] = Tail(toClient[c])]
        /\ view' = [view EXCEPT ![c] = HandleMessage(view[c], Head(toClient[c]))]
    BY <1>3 DEF Receive, vars
  <2>2. toClient \in [Conn -> Seq(UNION {Told(d) : d \in Conn})] /\ toClient[c] \in Seq(Told(c))
        /\ view \in [Conn -> SUBSET PeerInfo]
    BY DEF MailOK, ToldOK, ViewOK
  <2>3. \A p : Shows(HandleMessage(view[c], Head(toClient[c])), Tail(toClient[c]), p)
                 <=> Shows(view[c], toClient[c], p)
    BY <2>1, <2>2, ShowsTail
  <2>4. \A d \in Conn : \A p : Shows(view'[d], toClient'[d], p) <=> Shows(view[d], toClient[d], p)
    <3>1. /\ toClient'[c] = Tail(toClient[c])
          /\ view'[c] = HandleMessage(view[c], Head(toClient[c]))
          /\ \A d \in Conn : d # c => toClient'[d] = toClient[d] /\ view'[d] = view[d]
      BY <2>1, <2>2
    <3> QED BY <2>3, <3>1
  <2>5. \A d \in Conn : Listens(d)' => Listens(d)
    BY <2>1 DEF Listens, Registered
  <2> QED BY <2>1, <2>4, <2>5, QuietStep DEF SeeInv
<1>4. ASSUME NEW c \in Conn, NEW t, NEW to, SendRelay(c, t, to)
      PROVE  HeldOwn' /\ ListsFollow'
  <2>1. UNCHANGED <<rest, connections, serving, link, client, view, toClient>>
    BY <1>4 DEF SendRelay, vars
  <2>2. \A d \in Conn : Listens(d)' => Listens(d)
    BY <2>1 DEF Listens, Registered
  <2> QED BY <2>1, <2>2, QuietStep DEF SeeInv
<1> QED BY <1>1, <1>2, <1>3, <1>4 DEF Browsers

\* A handler and its socket.
LEMMA AttendedNext ==
  ASSUME EndsOK, ServingOK, MailOK, FramesOK, Attended, [LocalNext]_lvars,
         \A c \in Conn : HandleRegister(c) =>
           \A d \in Conn : d # c => (Registered(d)' <=> Registered(d)),
         \A c \in Conn : HandlerEnds(c) =>
           ~Registered(c)' /\ \A d \in Conn : d # c => (Registered(d)' <=> Registered(d)),
         \A c \in Conn : HandleOther(c) => UNCHANGED connections
  PROVE  Attended'
<1>1. ASSUME NEW c \in Conn, HandleRegister(c) \/ HandleNameless(c) \/ HandleOther(c)
      PROVE  Attended'
  <2>1. /\ serving[c] = "reading" /\ toServer' = [toServer EXCEPT ![c] = Tail(@)]
        /\ UNCHANGED <<link, client>>
        /\ \E msgs : Deliver(c, msgs, "reading")
    BY <1>1 DEF HandleRegister, HandleNameless, HandleOther, Reads, browserVars
  <2>2. serving'[c] = "reading" /\ \A d \in Conn : d # c => serving'[d] = serving[d]
    BY <2>1, DeliverServing
  <2>3. \A d \in Conn : d # c => (Registered(d)' <=> Registered(d)) /\ toServer'[d] = toServer[d]
    BY <1>1, <2>1 DEF HandleNameless, vars, Registered, FramesOK
  <2> QED BY <2>1, <2>2, <2>3 DEF Attended
<1>2. ASSUME NEW c \in Conn, HandlerEnds(c)
      PROVE  Attended'
  <2>1. /\ serving[c] = "reading" /\ link[c] = "closed"
        /\ UNCHANGED <<link, client, toServer>>
        /\ \E msgs : Deliver(c, msgs, "leaving")
    BY <1>2 DEF HandlerEnds, browserVars
  <2>2. serving'[c] \in {"leaving", "done"} /\ \A d \in Conn : d # c => serving'[d] = serving[d]
    BY <2>1, DeliverServing
  <2> QED BY <1>2, <2>1, <2>2 DEF Attended
<1>3. ASSUME Resume
      PROVE  Attended'
  <2>1. PICK c \in Conn : /\ \E msgs : Deliver(c, msgs, serving[c])
                          /\ UNCHANGED <<link, client, toServer, connections>>
    <3>1. ready \in Seq(Conn) /\ ready # <<>>
      BY <1>3 DEF MailOK, QueuesOK, QueuesIn, Resume
    <3>2. Head(ready) \in Conn
      BY <3>1, HeadTailProperties
    <3> QED BY <1>3, <3>2 DEF Resume, vars, browserVars
  <2>2. PICK phase \in {"none", "reading", "leaving", "done"} : phase = serving[c]
    BY DEF ServingOK
  <2>3. /\ \A d \in Conn : d # c => serving'[d] = serving[d]
        /\ serving'[c] = phase \/ (phase = "leaving" /\ serving'[c] = "done")
    BY <2>1, <2>2, DeliverServing
  <2>4. \A d \in Conn : Registered(d)' <=> Registered(d)
    BY <2>1 DEF Registered
  <2> QED BY <2>1, <2>2, <2>3, <2>4 DEF Attended
<1>4. CASE Network
  <2>1. PICK c \in Conn : Fill(c) \/ Drain(c) \/ Closing(c) \/ Lose(c)
    BY <1>4 DEF Network
  <2>2. /\ UNCHANGED <<serving, client, toServer, connections>>
        /\ link[c] # "none" /\ \A d \in Conn : d # c => link'[d] = link[d]
        /\ link'[c] \in {"open", "slow"} => link[c] \in {"open", "slow"}
    BY <2>1 DEF Fill, Drain, Closing, Lose, EndsOK, vars, browserVars
  <2>3. \A d \in Conn : Registered(d)' <=> Registered(d)
    BY <2>2 DEF Registered
  <2> QED BY <2>2, <2>3 DEF Attended
<1>5. ASSUME NEW c \in Conn, NEW label, Connect(c, label)
      PROVE  Attended'
  <2>1. /\ client[c] = "none" /\ client'[c] = "open" /\ serving'[c] = "reading"
        /\ UNCHANGED connections
        /\ \A d \in Conn : d # c =>
             /\ client'[d] = client[d] /\ link'[d] = link[d] /\ serving'[d] = serving[d]
             /\ toServer'[d] = toServer[d]
    BY <1>5 DEF Connect, EndsOK, ServingOK, FramesOK, vars
  <2>2. \A d \in Conn : Registered(d)' <=> Registered(d)
    BY <2>1 DEF Registered
  <2> QED BY <2>1, <2>2 DEF Attended
<1>6. ASSUME NEW c \in Conn, Leave(c)
      PROVE  Attended'
  <2>1. /\ client[c] = "open" /\ client'[c] = "gone"
        /\ UNCHANGED <<connections, link, serving>>
        /\ \A d \in Conn : d # c => client'[d] = client[d]
        /\ \A d \in Conn : d # c => toServer'[d] = toServer[d]
    BY <1>6 DEF Leave, EndsOK, FramesOK, vars
  <2>2. \A d \in Conn : Registered(d)' <=> Registered(d)
    BY <2>1 DEF Registered
  <2> QED BY <2>1, <2>2 DEF Attended
<1>7. ASSUME NEW c \in Conn, NEW t, NEW to, SendRelay(c, t, to)
      PROVE  Attended'
  <2>1. /\ client[c] = "open" /\ UNCHANGED <<connections, link, serving, client>>
        /\ \A d \in Conn : d # c => toServer'[d] = toServer[d]
    BY <1>7 DEF SendRelay, FramesOK, vars
  <2>2. \A d \in Conn : Registered(d)' <=> Registered(d)
    BY <2>1 DEF Registered
  <2> QED BY <2>1, <2>2 DEF Attended
<1>8. CASE UNCHANGED <<client, link, serving, toServer, connections>>
  BY <1>8 DEF Attended, Registered
<1>9. ASSUME NEW c \in Conn, Receive(c)
      PROVE  Attended'
  BY <1>8, <1>9 DEF Receive, vars
<1>10. CASE UNCHANGED lvars
  BY <1>8, <1>10 DEF lvars, vars, serverVars, browserVars
<1>11. CASE Browsers
  BY <1>5, <1>6, <1>7, <1>9, <1>11 DEF Browsers
<1>12. CASE Server
  BY <1>1, <1>2, <1>3, <1>12 DEF Server, HandleFrame
<1> QED BY <1>4, <1>10, <1>11, <1>12 DEF LocalNext
\* The head and the tail of what a handler reads.
LEMMA ReadFacts ==
  ASSUME FramesOK, NEW c \in Conn, toServer[c] # <<>>
  PROVE  /\ 1 \in DOMAIN toServer[c] /\ Head(toServer[c]) = toServer[c][1]
         /\ \A i \in DOMAIN Tail(toServer[c]) :
              i + 1 \in DOMAIN toServer[c] /\ i + 1 # 1
                /\ Tail(toServer[c])[i] = toServer[c][i + 1]
<1>1. toServer[c] \in Seq(Frame(c))
  BY DEF FramesOK
<1> DEFINE q == toServer[c]
<1>2. /\ Len(q) \in Nat \ {0} /\ DOMAIN q = 1..Len(q)
      /\ DOMAIN Tail(q) = 1..(Len(q) - 1)
      /\ \A i \in 1..(Len(q) - 1) : Tail(q)[i] = q[i + 1]
      /\ Head(q) = q[1]
  BY <1>1, HeadTailProperties, LenProperties, EmptySeq
<1> HIDE DEF q
<1>3. 1 \in 1..Len(q) /\ \A i \in 1..(Len(q) - 1) : i + 1 \in 1..Len(q) /\ i + 1 # 1
  BY <1>2
<1> QED BY <1>2, <1>3 DEF q

LEMMA OpensNext ==
  ASSUME Nameless = {}, EndsOK, ServingOK, MailOK, FramesOK, OpensOnce, Attended,
         [LocalNext]_lvars,
         \A c \in Conn : HandleRegister(c) =>
           Registered(c)' /\ \A d \in Conn : d # c => (Registered(d)' <=> Registered(d)),
         \A c \in Conn : HandlerEnds(c) =>
           \A d \in Conn : d # c => (Registered(d)' <=> Registered(d)),
         \A c \in Conn : HandleOther(c) => UNCHANGED connections
  PROVE  OpensOnce' /\ \A c \in Conn : ~HandleNameless(c)
<1>1. ASSUME NEW c \in Conn,
             \A d \in Conn : d # c =>
               /\ toServer'[d] = toServer[d] /\ (Registered(d)' <=> Registered(d))
               /\ client'[d] = client[d] /\ serving'[d] = serving[d],
             \A i \in DOMAIN toServer'[c] : toServer'[c][i].type = "register" =>
               i = 1 /\ ~Registered(c)' /\ toServer'[c][i].info.label # None,
             client'[c] = "open" /\ serving'[c] = "reading" /\ ~Registered(c)' =>
               toServer'[c] # <<>> /\ toServer'[c][1].type = "register"
      PROVE  OpensOnce'
  BY <1>1 DEF OpensOnce
<1>2. ASSUME NEW c \in Conn, Reads(c)
      PROVE  /\ toServer[c] # <<>> /\ serving[c] = "reading"
             /\ \A d \in Conn : d # c => toServer'[d] = toServer[d]
             /\ \A i \in DOMAIN toServer'[c] : toServer'[c][i].type # "register"
             /\ Head(toServer[c]).type = "register" => Head(toServer[c]).info.label # None
             /\ client[c] = "open" /\ ~Registered(c) => Head(toServer[c]).type = "register"
  <2>1. /\ toServer[c] # <<>> /\ serving[c] = "reading"
        /\ toServer'[c] = Tail(toServer[c])
        /\ \A d \in Conn : d # c => toServer'[d] = toServer[d]
    BY <1>2 DEF Reads, FramesOK
  <2> QED BY <2>1, ReadFacts DEF OpensOnce
<1>3. \A c \in Conn : ~HandleNameless(c)
  BY <1>2 DEF HandleNameless
<1>4. ASSUME NEW c \in Conn, HandleRegister(c)
      PROVE  OpensOnce'
  <2>1. Reads(c) /\ UNCHANGED client /\ \E msgs : Deliver(c, msgs, "reading")
    BY <1>4 DEF HandleRegister, browserVars
  <2>2. \A d \in Conn : d # c => serving'[d] = serving[d]
    BY <2>1, DeliverServing
  <2> QED BY <1>1, <1>2, <1>4, <2>1, <2>2
<1>5. ASSUME NEW c \in Conn, HandleOther(c)
      PROVE  OpensOnce'
  <2>1. /\ Reads(c) /\ UNCHANGED client /\ \E msgs : Deliver(c, msgs, "reading")
        /\ Head(toServer[c]).type # "register"
    BY <1>5 DEF HandleOther, browserVars
  <2>2. \A d \in Conn : d # c => serving'[d] = serving[d]
    BY <2>1, DeliverServing
  <2>3. \A d \in Conn : Registered(d)' <=> Registered(d)
    BY <1>5 DEF Registered
  <2> QED BY <1>1, <1>2, <2>1, <2>2, <2>3
<1>6. ASSUME NEW c \in Conn, HandlerEnds(c)
      PROVE  OpensOnce'
  <2>1. /\ toServer[c] = <<>> /\ UNCHANGED <<client, toServer>>
        /\ \E msgs : Deliver(c, msgs, "leaving")
    BY <1>6 DEF HandlerEnds, browserVars
  <2>2. serving'[c] # "reading" /\ \A d \in Conn : d # c => serving'[d] = serving[d]
    BY <2>1, DeliverServing
  <2>3. \A i \in DOMAIN toServer'[c] : FALSE
    BY <2>1
  <2> QED BY <1>1, <1>6, <2>1, <2>2, <2>3
<1>7. ASSUME \A d \in Conn : /\ serving'[d] = "reading" => serving[d] = "reading"
                             /\ client'[d] = "open" => client[d] = "open",
             UNCHANGED <<toServer, connections>>
      PROVE  OpensOnce'
  BY <1>7 DEF OpensOnce, Registered
<1>8. ASSUME Resume PROVE OpensOnce'
  <2>1. PICK c \in Conn : /\ \E msgs : Deliver(c, msgs, serving[c])
                          /\ UNCHANGED <<client, toServer, connections>>
    <3>1. ready \in Seq(Conn) /\ ready # <<>>
      BY <1>8 DEF MailOK, QueuesOK, QueuesIn, Resume
    <3>2. Head(ready) \in Conn
      BY <3>1, HeadTailProperties
    <3> QED BY <1>8, <3>2 DEF Resume, vars, browserVars
  <2>2. PICK phase \in {"none", "reading", "leaving", "done"} : phase = serving[c]
    BY DEF ServingOK
  <2>3. /\ \A d \in Conn : d # c => serving'[d] = serving[d]
        /\ serving'[c] = phase \/ (phase = "leaving" /\ serving'[c] = "done")
    BY <2>1, <2>2, DeliverServing
  <2>4. \A d \in Conn : serving'[d] = "reading" => serving[d] = "reading"
    BY <2>2, <2>3
  <2> QED BY <1>7, <2>1, <2>4
<1>9. ASSUME Network PROVE OpensOnce'
  BY <1>7, <1>9 DEF Network, Fill, Drain, Closing, Lose, vars, browserVars
<1>10. ASSUME NEW c \in Conn, NEW label \in Label, Connect(c, label)
       PROVE  OpensOnce'
  <2> DEFINE f == [type |-> "register", info |-> [peer_id |-> PeerOf(c), label |-> label]]
  <2>1. /\ client[c] = "none" /\ toServer'[c] = <<f>> /\ UNCHANGED connections
        /\ \A d \in Conn : d # c =>
             /\ client'[d] = client[d] /\ serving'[d] = serving[d]
             /\ toServer'[d] = toServer[d]
    BY <1>10 DEF Connect, EndsOK, ServingOK, FramesOK, vars
  <2>2. ~Registered(c)
    BY <2>1 DEF Attended
  <2>3. \A d \in Conn : Registered(d)' <=> Registered(d)
    BY <2>1 DEF Registered
  <2>4. f.type = "register" /\ f.info.label # None
    BY LocalAssumption
  <2> HIDE DEF f
  <2>5. DOMAIN <<f>> = {1} /\ <<f>>[1] = f /\ <<f>> # <<>>
    OBVIOUS
  <2> QED BY <1>1, <2>1, <2>2, <2>3, <2>4, <2>5
<1>11. ASSUME NEW c \in Conn, Leave(c)
       PROVE  OpensOnce'
  <2>1. /\ client'[c] = "gone" /\ UNCHANGED <<connections, serving>>
        /\ \A d \in Conn : d # c => client'[d] = client[d] /\ toServer'[d] = toServer[d]
        /\ toServer'[c] = toServer[c] \/ toServer'[c] = <<>>
    BY <1>11 DEF Leave, EndsOK, FramesOK, vars
  <2>2. \A d \in Conn : Registered(d)' <=> Registered(d)
    BY <2>1 DEF Registered
  <2>3. \A i \in DOMAIN toServer'[c] : toServer'[c][i].type = "register" =>
          i = 1 /\ ~Registered(c)' /\ toServer'[c][i].info.label # None
    <3>1. CASE toServer'[c] = toServer[c]
      BY <2>2, <3>1 DEF OpensOnce
    <3>2. CASE toServer'[c] = <<>>
      <4>1. DOMAIN toServer'[c] = {}
        BY <3>2
      <4> QED BY <4>1
    <3> QED BY <2>1, <3>1, <3>2
  <2> QED BY <1>1, <2>1, <2>2, <2>3
<1>12. ASSUME NEW c \in Conn, NEW t \in RelayedType, NEW to \in Peer, SendRelay(c, t, to)
       PROVE  OpensOnce'
  <2> DEFINE f == [type |-> t, to |-> to]
             q == toServer[c]
  <2>1. /\ client[c] = "open" /\ UNCHANGED <<connections, serving, client>>
        /\ toServer'[c] = Append(q, f)
        /\ \A d \in Conn : d # c => toServer'[d] = toServer[d]
    BY <1>12 DEF SendRelay, FramesOK, vars
  <2>2. \A d \in Conn : Registered(d)' <=> Registered(d)
    BY <2>1 DEF Registered
  <2>3. f \in Frame(c) /\ f.type # "register"
    BY DEF Frame, RelayFrame, RelayedType
  <2>4. q \in Seq(Frame(c))
    BY DEF FramesOK
  <2> HIDE DEF f, q
  <2>5. /\ Len(q) \in Nat /\ DOMAIN q = 1..Len(q) /\ DOMAIN Append(q, f) = 1..(Len(q) + 1)
        /\ \A i \in 1..Len(q) : Append(q, f)[i] = q[i]
        /\ Append(q, f)[Len(q) + 1] = f
        /\ q # <<>> => Len(q) # 0
        /\ Append(q, f) # <<>>
    BY <2>3, <2>4, AppendProperties, LenProperties, EmptySeq
  <2>6. \A i \in 1..(Len(q) + 1) : i \in 1..Len(q) \/ i = Len(q) + 1
    BY <2>5
  <2>7. q # <<>> => 1 \in 1..Len(q)
    BY <2>5
  <2>8. \A i \in DOMAIN toServer'[c] : toServer'[c][i].type = "register" =>
          i = 1 /\ ~Registered(c)' /\ toServer'[c][i].info.label # None
    BY <2>1, <2>2, <2>3, <2>5, <2>6 DEF OpensOnce, q
  <2>9. client'[c] = "open" /\ serving'[c] = "reading" /\ ~Registered(c)' =>
          toServer'[c] # <<>> /\ toServer'[c][1].type = "register"
    BY <2>1, <2>2, <2>5, <2>7 DEF OpensOnce, q
  <2> QED BY <1>1, <2>1, <2>2, <2>8, <2>9
<1>13. ASSUME NEW c \in Conn, Receive(c)
       PROVE  OpensOnce'
  BY <1>7, <1>13 DEF Receive, vars
<1>14. ASSUME Browsers PROVE OpensOnce'
  <2>1. \A c \in Conn : c \notin Nameless
    OBVIOUS
  <2> QED BY <1>10, <1>11, <1>12, <1>13, <1>14, <2>1, LocalAssumption DEF Browsers
<1>15. ASSUME UNCHANGED lvars PROVE OpensOnce'
  BY <1>7, <1>15 DEF lvars, vars, serverVars, browserVars
<1>16. ASSUME Server PROVE OpensOnce'
  BY <1>3, <1>4, <1>5, <1>6, <1>8, <1>16 DEF Server, HandleFrame
<1> QED BY <1>3, <1>9, <1>14, <1>15, <1>16 DEF LocalNext
LEMMA SeeNext ==
  ASSUME OneConnectionEach, Nameless = {}, FramesOK, SingleInv, FewRegistered, MailOK,
         ServingOK, ViewOK, EndsOK, SeeInv, [LocalNext]_lvars
  PROVE  SeeInv'
<1>1. \A c \in Conn : HandleRegister(c) =>
        /\ HeldOwn' /\ ListsFollow' /\ Registered(c)'
        /\ \A d \in Conn : d # c => (Registered(d)' <=> Registered(d))
  BY RegisterSeen
<1>2. \A c \in Conn : HandleOther(c) => HeldOwn' /\ ListsFollow' /\ UNCHANGED connections
  BY OtherSeen
<1>3. \A c \in Conn : HandlerEnds(c) =>
        /\ HeldOwn' /\ ListsFollow' /\ ~Registered(c)'
        /\ \A d \in Conn : d # c => (Registered(d)' <=> Registered(d))
  BY EndsSeen
<1>4. OpensOnce' /\ \A c \in Conn : ~HandleNameless(c)
  BY <1>1, <1>2, <1>3, OpensNext DEF SeeInv
<1>5. Attended'
  BY <1>1, <1>2, <1>3, AttendedNext DEF SeeInv
<1>6. Resume => HeldOwn' /\ ListsFollow'
  BY ResumeSeen
<1>7. Network => HeldOwn' /\ ListsFollow'
  BY NetworkSeen DEF Network, SeeInv
<1>8. Browsers => HeldOwn' /\ ListsFollow'
  BY BrowsersSeen
<1>9. UNCHANGED lvars => HeldOwn' /\ ListsFollow'
  BY DEF lvars, vars, serverVars, browserVars, SeeInv, HeldOwn, ListsFollow, Listens, Held,
         Registered
<1>10. HeldOwn' /\ ListsFollow'
  BY <1>1, <1>2, <1>3, <1>4, <1>6, <1>7, <1>8, <1>9 DEF LocalNext, Server, HandleFrame
<1> QED BY <1>4, <1>5, <1>10 DEF SeeInv

LEMMA SeeInit == LocalInit => SeeInv
<1> SUFFICES ASSUME LocalInit PROVE SeeInv
  OBVIOUS
<1>1. /\ \A c \in Conn : /\ client[c] = "none" /\ link[c] = "none" /\ serving[c] = "none"
                         /\ toServer[c] = <<>> /\ rest[c] = <<>> /\ ~Registered(c)
  BY DEF LocalInit, Init, Registered
<1>2. DOMAIN <<>> = {}
  OBVIOUS
<1>3. OpensOnce /\ Attended /\ HeldOwn
  BY <1>1, <1>2 DEF OpensOnce, Attended, HeldOwn
<1>4. ListsFollow
  BY <1>1 DEF ListsFollow, Listens
<1> QED BY <1>3, <1>4 DEF SeeInv

\* When nothing is under way the lists that follow are exact.
LEMMA SeenWhenQuiet ==
  ASSUME OneConnectionEach, MailOK, ViewOK, ServingOK, EndsOK, SeeInv
  PROVE  AllSeeEachOther
<1> SUFFICES ASSUME Quiet, NEW c \in Connected
             PROVE  Ids(view[c]) = {PeerOf(d) : d \in Connected \ {c}}
  BY DEF AllSeeEachOther
<1>1. \A d \in Conn : /\ toServer[d] = <<>> /\ toClient[d] = <<>>
                      /\ client[d] = "open" <=> link[d] = "open"
                      /\ serving[d] = "reading" => link[d] = "open"
  BY DEF Quiet
<1>2. \A d \in Conn : Registered(d) <=> d \in Connected
  <2>1. ASSUME NEW d \in Conn, Registered(d) PROVE d \in Connected
    BY <1>1, <2>1 DEF SeeInv, Attended, Connected
  <2>2. ASSUME NEW d \in Connected PROVE Registered(d)
    BY <1>1 DEF SeeInv, Attended, OpensOnce, Connected
  <2> QED BY <2>1, <2>2
<1>3. c \in Conn /\ Listens(c)
  BY <1>1, <1>2 DEF Connected, Listens
<1>4. \A a \in Conn : ~Held(a, c)
  <2>1. \A a \in Conn : rest[a] = <<>>
    BY DEF Quiet, MailOK, RestOK, Suspended, SuspendedIn
  <2>2. DOMAIN <<>> = {}
    OBVIOUS
  <2> QED BY <2>1, <2>2 DEF Held
<1>5. \A p : Shows(view[c], toClient[c], p) <=> p \in Ids(view[c])
  BY <1>1, <1>3 DEF Shows
<1>6. \A a \in Conn : a # c => (PeerOf(a) \in Ids(view[c]) <=> a \in Connected)
  BY <1>2, <1>3, <1>4, <1>5 DEF SeeInv, ListsFollow
<1>7. \A p \in Peer : (\A a \in Conn : p # PeerOf(a)) => p \notin Ids(view[c])
  BY <1>3, <1>5 DEF SeeInv, ListsFollow
<1>8. Ids(view[c]) \subseteq Peer /\ PeerOf(c) \notin Ids(view[c])
  BY <1>3 DEF ViewOK, NotNearItself, Ids, PeerInfo
<1>9. Connected \subseteq Conn
  BY DEF Connected
<1>10. Ids(view[c]) \subseteq {PeerOf(d) : d \in Connected \ {c}}
  BY <1>6, <1>7, <1>8
<1>11. {PeerOf(d) : d \in Connected \ {c}} \subseteq Ids(view[c])
  BY <1>6, <1>9
<1> QED BY <1>10, <1>11

\* "All connected clients should see each other": whatever sockets filled up and
\* whichever tasks were held up on the way, once nothing is under way every
\* browser lists exactly the others, if each uses one connection and has a name.
\* (The server answers the register of a nameless one with an error, and nobody
\* ever lists it.)
THEOREM EverybodySeen ==
  ASSUME OneConnectionEach, Nameless = {} PROVE LocalSpec => []AllSeeEachOther
<1>1. LocalInit => EndsOK
  BY DEF LocalInit, EndsOK
<1>2. EndsOK /\ [LocalNext]_lvars => EndsOK'
  BY EndsNext
<1>3. LocalInit => ServingOK
  BY DEF LocalInit, ServingOK, NoOrphanedRegistration
<1>4. SingleInv /\ FramesOK /\ MailOK /\ ServingOK /\ [LocalNext]_lvars => ServingOK'
  BY ServingNext DEF SingleInv, RegInv, MailOK, QueuesOK, QueuesIn
<1>5. FramesOK /\ SingleInv /\ MailOK /\ FewRegistered /\ ServingOK /\ ViewOK /\ EndsOK
        /\ SeeInv /\ [LocalNext]_lvars => SeeInv'
  BY SeeNext
<1>6. MailOK /\ ViewOK /\ ServingOK /\ EndsOK /\ SeeInv => AllSeeEachOther
  BY SeenWhenQuiet
<1> QED BY <1>1, <1>2, <1>3, <1>4, <1>5, <1>6, SeeInit, FramesInvariant, RegistrySingle,
           MailInvariant, ViewInvariant, PTL DEF LocalSpec
=============================================================================
