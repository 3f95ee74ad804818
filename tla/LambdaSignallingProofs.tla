----------------------- MODULE LambdaSignallingProofs -----------------------
(***************************************************************************)
(* Proofs about LambdaSignalling, for every set of connections, browsers   *)
(* and networks and however many writes lag and calls fail: the types and  *)
(* GroupsApart.                                                            *)
(***************************************************************************)
EXTENDS LambdaSignalling, SequenceTheorems, TLAPS

USE LambdaAssumption

-----------------------------------------------------------------------------
(* The invariant: types.                                                   *)

Item == {None, "placeholder", "registered"}
VersionsType == [Conn -> Seq(Item) \ {<<>>}]

\* What a browser may be sent by other browsers, or as an error.
Letter ==
  [type : {"relayed"}, from : Conn, to : Peer \cup {None}]
    \cup [type : {"error"}, to : Peer \cup {None}]

\* As long as no write has lagged, the index shows the table.
StoreOK ==
  /\ versions \in VersionsType
  /\ lags \in Nat /\ faults \in Nat /\ relays \in Nat
  /\ lags + faults <= MaxTrouble /\ relays <= MaxRelays
  /\ lags = 0 => \A c \in Conn : Len(versions[c]) = 1

BrowsersOK ==
  /\ group \in [Conn -> Group \cup {None}]
  /\ client \in [Conn -> {"none", "open", "gone"}]
  /\ view \in [Conn -> SUBSET {Info(c) : c \in Conn}]
  /\ inbox \in [Conn -> SUBSET Letter]

Task == [step : Steps, todo : SUBSET Conn]

\* A loop that goes on has somebody to tell.
TasksOK ==
  /\ reg \in [Conn -> Task] /\ dis \in [Conn -> Task]
  /\ rel \in [Conn -> [step : Steps, to : Peer \cup {None}, todo : SUBSET Conn]]
  /\ \A c \in Conn : /\ reg[c].step = "tell" => reg[c].todo # {}
                     /\ dis[c].step = "tell" => dis[c].todo # {}

-----------------------------------------------------------------------------
(* The invariant: networks.                                                *)

Came(c) == client[c] # "none"

\* Before a connection opens nothing is known or done about it.
NothingBefore ==
  \A c \in Conn : ~Came(c) =>
    /\ versions[c] = <<None>>
    /\ reg[c].step = "idle" /\ dis[c].step = "idle" /\ rel[c].step = "idle"
    /\ view[c] = {} /\ inbox[c] = {}

\* The groups of connections that came never change.
Near(c, d) == Neighbours(c, d) /\ Came(c) /\ Came(d)

\* The loops under way tell only neighbours, and a message under way is for
\* the browser that its sender named.
LoopsApart ==
  \A c \in Conn :
    /\ \A d \in reg[c].todo \cup dis[c].todo : Near(c, d)
    /\ \A d \in rel[c].todo :
         Came(c) /\ Came(d) /\ group[d] = group[c] /\ PeerOf[d] = rel[c].to

ListsApart ==
  \A c \in Conn : \A p \in Ids(view[c]) : \E d \in Conn : Near(c, d) /\ PeerOf[d] = p

LettersApart ==
  \A c \in Conn : \A m \in inbox[c] : m.type = "relayed" =>
    Came(c) /\ Came(m.from) /\ group[m.from] = group[c] /\ PeerOf[c] = m.to

LambdaInv ==
  /\ StoreOK /\ BrowsersOK /\ TasksOK
  /\ NothingBefore /\ LoopsApart /\ ListsApart /\ LettersApart

-----------------------------------------------------------------------------
(* Writes.                                                                 *)

\* The solver takes the length of a sequence for a number only in this form.
LEMMA Several == \A n \in Nat : n > 1 => n # 0 /\ n # 1
OBVIOUS

LEMMA WriteFacts ==
  ASSUME StoreOK, NEW c \in Conn, NEW item \in Item, Write(c, item)
  PROVE  /\ versions' \in VersionsType
         /\ lags' \in Nat /\ lags' + faults <= MaxTrouble /\ lags <= lags'
         /\ \A d \in Conn : d # c => versions'[d] = versions[d]
         /\ lags' = 0 => versions'[c] = <<item>>
<1>0. versions[c] \in Seq(Item) \ {<<>>} /\ Len(versions[c]) \in Nat /\ Len(versions[c]) # 0
  BY DEF StoreOK, VersionsType
<1>1. CASE /\ Len(versions[c]) = 1
           /\ versions' = [versions EXCEPT ![c] = <<item>>]
           /\ UNCHANGED lags
  <2>1. <<item>> \in Seq(Item) \ {<<>>}
    OBVIOUS
  <2> QED BY <1>1, <2>1 DEF StoreOK, VersionsType
<1>2. CASE /\ lags + faults < MaxTrouble \/ Len(versions[c]) > 1
           /\ versions' = [versions EXCEPT ![c] = Append(@, item)]
           /\ lags' = IF Len(versions[c]) = 1 THEN lags + 1 ELSE lags
  <2>1. Append(versions[c], item) \in Seq(Item) \ {<<>>}
    BY <1>0
  <2>2. versions' \in VersionsType /\ \A d \in Conn : d # c => versions'[d] = versions[d]
    BY <1>2, <2>1 DEF StoreOK, VersionsType
  <2>3. lags' \in Nat /\ lags' + faults <= MaxTrouble /\ lags <= lags' /\ lags' # 0
    <3>1. CASE Len(versions[c]) = 1
      BY <1>2, <3>1 DEF StoreOK
    <3>2. CASE Len(versions[c]) # 1
      BY <1>2, <3>2 DEF StoreOK
    <3> QED BY <3>1, <3>2
  <2> QED BY <2>2, <2>3
<1>3. CASE Len(versions[c]) > 1 /\ UNCHANGED store
  <2>1. UNCHANGED versions /\ UNCHANGED lags
    BY <1>3 DEF store
  <2>2. lags # 0
    BY <1>0, <1>3, Several DEF StoreOK
  <2> QED BY <2>1, <2>2 DEF StoreOK
<1> QED BY <1>1, <1>2, <1>3 DEF Write

LEMMA WriteKeepsStore ==
  ASSUME StoreOK, NEW c \in Conn, NEW item \in Item, Write(c, item),
         UNCHANGED <<relays, faults>>
  PROVE  StoreOK'
<1>1. lags' = 0 => lags = 0
  BY WriteFacts DEF StoreOK
<1>2. \A x : Len(<<x>>) = 1
  OBVIOUS
<1> QED BY <1>1, <1>2, WriteFacts DEF StoreOK

\* A delete, made or failed.
LEMMA RemoveFacts ==
  ASSUME StoreOK, NEW c \in Conn, RemoveConnection(c), UNCHANGED relays
  PROVE  /\ StoreOK'
         /\ \A d \in Conn : d # c => versions'[d] = versions[d]
<1>1. CASE Write(c, None) /\ UNCHANGED faults
  BY <1>1, WriteFacts, WriteKeepsStore DEF Item
<1>2. CASE lags + faults < MaxTrouble /\ faults' = faults + 1 /\ UNCHANGED store
  <2>1. faults' \in Nat /\ lags + faults' <= MaxTrouble
    BY <1>2 DEF StoreOK
  <2> QED BY <1>2, <2>1 DEF StoreOK, store
<1> QED BY <1>1, <1>2 DEF RemoveConnection

\* The copies that lag hold a version that was there.
LEMMA CatchUpFacts ==
  ASSUME StoreOK, NEW c \in Conn, CatchUp(c)
  PROVE  /\ StoreOK'
         /\ lags # 0
         /\ \A d \in Conn : d # c => versions'[d] = versions[d]
<1>1. versions[c] \in Seq(Item) /\ Len(versions[c]) > 1
  BY DEF StoreOK, VersionsType, CatchUp
<1>2. Len(versions[c]) # 1 /\ Len(versions[c]) # 0 /\ versions[c] # <<>>
  BY <1>1, Several, EmptySeq, LenProperties
<1>3. Tail(versions[c]) \in Seq(Item) \ {<<>>}
  <2>1. Tail(versions[c]) \in Seq(Item) /\ Len(Tail(versions[c])) = Len(versions[c]) - 1
    BY <1>1, <1>2, HeadTailProperties
  <2>2. \A n \in Nat : n > 1 => n - 1 # 0
    OBVIOUS
  <2>3. Len(Tail(versions[c])) # 0
    BY <1>1, <2>1, <2>2, LenProperties
  <2> QED BY <2>1, <2>3, EmptySeq
<1>4. versions' \in VersionsType /\ \A d \in Conn : d # c => versions'[d] = versions[d]
  BY <1>3 DEF StoreOK, VersionsType, CatchUp
<1>5. lags # 0
  BY <1>2 DEF StoreOK
<1> QED BY <1>4, <1>5 DEF StoreOK, CatchUp

-----------------------------------------------------------------------------
(* Messages to browsers.                                                   *)

Infos == {Info(c) : c \in Conn}

LEMMA HandleFacts ==
  ASSUME NEW v \in SUBSET Infos, NEW c \in Conn
  PROVE  /\ \A infos \in SUBSET Infos : HandleMessage(v, MsgPeers(infos)) = infos
         /\ HandleMessage(v, MsgJoined(c)) \in SUBSET Infos
         /\ Ids(HandleMessage(v, MsgJoined(c))) = Ids(v) \cup {PeerOf[c]}
         /\ HandleMessage(v, MsgLeft(c)) \in SUBSET Infos
         /\ Ids(HandleMessage(v, MsgLeft(c))) = Ids(v) \ {PeerOf[c]}
         /\ \A d, to : HandleMessage(v, MsgRelayed(d, to)) = v
         /\ \A to : HandleMessage(v, MsgError(to)) = v
<1>1. Info(c) \in Infos /\ Info(c).peer_id = PeerOf[c]
  BY DEF Infos, Info
<1>2. HandleMessage(v, MsgJoined(c)) = HandlePeerJoined(v, Info(c))
  BY DEF HandleMessage, MsgJoined
<1>3. /\ HandlePeerJoined(v, Info(c)) \in SUBSET Infos
      /\ Ids(HandlePeerJoined(v, Info(c))) = Ids(v) \cup {PeerOf[c]}
  BY <1>1 DEF HandlePeerJoined, Ids
<1>4. HandleMessage(v, MsgLeft(c)) = HandlePeerLeft(v, PeerOf[c])
  BY DEF HandleMessage, MsgLeft
<1>5. /\ HandlePeerLeft(v, PeerOf[c]) \in SUBSET Infos
      /\ Ids(HandlePeerLeft(v, PeerOf[c])) = Ids(v) \ {PeerOf[c]}
  BY DEF HandlePeerLeft, Ids
<1>6. \A infos \in SUBSET Infos : HandleMessage(v, MsgPeers(infos)) = infos
  BY DEF HandleMessage, MsgPeers
<1>7. /\ \A d, to : HandleMessage(v, MsgRelayed(d, to)) = v
      /\ \A to : HandleMessage(v, MsgError(to)) = v
  BY DEF HandleMessage, MsgRelayed, MsgError
<1> QED BY <1>2, <1>3, <1>4, <1>5, <1>6, <1>7

\* A body the browser of c may be posted.
Postable(c, body) ==
  /\ HandleMessage(view[c], body) \in SUBSET Infos
  /\ \A p \in Ids(HandleMessage(view[c], body)) :
       \E d \in Conn : Near(c, d) /\ PeerOf[d] = p
  /\ body.type \in {"relayed", "error"} => body \in Letter
  /\ body.type = "relayed" =>
       Came(body.from) /\ group[body.from] = group[c] /\ PeerOf[c] = body.to

\* What a step changes of the store and of the browsers is well formed and
\* about connections that came.
BrowsersKept ==
  /\ StoreOK' /\ BrowsersOK' /\ ListsApart' /\ LettersApart'
  /\ UNCHANGED <<client, group>>
  /\ \A d \in Conn : ~Came(d) => /\ versions'[d] = versions[d]
                                 /\ view'[d] = view[d] /\ inbox'[d] = inbox[d]

LEMMA PostKeepsApart ==
  ASSUME LambdaInv, NEW c \in Conn, Came(c), NEW body, Post(c, body),
         Postable(c, body), UNCHANGED relays
  PROVE  BrowsersKept
<1>0. UNCHANGED <<client, group>>
  BY DEF Post
<1>1. CASE client[c] = "open"
  <2>1. /\ view' = [view EXCEPT ![c] = HandleMessage(@, body)]
        /\ UNCHANGED <<versions, lags, faults>>
    BY <1>1 DEF Post, store
  <2>2. CASE body.type \in {"relayed", "error"}
    <3>1. inbox' = [inbox EXCEPT ![c] = @ \cup {body}] /\ body \in Letter
      BY <1>1, <2>2 DEF Post, Postable
    <3>2. inbox' \in [Conn -> SUBSET Letter] /\ view' \in [Conn -> SUBSET Infos]
      BY <2>1, <3>1 DEF LambdaInv, BrowsersOK, Postable, Infos
    <3>3. inbox'[c] = inbox[c] \cup {body} /\ \A d \in Conn : d # c => inbox'[d] = inbox[d]
      BY <3>1 DEF LambdaInv, BrowsersOK
    <3>4. LettersApart'
      BY <1>0, <3>3 DEF LambdaInv, LettersApart, Postable, Came
    <3>5. view'[c] = HandleMessage(view[c], body) /\ \A d \in Conn : d # c => view'[d] = view[d]
      BY <2>1 DEF LambdaInv, BrowsersOK
    <3>6. ListsApart'
      BY <1>0, <3>5 DEF LambdaInv, ListsApart, Postable, Near, Neighbours, Came
    <3> QED BY <1>0, <2>1, <3>2, <3>3, <3>4, <3>5, <3>6
            DEF BrowsersKept, LambdaInv, StoreOK, BrowsersOK, Infos
  <2>3. CASE body.type \notin {"relayed", "error"}
    <3>1. inbox' = inbox
      BY <1>1, <2>3 DEF Post
    <3>2. view' \in [Conn -> SUBSET Infos]
      BY <2>1 DEF LambdaInv, BrowsersOK, Postable, Infos
    <3>3. LettersApart'
      BY <1>0, <3>1 DEF LambdaInv, LettersApart, Came
    <3>4. view'[c] = HandleMessage(view[c], body) /\ \A d \in Conn : d # c => view'[d] = view[d]
      BY <2>1 DEF LambdaInv, BrowsersOK
    <3>5. ListsApart'
      BY <1>0, <3>4 DEF LambdaInv, ListsApart, Postable, Near, Neighbours, Came
    <3> QED BY <1>0, <2>1, <3>1, <3>2, <3>3, <3>4, <3>5
            DEF BrowsersKept, LambdaInv, StoreOK, BrowsersOK, Infos
  <2> QED BY <2>2, <2>3
<1>2. CASE client[c] # "open"
  <2>1. RemoveConnection(c) /\ UNCHANGED <<view, inbox>>
    BY <1>2 DEF Post
  <2>2. /\ StoreOK'
        /\ \A d \in Conn : d # c => versions'[d] = versions[d]
    BY <2>1, RemoveFacts DEF LambdaInv
  <2>3. BrowsersOK' /\ ListsApart' /\ LettersApart'
    BY <1>0, <2>1
       DEF LambdaInv, BrowsersOK, ListsApart, LettersApart, Near, Neighbours, Came
  <2> QED BY <1>0, <2>1, <2>2, <2>3 DEF BrowsersKept
<1> QED BY <1>1, <1>2

LEMMA WriteKeepsBrowsers ==
  ASSUME LambdaInv, NEW c \in Conn, Came(c), NEW item \in Item, Write(c, item),
         UNCHANGED <<browsers, relays, faults>>
  PROVE  BrowsersKept
<1>1. StoreOK' /\ \A d \in Conn : d # c => versions'[d] = versions[d]
  BY WriteFacts, WriteKeepsStore DEF LambdaInv
<1> QED
  BY <1>1 DEF BrowsersKept, LambdaInv, BrowsersOK, ListsApart, LettersApart, Near,
              Neighbours, Came, browsers

LEMMA RemoveKeepsBrowsers ==
  ASSUME LambdaInv, NEW c \in Conn, Came(c), RemoveConnection(c),
         UNCHANGED <<browsers, relays>>
  PROVE  BrowsersKept
<1>1. StoreOK' /\ \A d \in Conn : d # c => versions'[d] = versions[d]
  BY RemoveFacts DEF LambdaInv
<1> QED
  BY <1>1 DEF BrowsersKept, LambdaInv, BrowsersOK, ListsApart, LettersApart, Near,
              Neighbours, Came, browsers

LEMMA IdleKeepsBrowsers ==
  ASSUME LambdaInv, UNCHANGED browsers, UNCHANGED versions, StoreOK'
  PROVE  BrowsersKept
BY DEF BrowsersKept, LambdaInv, BrowsersOK, ListsApart, LettersApart, Near,
       Neighbours, Came, browsers

-----------------------------------------------------------------------------
(* Invocations.                                                            *)

Relay == [step : Steps, to : Peer \cup {None}, todo : SUBSET Conn]

\* Only the invocations of c, a connection that came, go on.
LEMMA StepKeeps ==
  ASSUME LambdaInv, NEW c \in Conn, Came(c), BrowsersKept, TasksOK',
         \A d \in Conn : d # c => reg'[d] = reg[d] /\ dis'[d] = dis[d] /\ rel'[d] = rel[d],
         \A d \in reg'[c].todo \cup dis'[c].todo : Near(c, d),
         \A d \in rel'[c].todo : Came(d) /\ group[d] = group[c] /\ PeerOf[d] = rel'[c].to
  PROVE  LambdaInv'
<1>1. UNCHANGED <<client, group>>
  BY DEF BrowsersKept
<1>2. NothingBefore'
  BY <1>1 DEF LambdaInv, NothingBefore, BrowsersKept, Came
<1>3. LoopsApart'
  BY <1>1 DEF LambdaInv, LoopsApart, Near, Neighbours, Came
<1> QED BY <1>2, <1>3 DEF LambdaInv, BrowsersKept

LEMMA RegStepKeeps ==
  ASSUME LambdaInv, NEW c \in Conn, Came(c), BrowsersKept, NEW t \in Task,
         t.step = "tell" => t.todo # {}, \A d \in t.todo : Near(c, d),
         reg' = [reg EXCEPT ![c] = t], UNCHANGED <<dis, rel>>
  PROVE  LambdaInv'
<1>1. /\ reg' \in [Conn -> Task] /\ reg'[c] = t
      /\ \A d \in Conn : d # c => reg'[d] = reg[d]
  BY DEF LambdaInv, TasksOK
<1>2. TasksOK'
  BY <1>1 DEF LambdaInv, TasksOK
<1> QED BY <1>1, <1>2, StepKeeps DEF LambdaInv, LoopsApart

LEMMA DisStepKeeps ==
  ASSUME LambdaInv, NEW c \in Conn, Came(c), BrowsersKept, NEW t \in Task,
         t.step = "tell" => t.todo # {}, \A d \in t.todo : Near(c, d),
         dis' = [dis EXCEPT ![c] = t], UNCHANGED <<reg, rel>>
  PROVE  LambdaInv'
<1>1. /\ dis' \in [Conn -> Task] /\ dis'[c] = t
      /\ \A d \in Conn : d # c => dis'[d] = dis[d]
  BY DEF LambdaInv, TasksOK
<1>2. TasksOK'
  BY <1>1 DEF LambdaInv, TasksOK
<1> QED BY <1>1, <1>2, StepKeeps DEF LambdaInv, LoopsApart

LEMMA RelStepKeeps ==
  ASSUME LambdaInv, NEW c \in Conn, Came(c), BrowsersKept, NEW t \in Relay,
         \A d \in t.todo : Came(d) /\ group[d] = group[c] /\ PeerOf[d] = t.to,
         rel' = [rel EXCEPT ![c] = t], UNCHANGED <<reg, dis>>
  PROVE  LambdaInv'
<1>1. /\ rel' \in [Conn -> Relay] /\ rel'[c] = t
      /\ \A d \in Conn : d # c => rel'[d] = rel[d]
  BY DEF LambdaInv, TasksOK, Relay
<1>2. TasksOK'
  BY <1>1 DEF LambdaInv, TasksOK, Relay
<1> QED BY <1>1, <1>2, StepKeeps DEF LambdaInv, LoopsApart

LEMMA GotoFacts ==
  ASSUME NEW c \in Conn, NEW step
  PROVE  /\ \A task \in [Conn -> Task] :
              Goto(task, c, step) =
                [task EXCEPT ![c] = [step |-> step, todo |-> task[c].todo]]
         /\ \A task \in [Conn -> Relay] :
              Goto(task, c, step) =
                [task EXCEPT ![c] = [step |-> step, to |-> task[c].to, todo |-> task[c].todo]]
BY DEF Goto, Task, Relay

LEMMA RestFacts ==
  ASSUME NEW t \in Task, NEW d \in t.todo, NEW after \in {"done", "remove"}
  PROVE  /\ Rest(t, d, after) \in Task
         /\ Rest(t, d, after).step = "tell" => Rest(t, d, after).todo # {}
         /\ Rest(t, d, after).todo = t.todo \ {d}
<1> DEFINE step == IF t.todo = {d} THEN after ELSE t.step
<1>1. Rest(t, d, after) = [step |-> step, todo |-> t.todo \ {d}]
  <2>1. PICK s \in Steps, T \in SUBSET Conn : t = [step |-> s, todo |-> T]
    BY DEF Task
  <2>2. \A U : [[step |-> s, todo |-> T] EXCEPT !.todo = U] = [step |-> s, todo |-> U]
    OBVIOUS
  <2>3. \A u : [[step |-> s, todo |-> T \ {d}] EXCEPT !.step = u]
                 = [step |-> u, todo |-> T \ {d}]
    OBVIOUS
  <2> QED BY <2>1, <2>2, <2>3 DEF Rest
<1>2. step \in Steps /\ t.todo \ {d} \in SUBSET Conn
  BY DEF Task, Steps, Over
<1>3. CASE t.todo = {d}
  BY <1>1, <1>2, <1>3 DEF Task
<1>4. CASE t.todo # {d}
  <2>1. t.todo \ {d} # {}
    BY <1>4
  <2> QED BY <1>1, <1>2, <1>4, <2>1 DEF Task
<1> QED BY <1>3, <1>4

\* Who is registered came, and is found by connections of its own group.
LEMMA GroupPeersNear ==
  ASSUME LambdaInv, NEW c \in Conn, Came(c)
  PROVE  /\ \A d \in GroupPeers(c) : d \in Conn /\ Near(c, d)
         /\ \A to : \A d \in Candidates(c, to) :
              d \in Conn /\ Came(d) /\ group[d] = group[c] /\ PeerOf[d] = to
<1>1. ASSUME NEW d \in Conn, Indexed(d) = "registered"
      PROVE  Came(d)
  <2>1. Head(<<None>>) = None
    OBVIOUS
  <2> QED BY <1>1, <2>1 DEF LambdaInv, NothingBefore, Indexed
<1> QED BY <1>1 DEF GroupPeers, Candidates, Near, Neighbours

\* Who is in the midst of an invocation came.
LEMMA AtWorkCame ==
  ASSUME LambdaInv, NEW c \in Conn,
         reg[c].step # "idle" \/ dis[c].step # "idle" \/ rel[c].step # "idle"
           \/ client[c] = "open"
  PROVE  Came(c)
BY DEF LambdaInv, NothingBefore, Came

\* What the handlers post.
LEMMA PostableFacts ==
  ASSUME LambdaInv, NEW c \in Conn
  PROVE  /\ \A to \in Peer \cup {None} : Postable(c, MsgError(to))
         /\ \A peers \in SUBSET Conn : (\A d \in peers : Near(c, d)) =>
              Postable(c, MsgPeers({Info(d) : d \in peers}))
         /\ \A d \in Conn : Near(c, d) => Postable(c, MsgJoined(d)) /\ Postable(c, MsgLeft(d))
         /\ \A d \in Conn : Came(d) /\ group[d] = group[c] =>
              Postable(c, MsgRelayed(d, PeerOf[c]))
<1>0. view[c] \in SUBSET Infos /\ \A d \in Conn : Info(d) \in Infos
  BY DEF LambdaInv, BrowsersOK, Infos
<1>1. \A p \in Ids(view[c]) : \E d \in Conn : Near(c, d) /\ PeerOf[d] = p
  BY DEF LambdaInv, ListsApart
<1>2. ASSUME NEW to \in Peer \cup {None}
      PROVE  Postable(c, MsgError(to))
  <2>1. HandleMessage(view[c], MsgError(to)) = view[c] /\ MsgError(to) \in Letter
    BY <1>0, HandleFacts DEF MsgError, Letter
  <2>2. MsgError(to).type = "error"
    BY DEF MsgError
  <2> QED BY <1>0, <1>1, <2>1, <2>2 DEF Postable
<1>3. ASSUME NEW peers \in SUBSET Conn, \A d \in peers : Near(c, d)
      PROVE  Postable(c, MsgPeers({Info(d) : d \in peers}))
  <2> DEFINE infos == {Info(d) : d \in peers}
  <2>1. infos \in SUBSET Infos
    BY <1>0
  <2>2. HandleMessage(view[c], MsgPeers(infos)) = infos
    BY <1>0, <2>1, HandleFacts
  <2>3. \A p \in Ids(infos) : \E d \in Conn : Near(c, d) /\ PeerOf[d] = p
    BY <1>3 DEF Ids, Info
  <2>4. MsgPeers(infos).type = "peers"
    BY DEF MsgPeers
  <2> HIDE DEF infos
  <2>5. Postable(c, MsgPeers(infos))
    BY <2>1, <2>2, <2>3, <2>4 DEF Postable
  <2> QED BY <2>5 DEF infos
<1>4. ASSUME NEW d \in Conn, Near(c, d)
      PROVE  Postable(c, MsgJoined(d)) /\ Postable(c, MsgLeft(d))
  <2>1. MsgJoined(d).type = "peer-joined" /\ MsgLeft(d).type = "peer-left"
    BY DEF MsgJoined, MsgLeft
  <2>2. /\ HandleMessage(view[c], MsgJoined(d)) \in SUBSET Infos
        /\ Ids(HandleMessage(view[c], MsgJoined(d))) = Ids(view[c]) \cup {PeerOf[d]}
        /\ HandleMessage(view[c], MsgLeft(d)) \in SUBSET Infos
        /\ Ids(HandleMessage(view[c], MsgLeft(d))) = Ids(view[c]) \ {PeerOf[d]}
    BY <1>0, HandleFacts
  <2> QED BY <1>1, <1>4, <2>1, <2>2 DEF Postable
<1>5. ASSUME NEW d \in Conn, Came(d), group[d] = group[c]
      PROVE  Postable(c, MsgRelayed(d, PeerOf[c]))
  <2>1. /\ HandleMessage(view[c], MsgRelayed(d, PeerOf[c])) = view[c]
        /\ MsgRelayed(d, PeerOf[c]) \in Letter
    BY <1>0, HandleFacts DEF MsgRelayed, Letter
  <2>2. /\ MsgRelayed(d, PeerOf[c]).from = d
        /\ MsgRelayed(d, PeerOf[c]).to = PeerOf[c]
    BY DEF MsgRelayed
  <2> QED BY <1>0, <1>1, <1>5, <2>1, <2>2 DEF Postable
<1> QED BY <1>2, <1>3, <1>4, <1>5

-----------------------------------------------------------------------------
(* handle_connect, _handle_register.                                       *)

LEMMA ConnectKeeps ==
  ASSUME LambdaInv, NEW c \in Conn, NEW g \in Group, HandleConnect(c, g)
  PROVE  LambdaInv'
<1>1. ~Came(c)
  BY DEF HandleConnect, Came
<1>2. /\ StoreOK'
      /\ \A d \in Conn : d # c => versions'[d] = versions[d]
  BY WriteFacts, WriteKeepsStore DEF LambdaInv, HandleConnect, Item
<1>3. /\ group' = [group EXCEPT ![c] = g] /\ client' = [client EXCEPT ![c] = "open"]
      /\ UNCHANGED <<view, inbox, dis, rel>>
  BY DEF HandleConnect
<1>4. /\ group' \in [Conn -> Group \cup {None}]
      /\ client' \in [Conn -> {"none", "open", "gone"}]
      /\ client'[c] = "open"
      /\ \A d \in Conn : d # c => client'[d] = client[d] /\ group'[d] = group[d]
  BY <1>3 DEF LambdaInv, BrowsersOK
<1>5. BrowsersOK'
  BY <1>3, <1>4 DEF LambdaInv, BrowsersOK
<1>6. PICK step \in {"get", "refuse"} : reg' = Goto(reg, c, step)
  BY DEF HandleConnect
<1>7. reg' = [reg EXCEPT ![c] = [step |-> step, todo |-> reg[c].todo]]
  BY <1>6, GotoFacts DEF LambdaInv, TasksOK
<1>8. /\ reg' \in [Conn -> Task] /\ reg'[c].step = step /\ reg'[c].todo = reg[c].todo
      /\ \A d \in Conn : d # c => reg'[d] = reg[d]
  BY <1>7 DEF LambdaInv, TasksOK, Task, Steps
<1>9. TasksOK'
  BY <1>3, <1>8 DEF LambdaInv, TasksOK
<1>10. Came(c)' /\ \A d \in Conn : d # c => Came(d)' = Came(d)
  BY <1>4 DEF Came
<1>11. NothingBefore'
  BY <1>2, <1>3, <1>8, <1>10 DEF LambdaInv, NothingBefore
<1>12. \A d, e \in Conn : Near(d, e) => Near(d, e)'
  BY <1>1, <1>4, <1>10 DEF Near, Neighbours
<1>13. \A d \in Conn : Came(d) => Came(d)' /\ group'[d] = group[d]
  BY <1>1, <1>4, <1>10
<1>14. \A d \in Conn : /\ reg[d].todo \subseteq Conn /\ dis[d].todo \subseteq Conn
                       /\ rel[d].todo \subseteq Conn
                       /\ reg'[d].todo = reg[d].todo
  BY <1>8 DEF LambdaInv, TasksOK, Task
<1>15. LoopsApart'
  BY <1>3, <1>12, <1>13, <1>14 DEF LambdaInv, LoopsApart
<1>16. ListsApart'
  BY <1>3, <1>12 DEF LambdaInv, ListsApart
<1>17. \A d \in Conn : \A m \in inbox[d] : m.type = "relayed" => m.from \in Conn
  BY DEF LambdaInv, BrowsersOK, Letter
<1>18. LettersApart'
  BY <1>3, <1>13, <1>17 DEF LambdaInv, LettersApart
<1> QED BY <1>2, <1>5, <1>9, <1>11, <1>15, <1>16, <1>18 DEF LambdaInv

\* A step that asks the table, and posts and writes nothing.
LEMMA AskKeepsBrowsers ==
  ASSUME LambdaInv, UNCHANGED <<store, browsers, relays, faults>>
  PROVE  BrowsersKept
<1>1. UNCHANGED versions /\ StoreOK' /\ UNCHANGED browsers
  BY DEF LambdaInv, StoreOK, store
<1> QED BY <1>1, IdleKeepsBrowsers

LEMMA RegisterKeeps ==
  ASSUME LambdaInv, NEW c \in Conn, HandleRegister(c)
  PROVE  LambdaInv'
<1>0. Came(c)
  BY AtWorkCame
     DEF HandleRegister, RegisterGet, RegisterRefuse, RegisterPut, RegisterQuery,
         RegisterList, RegisterTell
<1>1. reg \in [Conn -> Task] /\ \A d \in reg[c].todo : Near(c, d)
  BY DEF LambdaInv, TasksOK, LoopsApart
<1>2. ASSUME NEW step \in Steps, step # "tell" \/ reg[c].todo # {}, BrowsersKept,
             reg' = Goto(reg, c, step), UNCHANGED <<dis, rel>>
      PROVE  LambdaInv'
  <2>1. [step |-> step, todo |-> reg[c].todo] \in Task
    BY <1>1 DEF Task
  <2>2. reg' = [reg EXCEPT ![c] = [step |-> step, todo |-> reg[c].todo]]
    BY <1>1, <1>2, GotoFacts
  <2> QED BY <1>0, <1>1, <1>2, <2>1, <2>2, RegStepKeeps
<1>3. CASE RegisterGet(c)
  <2>1. PICK item \in Reads(c) : reg' = Goto(reg, c, IF item = None THEN "refuse" ELSE "put")
    BY <1>3 DEF RegisterGet
  <2>2. BrowsersKept /\ UNCHANGED <<dis, rel>>
    BY <1>3, AskKeepsBrowsers DEF RegisterGet
  <2> QED BY <1>2, <2>1, <2>2 DEF Steps
<1>4. CASE RegisterRefuse(c)
  <2>1. BrowsersKept
    BY <1>0, <1>4, PostableFacts, PostKeepsApart DEF RegisterRefuse
  <2> QED BY <1>2, <1>4, <2>1 DEF RegisterRefuse, Steps, Over
<1>5. CASE RegisterPut(c)
  <2>1. BrowsersKept
    BY <1>0, <1>5, WriteKeepsBrowsers DEF RegisterPut, Item
  <2> QED BY <1>2, <1>5, <2>1 DEF RegisterPut, Steps
<1>6. CASE RegisterQuery(c)
  <2>1. BrowsersKept
    BY <1>6, AskKeepsBrowsers DEF RegisterQuery
  <2>2. [step |-> "list", todo |-> GroupPeers(c)] \in Task
    BY DEF Task, Steps, GroupPeers
  <2> QED BY <1>0, <1>6, <2>1, <2>2, GroupPeersNear, RegStepKeeps DEF RegisterQuery
<1>7. CASE RegisterList(c)
  <2>1. reg[c].todo \in SUBSET Conn
    BY <1>1 DEF Task
  <2>2. BrowsersKept
    BY <1>0, <1>1, <1>7, <2>1, PostableFacts, PostKeepsApart DEF RegisterList
  <2> QED BY <1>2, <1>7, <2>2 DEF RegisterList, Steps, Over
<1>8. CASE RegisterTell(c)
  <2>1. PICK d \in reg[c].todo : Post(d, MsgJoined(c)) /\ reg' = [reg EXCEPT ![c] = Rest(@, d, "done")]
    BY <1>8 DEF RegisterTell
  <2>2. d \in Conn /\ Near(d, c) /\ Came(d)
    BY <1>1 DEF Task, Near, Neighbours
  <2>3. BrowsersKept
    BY <1>8, <2>1, <2>2, PostableFacts, PostKeepsApart DEF RegisterTell
  <2>4. /\ Rest(reg[c], d, "done") \in Task
        /\ Rest(reg[c], d, "done").step = "tell" => Rest(reg[c], d, "done").todo # {}
        /\ Rest(reg[c], d, "done").todo \subseteq reg[c].todo
    BY <1>1, RestFacts
  <2> QED BY <1>0, <1>1, <1>8, <2>1, <2>3, <2>4, RegStepKeeps DEF RegisterTell
<1> QED BY <1>3, <1>4, <1>5, <1>6, <1>7, <1>8 DEF HandleRegister

-----------------------------------------------------------------------------
(* handle_disconnect, handle_default.                                      *)

LEMMA DisconnectKeeps ==
  ASSUME LambdaInv, NEW c \in Conn, HandleDisconnect(c)
  PROVE  LambdaInv'
<1>0. Came(c)
  BY AtWorkCame
     DEF HandleDisconnect, DisconnectGet, DisconnectQuery, DisconnectTell, DisconnectRemove
<1>1. dis \in [Conn -> Task] /\ \A d \in dis[c].todo : Near(c, d)
  BY DEF LambdaInv, TasksOK, LoopsApart
<1>2. ASSUME NEW step \in Steps \ {"tell"}, BrowsersKept,
             dis' = Goto(dis, c, step), UNCHANGED <<reg, rel>>
      PROVE  LambdaInv'
  <2>1. [step |-> step, todo |-> dis[c].todo] \in Task
    BY <1>1 DEF Task
  <2>2. dis' = [dis EXCEPT ![c] = [step |-> step, todo |-> dis[c].todo]]
    BY <1>1, <1>2, GotoFacts
  <2> QED BY <1>0, <1>1, <1>2, <2>1, <2>2, DisStepKeeps
<1>3. CASE DisconnectGet(c)
  <2>1. PICK item \in Reads(c) :
          dis' = Goto(dis, c, IF item = "registered" THEN "query" ELSE "remove")
    BY <1>3 DEF DisconnectGet
  <2>2. BrowsersKept /\ UNCHANGED <<reg, rel>>
    BY <1>3, AskKeepsBrowsers DEF DisconnectGet
  <2> QED BY <1>2, <2>1, <2>2 DEF Steps
<1>4. CASE DisconnectQuery(c)
  <2> DEFINE t == [step |-> IF GroupPeers(c) = {} THEN "remove" ELSE "tell",
                   todo |-> GroupPeers(c)]
  <2>1. BrowsersKept
    BY <1>4, AskKeepsBrowsers DEF DisconnectQuery
  <2>2. t \in Task /\ (t.step = "tell" => t.todo # {}) /\ t.todo = GroupPeers(c)
    BY DEF Task, Steps, GroupPeers
  <2>3. dis' = [dis EXCEPT ![c] = t] /\ UNCHANGED <<reg, rel>>
    BY <1>4 DEF DisconnectQuery
  <2> HIDE DEF t
  <2> QED BY <1>0, <2>1, <2>2, <2>3, GroupPeersNear, DisStepKeeps
<1>5. CASE DisconnectTell(c)
  <2>1. PICK d \in dis[c].todo : Post(d, MsgLeft(c)) /\ dis' = [dis EXCEPT ![c] = Rest(@, d, "remove")]
    BY <1>5 DEF DisconnectTell
  <2>2. d \in Conn /\ Near(d, c) /\ Came(d)
    BY <1>1 DEF Task, Near, Neighbours
  <2>3. BrowsersKept
    BY <1>5, <2>1, <2>2, PostableFacts, PostKeepsApart DEF DisconnectTell
  <2>4. /\ Rest(dis[c], d, "remove") \in Task
        /\ Rest(dis[c], d, "remove").step = "tell" => Rest(dis[c], d, "remove").todo # {}
        /\ Rest(dis[c], d, "remove").todo \subseteq dis[c].todo
    BY <1>1, RestFacts
  <2> QED BY <1>0, <1>1, <1>5, <2>1, <2>3, <2>4, DisStepKeeps DEF DisconnectTell
<1>6. CASE DisconnectRemove(c)
  <2>1. BrowsersKept
    BY <1>0, <1>6, RemoveKeepsBrowsers DEF DisconnectRemove
  <2> QED BY <1>2, <1>6, <2>1 DEF DisconnectRemove, Steps, Over
<1> QED BY <1>3, <1>4, <1>5, <1>6 DEF HandleDisconnect

LEMMA DefaultKeeps ==
  ASSUME LambdaInv, NEW c \in Conn, HandleDefault(c)
  PROVE  LambdaInv'
<1>0. Came(c)
  BY AtWorkCame DEF HandleDefault, RelayGet, RelayFind, RelayPost, RelayRefuse
<1>1. /\ rel \in [Conn -> Relay]
      /\ \A d \in rel[c].todo : Came(d) /\ group[d] = group[c] /\ PeerOf[d] = rel[c].to
  BY DEF LambdaInv, TasksOK, LoopsApart, Relay
<1>2. ASSUME NEW step \in Steps, BrowsersKept,
             rel' = Goto(rel, c, step), UNCHANGED <<reg, dis>>
      PROVE  LambdaInv'
  <2> DEFINE t == [step |-> step, to |-> rel[c].to, todo |-> rel[c].todo]
  <2>1. t \in Relay /\ t.to = rel[c].to /\ t.todo = rel[c].todo
    BY <1>1 DEF Relay
  <2>2. rel' = [rel EXCEPT ![c] = t]
    BY <1>1, <1>2, GotoFacts
  <2> HIDE DEF t
  <2> QED BY <1>0, <1>1, <1>2, <2>1, <2>2, RelStepKeeps
<1>3. CASE RelayGet(c)
  <2>1. PICK item \in Reads(c) :
          rel' = Goto(rel, c, IF item = "registered" /\ rel[c].to # None
                                THEN "find" ELSE "refuse")
    BY <1>3 DEF RelayGet
  <2>2. BrowsersKept /\ UNCHANGED <<reg, dis>>
    BY <1>3, AskKeepsBrowsers DEF RelayGet
  <2> QED BY <1>2, <2>1, <2>2 DEF Steps
<1>4. ASSUME NEW step \in Steps, NEW todo \in SUBSET Conn, BrowsersKept,
             rel' = [rel EXCEPT ![c] = [step |-> step, to |-> @.to, todo |-> todo]],
             \A d \in todo : Came(d) /\ group[d] = group[c] /\ PeerOf[d] = rel[c].to,
             UNCHANGED <<reg, dis>>
      PROVE  LambdaInv'
  <2> DEFINE t == [step |-> step, to |-> rel[c].to, todo |-> todo]
  <2>1. t \in Relay /\ t.to = rel[c].to /\ t.todo = todo
    BY <1>1 DEF Relay
  <2>2. rel' = [rel EXCEPT ![c] = t]
    BY <1>4
  <2> HIDE DEF t
  <2> QED BY <1>0, <1>4, <2>1, <2>2, RelStepKeeps
<1>5. CASE RelayFind(c)
  <2>1. BrowsersKept /\ UNCHANGED <<reg, dis>>
    BY <1>5, AskKeepsBrowsers DEF RelayFind
  <2>2. CASE rel' = Goto(rel, c, "refuse")
    BY <1>2, <2>1, <2>2 DEF Steps
  <2>3. ASSUME NEW d \in Candidates(c, rel[c].to),
               rel' = [rel EXCEPT ![c] = [step |-> "post", to |-> @.to, todo |-> {d}]]
        PROVE  LambdaInv'
    <3>1. d \in Conn /\ Came(d) /\ group[d] = group[c] /\ PeerOf[d] = rel[c].to
      BY <1>0, GroupPeersNear
    <3>2. {d} \in SUBSET Conn /\ "post" \in Steps
      BY <3>1 DEF Steps
    <3> QED BY <1>4, <2>1, <2>3, <3>1, <3>2
  <2> QED BY <1>5, <2>2, <2>3 DEF RelayFind
<1>6. CASE RelayPost(c)
  <2>1. PICK d \in rel[c].todo : Post(d, MsgRelayed(c, rel[c].to))
    BY <1>6 DEF RelayPost
  <2>2. d \in Conn /\ Came(d) /\ group[d] = group[c] /\ PeerOf[d] = rel[c].to
    BY <1>1 DEF Relay
  <2>3. Postable(d, MsgRelayed(c, rel[c].to))
    BY <1>0, <2>2, PostableFacts
  <2>4. BrowsersKept
    BY <1>6, <2>1, <2>2, <2>3, PostKeepsApart DEF RelayPost
  <2>5. {} \in SUBSET Conn /\ "done" \in Steps /\ UNCHANGED <<reg, dis>>
    BY <1>6 DEF RelayPost, Steps, Over
  <2>6. rel' = [rel EXCEPT ![c] = [step |-> "done", to |-> @.to, todo |-> {}]]
    BY <1>6 DEF RelayPost
  <2> QED BY <1>4, <2>4, <2>5, <2>6
<1>7. CASE RelayRefuse(c)
  <2>1. rel[c].to \in Peer \cup {None}
    BY <1>1 DEF Relay
  <2>2. BrowsersKept
    BY <1>0, <1>7, <2>1, PostableFacts, PostKeepsApart DEF RelayRefuse
  <2> QED BY <1>2, <1>7, <2>2 DEF RelayRefuse, Steps, Over
<1> QED BY <1>3, <1>5, <1>6, <1>7 DEF HandleDefault

-----------------------------------------------------------------------------
(* The browsers, the failing calls and the copies.                         *)

LEMMA SendKeeps ==
  ASSUME LambdaInv, NEW c \in Conn, NEW to \in Peer \cup {None}, SendRelay(c, to)
  PROVE  LambdaInv'
<1> DEFINE t == [step |-> "get", to |-> to, todo |-> {}]
<1>1. Came(c)
  BY AtWorkCame DEF SendRelay
<1>2. t \in Relay /\ t.todo = {}
  BY DEF Relay, Steps
<1>3. rel' = [rel EXCEPT ![c] = t] /\ UNCHANGED <<reg, dis>>
  BY DEF SendRelay
<1>4. UNCHANGED <<versions, lags, faults, browsers>> /\ relays' \in Nat /\ relays' <= MaxRelays
  BY DEF SendRelay, LambdaInv, StoreOK, store
<1>5. StoreOK'
  BY <1>4 DEF LambdaInv, StoreOK
<1>6. BrowsersKept
  BY <1>4, <1>5, IdleKeepsBrowsers
<1> HIDE DEF t
<1> QED BY <1>1, <1>2, <1>3, <1>6, RelStepKeeps

LEMMA LeaveKeeps ==
  ASSUME LambdaInv, NEW c \in Conn, Leave(c)
  PROVE  LambdaInv'
<1>1. /\ client' = [client EXCEPT ![c] = "gone"]
      /\ view' = [view EXCEPT ![c] = {}] /\ inbox' = [inbox EXCEPT ![c] = {}]
      /\ UNCHANGED <<versions, lags, group, reg, rel, relays, faults>>
      /\ client[c] = "open"
  BY DEF Leave, store
<1>2. StoreOK'
  BY <1>1 DEF LambdaInv, StoreOK
<1>3. BrowsersOK'
  BY <1>1 DEF LambdaInv, BrowsersOK
<1>4. \A d \in Conn : Came(d)' <=> Came(d)
  BY <1>1 DEF LambdaInv, BrowsersOK, Came
<1>5. /\ view'[c] = {} /\ inbox'[c] = {}
      /\ \A d \in Conn : d # c => view'[d] = view[d] /\ inbox'[d] = inbox[d]
  BY <1>1 DEF LambdaInv, BrowsersOK
<1>6. dis' = [dis EXCEPT ![c] = [step |-> "get", todo |-> dis[c].todo]]
  BY GotoFacts DEF Leave, LambdaInv, TasksOK
<1>7. /\ dis' \in [Conn -> Task] /\ dis'[c].step = "get"
      /\ \A d \in Conn : dis'[d].todo = dis[d].todo
      /\ \A d \in Conn : d # c => dis'[d] = dis[d]
  BY <1>6 DEF LambdaInv, TasksOK, Task, Steps
<1>8. TasksOK'
  BY <1>1, <1>7 DEF LambdaInv, TasksOK
<1>9. NothingBefore'
  BY <1>1, <1>4, <1>5, <1>7 DEF LambdaInv, NothingBefore, Came
<1>10. \A d, e \in Conn : Near(d, e)' <=> Near(d, e)
  BY <1>1, <1>4 DEF Near, Neighbours
<1>11. \A d \in Conn : /\ reg[d].todo \subseteq Conn /\ dis[d].todo \subseteq Conn
                       /\ rel[d].todo \subseteq Conn
  BY DEF LambdaInv, TasksOK, Task
<1>12. LoopsApart'
  BY <1>1, <1>4, <1>7, <1>10, <1>11 DEF LambdaInv, LoopsApart
<1>13. ListsApart'
  BY <1>5, <1>10 DEF LambdaInv, ListsApart, Ids
<1>14. \A d \in Conn : \A m \in inbox[d] : m.type = "relayed" => m.from \in Conn
  BY DEF LambdaInv, BrowsersOK, Letter
<1>15. LettersApart'
  BY <1>1, <1>4, <1>5, <1>14 DEF LambdaInv, LettersApart
<1> QED BY <1>2, <1>3, <1>8, <1>9, <1>12, <1>13, <1>15 DEF LambdaInv

LEMMA AbortKeeps ==
  ASSUME LambdaInv, NEW c \in Conn, Abort(c)
  PROVE  LambdaInv'
<1>1. UNCHANGED <<versions, lags, relays, browsers>>
  BY DEF Abort, store
<1>2. faults' \in Nat /\ lags + faults' <= MaxTrouble
  BY DEF Abort, LambdaInv, StoreOK
<1>3. StoreOK'
  BY <1>1, <1>2 DEF LambdaInv, StoreOK
<1>4. BrowsersKept
  BY <1>1, <1>3, IdleKeepsBrowsers
<1>5. Came(c)
  BY AtWorkCame DEF Abort, Over
<1>6. [step |-> "aborted", todo |-> {}] \in Task
  BY DEF Task, Steps, Over
<1>7. CASE reg' = [reg EXCEPT ![c] = [step |-> "aborted", todo |-> {}]] /\ UNCHANGED <<dis, rel>>
  BY <1>4, <1>5, <1>6, <1>7, RegStepKeeps
<1>8. CASE dis' = [dis EXCEPT ![c] = [step |-> "aborted", todo |-> {}]] /\ UNCHANGED <<reg, rel>>
  BY <1>4, <1>5, <1>6, <1>8, DisStepKeeps
<1>9. CASE rel' = [rel EXCEPT ![c] = [step |-> "aborted", to |-> @.to, todo |-> {}]] /\ UNCHANGED <<reg, dis>>
  <2> DEFINE t == [step |-> "aborted", to |-> rel[c].to, todo |-> {}]
  <2>1. t \in Relay /\ t.todo = {}
    BY DEF LambdaInv, TasksOK, Relay, Steps, Over
  <2>2. rel' = [rel EXCEPT ![c] = t]
    BY <1>9
  <2> HIDE DEF t
  <2> QED BY <1>4, <1>5, <1>9, <2>1, <2>2, RelStepKeeps
<1> QED BY <1>7, <1>8, <1>9 DEF Abort

LEMMA CatchUpKeeps ==
  ASSUME LambdaInv, NEW c \in Conn, CatchUp(c)
  PROVE  LambdaInv'
<1>1. UNCHANGED <<browsers, reg, dis, rel>>
  BY DEF CatchUp
<1>2. StoreOK' /\ \A d \in Conn : d # c => versions'[d] = versions[d]
  BY CatchUpFacts DEF LambdaInv
<1>3. Came(c)
  <2>1. Len(<<None>>) = 1 /\ ~(1 > 1)
    OBVIOUS
  <2> QED BY <2>1 DEF CatchUp, LambdaInv, NothingBefore
<1>4. BrowsersKept
  BY <1>1, <1>2, <1>3
     DEF BrowsersKept, LambdaInv, BrowsersOK, ListsApart, LettersApart, Near,
         Neighbours, Came, browsers
<1>5. TasksOK'
  BY <1>1 DEF LambdaInv, TasksOK
<1> QED BY <1>1, <1>3, <1>4, <1>5, StepKeeps DEF LambdaInv, LoopsApart

-----------------------------------------------------------------------------
(* The theorems.                                                           *)

LEMMA LambdaInvInit == LambdaInit => LambdaInv
<1> SUFFICES ASSUME LambdaInit PROVE LambdaInv
  OBVIOUS
<1>1. <<None>> \in Seq(Item) \ {<<>>} /\ Len(<<None>>) = 1
  BY DEF Item
<1>2. StoreOK
  BY <1>1 DEF LambdaInit, StoreOK, VersionsType
<1>3. BrowsersOK /\ NothingBefore /\ ListsApart /\ LettersApart
  BY DEF LambdaInit, BrowsersOK, NothingBefore, ListsApart, LettersApart, Ids
<1>4. /\ [step |-> "idle", todo |-> {}] \in Task
      /\ [step |-> "idle", to |-> None, todo |-> {}] \in Relay
  BY DEF Task, Relay, Steps, Over
<1>5. /\ reg \in [Conn -> Task] /\ dis \in [Conn -> Task] /\ rel \in [Conn -> Relay]
      /\ \A c \in Conn : reg[c].step # "tell" /\ dis[c].step # "tell"
      /\ \A c \in Conn : reg[c].todo = {} /\ dis[c].todo = {} /\ rel[c].todo = {}
  BY <1>4 DEF LambdaInit
<1>6. TasksOK /\ LoopsApart
  BY <1>5 DEF TasksOK, LoopsApart, Relay
<1> QED BY <1>2, <1>3, <1>6 DEF LambdaInv

LEMMA LambdaInvNext == LambdaInv /\ [LambdaNext]_lvars => LambdaInv'
<1> SUFFICES ASSUME LambdaInv, [LambdaNext]_lvars PROVE LambdaInv'
  OBVIOUS
<1>1. ASSUME NEW c \in Conn,
             \/ \E g \in Group : HandleConnect(c, g)
             \/ HandleRegister(c) \/ HandleDisconnect(c) \/ HandleDefault(c)
             \/ \E to \in Peer \cup {None} : SendRelay(c, to)
             \/ Leave(c) \/ Abort(c) \/ CatchUp(c)
      PROVE  LambdaInv'
  BY <1>1, ConnectKeeps, RegisterKeeps, DisconnectKeeps, DefaultKeeps, SendKeeps,
     LeaveKeeps, AbortKeeps, CatchUpKeeps
<1>2. CASE UNCHANGED lvars
  <2>1. /\ UNCHANGED <<versions, lags, faults, relays, client, group, view, inbox>>
        /\ UNCHANGED <<reg, dis, rel>>
    BY <1>2 DEF lvars, store, browsers
  <2>2. StoreOK' /\ BrowsersOK' /\ TasksOK'
    BY <2>1 DEF LambdaInv, StoreOK, BrowsersOK, TasksOK
  <2>3. NothingBefore'
    BY <2>1 DEF LambdaInv, NothingBefore, Came
  <2>4. LoopsApart'
    BY <2>1 DEF LambdaInv, LoopsApart, Near, Neighbours, Came
  <2>5. ListsApart' /\ LettersApart'
    BY <2>1 DEF LambdaInv, ListsApart, LettersApart, Near, Neighbours, Came
  <2> QED BY <2>2, <2>3, <2>4, <2>5 DEF LambdaInv
<1> QED BY <1>1, <1>2 DEF LambdaNext

LEMMA LambdaInvariant == LambdaSpec => []LambdaInv
BY LambdaInvInit, LambdaInvNext, PTL DEF LambdaSpec

\* The variables of the server and of the browsers have their types, and a
\* loop of _handle_register or handle_disconnect that goes on has somebody to
\* tell.
THEOREM LambdaTypeCorrect == LambdaSpec => []LambdaTypeOK
<1>1. LambdaInv => LambdaTypeOK
  BY DEF LambdaInv, StoreOK, BrowsersOK, TasksOK, LambdaTypeOK, VersionsType, Item, Task
<1> QED BY <1>1, LambdaInvariant, PTL

\* Nothing passes from one network to another, for any number of connections
\* and networks, and whatever fails or lags: the list of a browser names peers
\* of its own group, and _find_peer_connection hands a message to the browser
\* it is for and from a connection of its group.
THEOREM GroupsStayApart == LambdaSpec => []GroupsApart
<1>1. LambdaInv => GroupsApart
  BY DEF LambdaInv, ListsApart, LettersApart, GroupsApart, Near
<1> QED BY <1>1, LambdaInvariant, PTL
=============================================================================
