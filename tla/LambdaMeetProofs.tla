-------------------------- MODULE LambdaMeetProofs --------------------------
(***************************************************************************)
(* Proofs about LambdaSignalling while the index keeps up with the table   *)
(* and every browser connects once: OneSeesTheOther and NotFoundIsTrue,    *)
(* for every set of connections and networks and whatever calls fail.      *)
(***************************************************************************)
EXTENDS LambdaSignallingProofs

USE LambdaAssumption

\* No browser comes back on another connection.  Without it both properties
\* fail: the $disconnect of the first connection takes the second one's peer
\* off the lists.
OneConnectionEach == \A c, d \in Conn : PeerOf[c] = PeerOf[d] => c = d

-----------------------------------------------------------------------------
(* The invariant.                                                          *)

Shown(c) == Indexed(c) = "registered"

\* $disconnect follows the end of the connection.
Ended == \A c \in Conn : dis[c].step # "idle" => client[c] = "gone"

Stored == {"query", "list", "tell", "done"}

\* Who is registered, listed or told about stays in the index while connected.
StayShown ==
  /\ \A c \in Conn :
       client[c] = "open" /\ (reg[c].step \in Stored \/ Ids(view[c]) # {}) => Shown(c)
  /\ \A c, d \in Conn :
       client[d] = "open" /\ (d \in reg[c].todo \/ PeerOf[d] \in Ids(view[c])) => Shown(d)

\* A message under way goes to a neighbour; both can be found.
SentShown ==
  \A c, d \in Conn : rel[c].to = PeerOf[d] =>
    /\ Near(c, d)
    /\ client[c] = "open" => Shown(c)
    /\ client[d] = "open" => Shown(d)

RefusedGone ==
  \A c, d \in Conn :
    client[c] = "open" /\ rel[c].step = "refuse" /\ rel[c].to = PeerOf[d] => client[d] = "gone"

ErrorsTrue == \A c, d \in Conn : MsgError(PeerOf[d]) \in inbox[c] => client[d] = "gone"

\* What the register invocation of c has, or will have, put on the list of c.
Knows(c, d) ==
  \/ reg[c].step = "query"
  \/ reg[c].step = "list" /\ d \in reg[c].todo
  \/ reg[c].step \in {"tell", "done"} /\ PeerOf[d] \in Ids(view[c])

\* Of two items the one written last was written when the other was there.
OneKnows ==
  \A c, d \in Conn :
    (/\ Near(c, d) /\ client[c] = "open" /\ client[d] = "open"
     /\ reg[c].step \in Stored /\ reg[d].step \in Stored) => Knows(c, d) \/ Knows(d, c)

Prompt == StayShown /\ SentShown /\ RefusedGone /\ ErrorsTrue /\ OneKnows

MeetInv == LambdaInv /\ Ended /\ (lags = 0 => Prompt)

-----------------------------------------------------------------------------
(* The store and the lists, as long as no write lags.                      *)

LEMMA AtOnce ==
  ASSUME LambdaInv, lags = 0, NEW c \in Conn
  PROVE  versions[c] = <<Indexed(c)>> /\ Reads(c) = {Indexed(c)}
<1>1. versions[c] \in Seq(Item) /\ Len(versions[c]) = 1
  BY DEF LambdaInv, StoreOK, VersionsType
<1>2. versions[c] = <<versions[c][1]>>
  BY <1>1
<1>3. \A x : Head(<<x>>) = x /\ ToSet(<<x>>) = {x}
  BY DEF ToSet
<1> QED BY <1>2, <1>3 DEF Indexed, Reads

LEMMA WriteShown ==
  ASSUME LambdaInv, NEW c \in Conn, NEW item \in Item, Write(c, item), lags' = 0
  PROVE  /\ lags = 0
         /\ \A d \in Conn : d # c => (Shown(d)' <=> Shown(d))
         /\ Shown(c)' <=> item = "registered"
<1>1. \A x : Head(<<x>>) = x
  OBVIOUS
<1>2. lags = 0
  BY WriteFacts DEF LambdaInv, StoreOK
<1>3. /\ \A d \in Conn : d # c => versions'[d] = versions[d]
      /\ versions'[c] = <<item>>
  BY WriteFacts DEF LambdaInv
<1> QED BY <1>1, <1>2, <1>3 DEF Shown, Indexed

\* A delete, made or failed.
LEMMA RemoveShown ==
  ASSUME LambdaInv, NEW c \in Conn, RemoveConnection(c), lags' = 0
  PROVE  /\ lags = 0
         /\ \A d \in Conn : d # c => (Shown(d)' <=> Shown(d))
<1>1. CASE Write(c, None)
  BY <1>1, WriteShown DEF Item
<1>2. CASE UNCHANGED store
  BY <1>2 DEF store, Shown, Indexed
<1> QED BY <1>1, <1>2 DEF RemoveConnection

\* What a post leaves alone.
LEMMA PostShown ==
  ASSUME LambdaInv, NEW c \in Conn, NEW body, Post(c, body), lags' = 0
  PROVE  /\ lags = 0
         /\ UNCHANGED <<client, group>>
         /\ \A d \in Conn : client[d] = "open" => (Shown(d)' <=> Shown(d))
         /\ \A d \in Conn : d # c => view'[d] = view[d] /\ inbox'[d] = inbox[d]
         /\ client[c] = "open" => view'[c] = HandleMessage(view[c], body)
         /\ client[c] # "open" => view'[c] = view[c]
         /\ inbox'[c] = inbox[c] \/ (client[c] = "open" /\ inbox'[c] = inbox[c] \cup {body})
         /\ body.type \notin {"relayed", "error"} => UNCHANGED inbox
<1>1. CASE client[c] = "open"
  <2>1. /\ view' = [view EXCEPT ![c] = HandleMessage(@, body)]
        /\ inbox' = IF body.type \in {"relayed", "error"}
                      THEN [inbox EXCEPT ![c] = @ \cup {body}] ELSE inbox
        /\ UNCHANGED <<versions, lags, client, group>>
    BY <1>1 DEF Post, store
  <2>2. \A d \in Conn : Shown(d)' <=> Shown(d)
    BY <2>1 DEF Shown, Indexed
  <2>3. view'[c] = HandleMessage(view[c], body) /\ \A d \in Conn : d # c => view'[d] = view[d]
    BY <2>1 DEF LambdaInv, BrowsersOK
  <2>4. /\ \A d \in Conn : d # c => inbox'[d] = inbox[d]
        /\ inbox'[c] = inbox[c] \/ inbox'[c] = inbox[c] \cup {body}
    BY <2>1 DEF LambdaInv, BrowsersOK
  <2> QED BY <1>1, <2>1, <2>2, <2>3, <2>4
<1>2. CASE client[c] # "open"
  <2>1. RemoveConnection(c) /\ UNCHANGED <<view, inbox, client, group>>
    BY <1>2 DEF Post
  <2> QED BY <1>2, <2>1, RemoveShown
<1> QED BY <1>1, <1>2

LEMMA EndedKept ==
  ASSUME LambdaInv, Ended, NEW c \in Conn,
         \/ \E g \in Group : HandleConnect(c, g)
         \/ HandleRegister(c) \/ HandleDisconnect(c) \/ HandleDefault(c)
         \/ \E to \in Peer \cup {None} : SendRelay(c, to)
         \/ Leave(c) \/ Abort(c) \/ CatchUp(c)
  PROVE  Ended'
<1>1. CASE \E g \in Group : HandleConnect(c, g)
  <2>1. UNCHANGED dis /\ client' = [client EXCEPT ![c] = "open"] /\ client[c] = "none"
    BY <1>1 DEF HandleConnect
  <2> QED BY <2>1 DEF Ended, LambdaInv, BrowsersOK
<1>2. CASE HandleRegister(c) \/ HandleDefault(c) \/ CatchUp(c)
            \/ \E to \in Peer \cup {None} : SendRelay(c, to)
  <2>1. HandleRegister(c) => UNCHANGED <<dis, client>>
    BY DEF HandleRegister, RegisterGet, RegisterRefuse, RegisterPut, RegisterQuery,
           RegisterList, RegisterTell, Post, browsers
  <2>2. HandleDefault(c) => UNCHANGED <<dis, client>>
    BY DEF HandleDefault, RelayGet, RelayFind, RelayPost, RelayRefuse, Post, browsers
  <2>3. CatchUp(c) \/ (\E to \in Peer \cup {None} : SendRelay(c, to)) => UNCHANGED <<dis, client>>
    BY DEF SendRelay, CatchUp, browsers
  <2> QED BY <1>2, <2>1, <2>2, <2>3 DEF Ended
<1>3. CASE HandleDisconnect(c) \/ Abort(c)
  <2>1. UNCHANGED client /\ \A d \in Conn : d # c => dis'[d] = dis[d]
    BY <1>3
       DEF HandleDisconnect, DisconnectGet, DisconnectQuery, DisconnectTell,
           DisconnectRemove, Abort, Goto, Post, browsers, LambdaInv, TasksOK
  <2>2. dis[c].step # "idle" \/ dis' = dis
    BY <1>3
       DEF HandleDisconnect, DisconnectGet, DisconnectQuery, DisconnectTell,
           DisconnectRemove, Abort, Over
  <2> QED BY <2>1, <2>2 DEF Ended
<1>4. CASE Leave(c)
  <2>1. client' = [client EXCEPT ![c] = "gone"] /\ dis' = Goto(dis, c, "get")
    BY <1>4 DEF Leave
  <2>2. /\ client'[c] = "gone" /\ \A d \in Conn : d # c => client'[d] = client[d]
        /\ \A d \in Conn : d # c => dis'[d] = dis[d]
    BY <2>1 DEF LambdaInv, TasksOK, BrowsersOK, Goto
  <2> QED BY <2>2 DEF Ended
<1> QED BY <1>1, <1>2, <1>3, <1>4

-----------------------------------------------------------------------------
(* Steps that leave the lists alone.                                       *)

Steady ==
  /\ UNCHANGED <<client, group, view>> /\ ErrorsTrue'
  /\ \A d \in Conn : client[d] = "open" /\ Shown(d) => Shown(d)'

LEMMA SameIsSteady ==
  ASSUME Prompt, UNCHANGED <<versions, browsers>>
  PROVE  Steady
BY DEF Prompt, ErrorsTrue, Steady, Shown, Indexed, browsers

\* The register invocation of c turns to a step after which nothing is known.
LEMMA RegisterAside ==
  ASSUME Prompt, NEW c \in Conn, Steady, UNCHANGED rel,
         \A d \in Conn : d # c => reg'[d] = reg[d],
         reg'[c].step \notin Stored, reg'[c].todo \subseteq reg[c].todo
  PROVE  Prompt'
<1>1. StayShown'
  BY DEF Prompt, StayShown, Steady
<1>2. SentShown' /\ RefusedGone'
  BY DEF Prompt, SentShown, RefusedGone, Near, Neighbours, Came, Steady
<1>3. OneKnows'
  BY DEF Prompt, OneKnows, Knows, Near, Neighbours, Came, Steady
<1> QED BY <1>1, <1>2, <1>3 DEF Prompt, Steady

\* A relay goes on.
LEMMA RelayAside ==
  ASSUME Prompt, NEW c \in Conn, Steady, UNCHANGED reg,
         \A d \in Conn : d # c => rel'[d] = rel[d], rel'[c].to = rel[c].to,
         \A d \in Conn : (client[c] = "open" /\ rel'[c].step = "refuse" /\ rel[c].to = PeerOf[d])
                           => client[d] = "gone"
  PROVE  Prompt'
<1>1. StayShown' /\ OneKnows'
  <2>1. StayShown'
    BY DEF Prompt, StayShown, Steady
  <2>2. OneKnows'
    BY DEF Prompt, OneKnows, Knows, Near, Neighbours, Came, Steady
  <2> QED BY <2>1, <2>2
<1>2. \A d \in Conn : rel'[d].to = rel[d].to
  OBVIOUS
<1>3. SentShown'
  BY <1>2 DEF Prompt, SentShown, Near, Neighbours, Came, Steady
<1>4. RefusedGone'
  BY DEF Prompt, RefusedGone, Steady
<1> QED BY <1>1, <1>3, <1>4 DEF Prompt, Steady

LEMMA PromptSame ==
  ASSUME Prompt, Steady, UNCHANGED <<reg, rel>>
  PROVE  Prompt'
<1>1. \A d, e \in Conn : (Near(d, e)' <=> Near(d, e)) /\ (Knows(d, e)' <=> Knows(d, e))
  BY DEF Near, Neighbours, Came, Knows, Steady
<1>2. StayShown' /\ OneKnows'
  BY <1>1 DEF Prompt, StayShown, OneKnows, Steady
<1>3. SentShown' /\ RefusedGone'
  BY <1>1 DEF Prompt, SentShown, RefusedGone, Steady
<1> QED BY <1>2, <1>3 DEF Prompt, Steady

\* Before the invocation asks who is registered it has written its own item,
\* and it hears of all those in the index.
LEMMA QueryKeepsPrompt ==
  ASSUME LambdaInv, Prompt, NEW c \in Conn, RegisterQuery(c)
  PROVE  Prompt'
<1>1. UNCHANGED <<versions, browsers, rel>>
  BY DEF RegisterQuery, store
<1>2. /\ reg[c].step = "query" /\ reg'[c].step = "list" /\ reg'[c].todo = GroupPeers(c)
      /\ \A d \in Conn : d # c => reg'[d] = reg[d]
  BY DEF RegisterQuery, LambdaInv, TasksOK
<1>3. \A d \in Conn : d \in GroupPeers(c) <=> (d # c /\ group[d] = group[c] /\ Shown(d))
  BY DEF GroupPeers, Shown
<1>4. StayShown'
  BY <1>1, <1>2, <1>3 DEF Prompt, StayShown, Shown, Indexed, browsers, Stored
<1>5. SentShown' /\ RefusedGone' /\ ErrorsTrue'
  BY <1>1 DEF Prompt, SentShown, RefusedGone, ErrorsTrue, Near, Neighbours, Came, Shown,
              Indexed, browsers
<1>6. OneKnows'
  <2> SUFFICES ASSUME NEW a \in Conn, NEW b \in Conn, Near(a, b)',
                      client'[a] = "open", client'[b] = "open",
                      reg'[a].step \in Stored, reg'[b].step \in Stored
               PROVE  (Knows(a, b) \/ Knows(b, a))'
    BY DEF OneKnows
  <2>1. Near(a, b) /\ client[a] = "open" /\ client[b] = "open" /\ a # b /\ group[a] = group[b]
    BY <1>1 DEF Near, Neighbours, Came, browsers
  <2>2. reg[a].step \in Stored /\ reg[b].step \in Stored
    BY <1>2 DEF Stored
  <2>3. Shown(a) /\ Shown(b)
    BY <2>1, <2>2 DEF Prompt, StayShown
  <2>4. CASE a = c
    BY <1>2, <1>3, <2>1, <2>3, <2>4 DEF Knows
  <2>5. CASE b = c
    BY <1>2, <1>3, <2>1, <2>3, <2>5 DEF Knows
  <2>6. CASE a # c /\ b # c
    BY <1>1, <1>2, <2>1, <2>2, <2>6 DEF Prompt, OneKnows, Knows, browsers
  <2> QED BY <2>4, <2>5, <2>6
<1> QED BY <1>4, <1>5, <1>6 DEF Prompt

LEMMA RelayKeepsPrompt ==
  ASSUME LambdaInv, lags = 0, Prompt, NEW c \in Conn, RelayGet(c) \/ RelayFind(c)
  PROVE  Prompt'
<1>1. UNCHANGED <<versions, browsers, reg>>
  BY DEF RelayGet, RelayFind, store
<1>0. Steady
  BY <1>1, SameIsSteady
<1>9. rel \in [Conn -> Relay]
  BY DEF LambdaInv, TasksOK, Relay
<1>10. \A step : Goto(rel, c, step) =
                 [rel EXCEPT ![c] = [step |-> step, to |-> rel[c].to, todo |-> rel[c].todo]]
  BY <1>9, GotoFacts
<1>2. \A step : Goto(rel, c, step)[c].to = rel[c].to /\ Goto(rel, c, step)[c].step = step
  BY <1>9, <1>10
<1>3. \A step : \A d \in Conn : d # c => Goto(rel, c, step)[d] = rel[d]
  BY <1>9, <1>10
<1>4. CASE RelayGet(c)
  <2>1. PICK item \in Reads(c) :
          rel' = Goto(rel, c, IF item = "registered" /\ rel[c].to # None
                                THEN "find" ELSE "refuse")
    BY <1>4 DEF RelayGet
  <2>2. item = Indexed(c)
    BY <2>1, AtOnce
  <2>3. ASSUME NEW d \in Conn, client[c] = "open", rel'[c].step = "refuse",
               rel[c].to = PeerOf[d]
        PROVE  FALSE
    <3>1. Shown(c)
      BY <2>3 DEF Prompt, SentShown
    <3>2. rel[c].to # None
      BY <2>3
    <3> QED BY <1>2, <2>1, <2>2, <2>3, <3>1, <3>2 DEF Shown
  <2> QED BY <1>0, <1>1, <1>2, <1>3, <2>1, <2>3, RelayAside
<1>5. CASE RelayFind(c)
  <2>1. CASE Candidates(c, rel[c].to) = {} /\ rel' = Goto(rel, c, "refuse")
    <3>1. ASSUME NEW d \in Conn, rel[c].to = PeerOf[d]
          PROVE  client[d] = "gone"
      <4>1. Near(c, d) /\ ~Shown(d)
        BY <2>1, <3>1 DEF Prompt, SentShown, Candidates, Shown, Near, Neighbours
      <4>2. client[d] # "open"
        BY <3>1, <4>1 DEF Prompt, SentShown
      <4> QED BY <4>1, <4>2 DEF Near, Came, LambdaInv, BrowsersOK
    <3> QED BY <1>0, <1>1, <1>2, <1>3, <2>1, <3>1, RelayAside
  <2>2. ASSUME NEW d \in Candidates(c, rel[c].to),
               rel' = [rel EXCEPT ![c] = [step |-> "post", to |-> @.to, todo |-> {d}]]
        PROVE  Prompt'
    <3>1. /\ rel'[c].to = rel[c].to /\ rel'[c].step = "post"
          /\ \A e \in Conn : e # c => rel'[e] = rel[e]
      BY <2>2 DEF LambdaInv, TasksOK
    <3> QED BY <1>0, <1>1, <3>1, RelayAside
  <2> QED BY <1>5, <2>1, <2>2 DEF RelayFind
<1> QED BY <1>4, <1>5

LEMMA SendKeepsPrompt ==
  ASSUME OneConnectionEach, LambdaInv, Prompt, NEW c \in Conn, NEW to \in Peer \cup {None},
         SendRelay(c, to)
  PROVE  Prompt'
<1>1. UNCHANGED <<versions, browsers, reg>> /\ client[c] = "open"
  BY DEF SendRelay, store
<1>2. /\ rel'[c].to = to /\ rel'[c].step = "get"
      /\ \A d \in Conn : d # c => rel'[d] = rel[d]
  BY DEF SendRelay, LambdaInv, TasksOK
<1>3. StayShown' /\ ErrorsTrue' /\ OneKnows'
  <2>1. StayShown'
    BY <1>1 DEF Prompt, StayShown, Shown, Indexed, browsers
  <2>2. ErrorsTrue'
    BY <1>1 DEF Prompt, ErrorsTrue, browsers
  <2>3. \A d, e \in Conn : (Near(d, e)' <=> Near(d, e)) /\ (Knows(d, e)' <=> Knows(d, e))
    BY <1>1 DEF Near, Neighbours, Came, Knows, browsers
  <2>4. OneKnows'
    BY <1>1, <2>3 DEF Prompt, OneKnows, browsers
  <2> QED BY <2>1, <2>2, <2>4
<1>4. RefusedGone'
  BY <1>1, <1>2 DEF Prompt, RefusedGone, browsers
<1>5. ASSUME NEW d \in Conn, to = PeerOf[d]
      PROVE  /\ Near(c, d) /\ Shown(c)
             /\ client[d] = "open" => Shown(d)
  <2>1. PeerOf[d] \in Ids(view[c])
    BY <1>5 DEF SendRelay
  <2>2. Near(c, d)
    BY <2>1 DEF LambdaInv, ListsApart, OneConnectionEach
  <2> QED BY <1>1, <2>1, <2>2 DEF Prompt, StayShown
<1>6. SentShown'
  BY <1>1, <1>2, <1>5 DEF Prompt, SentShown, Near, Neighbours, Came, Shown, Indexed, browsers
<1> QED BY <1>3, <1>4, <1>6 DEF Prompt

LEMMA PutKeepsPrompt ==
  ASSUME LambdaInv, Prompt, NEW c \in Conn, RegisterPut(c), lags' = 0
  PROVE  Prompt'
<1>1. UNCHANGED <<client, group, view, inbox, rel>>
  BY DEF RegisterPut, browsers
<1>2. Shown(c)' /\ \A d \in Conn : d # c => (Shown(d)' <=> Shown(d))
  BY WriteShown DEF RegisterPut, Item
<1>3. Steady
  BY <1>1, <1>2 DEF Prompt, ErrorsTrue, Steady
<1>4. reg' = [reg EXCEPT ![c] = [step |-> "query", todo |-> reg[c].todo]]
  BY GotoFacts DEF RegisterPut, LambdaInv, TasksOK
<1>5. /\ reg'[c].step = "query" /\ reg'[c].todo = reg[c].todo
      /\ \A d \in Conn : d # c => reg'[d] = reg[d]
  BY <1>4 DEF LambdaInv, TasksOK
<1>6. StayShown'
  BY <1>1, <1>2, <1>5 DEF Prompt, StayShown
<1>7. SentShown' /\ RefusedGone'
  BY <1>1, <1>3 DEF Prompt, SentShown, RefusedGone, Near, Neighbours, Came, Steady
<1>8. OneKnows'
  BY <1>1, <1>5 DEF Prompt, OneKnows, Knows, Near, Neighbours, Came
<1> QED BY <1>3, <1>6, <1>7, <1>8 DEF Prompt, Steady

LEMMA RemoveKeepsPrompt ==
  ASSUME LambdaInv, Ended, Prompt, NEW c \in Conn, DisconnectRemove(c), lags' = 0
  PROVE  Prompt'
<1>1. UNCHANGED <<client, group, view, inbox, reg, rel>> /\ client[c] = "gone"
  BY DEF DisconnectRemove, browsers, Ended
<1>2. \A d \in Conn : d # c => (Shown(d)' <=> Shown(d))
  BY RemoveShown DEF DisconnectRemove
<1>3. Steady
  BY <1>1, <1>2 DEF Prompt, ErrorsTrue, Steady
<1> QED BY <1>1, <1>3, PromptSame

\* "Peer not found" is posted about a browser that is gone, or about None.
LEMMA RefuseKeepsPrompt ==
  ASSUME LambdaInv, Prompt, NEW c \in Conn, RegisterRefuse(c) \/ RelayRefuse(c), lags' = 0
  PROVE  Prompt'
<1>1. PICK to \in Peer \cup {None} :
        /\ Post(c, MsgError(to))
        /\ \A d \in Conn : client[c] = "open" /\ to = PeerOf[d] => client[d] = "gone"
  <2>1. CASE RegisterRefuse(c)
    BY <2>1 DEF RegisterRefuse
  <2>2. CASE RelayRefuse(c)
    <3>1. rel[c].to \in Peer \cup {None}
      BY DEF LambdaInv, TasksOK
    <3> QED BY <2>2, <3>1 DEF RelayRefuse, Prompt, RefusedGone
  <2> QED BY <2>1, <2>2
<1>2. UNCHANGED view
  <2>1. view \in [Conn -> SUBSET Infos]
    BY DEF LambdaInv, BrowsersOK, Infos
  <2>2. HandleMessage(view[c], MsgError(to)) = view[c]
    BY <2>1, HandleFacts
  <2>3. [view EXCEPT ![c] = view[c]] = view
    BY <2>1
  <2> QED BY <1>1, <2>2, <2>3 DEF Post
<1>3. \A d \in Conn : MsgError(PeerOf[d]) = MsgError(to) => PeerOf[d] = to
  BY DEF MsgError
<1>4. ErrorsTrue'
  BY <1>1, <1>3, PostShown DEF Prompt, ErrorsTrue
<1>5. Steady
  BY <1>1, <1>2, <1>4, PostShown DEF Steady
<1>6. CASE RegisterRefuse(c)
  <2>1. reg' = [reg EXCEPT ![c] = [step |-> "refused", todo |-> reg[c].todo]]
    BY <1>6, GotoFacts DEF RegisterRefuse, LambdaInv, TasksOK
  <2>2. /\ reg'[c].step = "refused" /\ reg'[c].todo = reg[c].todo
        /\ \A d \in Conn : d # c => reg'[d] = reg[d]
    BY <2>1 DEF LambdaInv, TasksOK
  <2> QED BY <1>5, <1>6, <2>2, RegisterAside DEF RegisterRefuse, Stored
<1>7. CASE RelayRefuse(c)
  <2>1. rel' = [rel EXCEPT ![c] = [step |-> "done", to |-> rel[c].to, todo |-> rel[c].todo]]
    BY <1>7, GotoFacts DEF RelayRefuse, LambdaInv, TasksOK, Relay
  <2>2. /\ rel'[c].step = "done" /\ rel'[c].to = rel[c].to
        /\ \A d \in Conn : d # c => rel'[d] = rel[d]
    BY <2>1 DEF LambdaInv, TasksOK
  <2> QED BY <1>5, <1>7, <2>2, RelayAside DEF RelayRefuse
<1> QED BY <1>6, <1>7

LEMMA RelayPostKeepsPrompt ==
  ASSUME LambdaInv, Prompt, NEW c \in Conn, RelayPost(c), lags' = 0
  PROVE  Prompt'
<1>1. PICK d \in Conn : Post(d, MsgRelayed(c, rel[c].to))
  BY DEF RelayPost, LambdaInv, TasksOK
<1>2. UNCHANGED view
  <2>1. view \in [Conn -> SUBSET Infos]
    BY DEF LambdaInv, BrowsersOK, Infos
  <2>2. HandleMessage(view[d], MsgRelayed(c, rel[c].to)) = view[d]
    <3>1. view[d] \in SUBSET Infos
      BY <2>1
    <3>2. \A e, to : HandleMessage(view[d], MsgRelayed(e, to)) = view[d]
      BY <3>1, HandleFacts
    <3> QED BY <3>2
  <2>3. [view EXCEPT ![d] = view[d]] = view
    BY <2>1
  <2> QED BY <1>1, <2>2, <2>3 DEF Post
<1>3. \A to : MsgError(to) # MsgRelayed(c, rel[c].to)
  BY DEF MsgError, MsgRelayed
<1>4. ErrorsTrue'
  BY <1>1, <1>3, PostShown DEF Prompt, ErrorsTrue
<1>5. Steady
  BY <1>1, <1>2, <1>4, PostShown DEF Steady
<1>6. /\ rel'[c].to = rel[c].to /\ rel'[c].step = "done"
      /\ \A e \in Conn : e # c => rel'[e] = rel[e]
  BY DEF RelayPost, LambdaInv, TasksOK
<1> QED BY <1>5, <1>6, RelayAside DEF RelayPost

-----------------------------------------------------------------------------
(* Steps that change the lists.                                            *)

\* The other parts of Prompt do not depend on the lists.
LEMMA ListStep ==
  ASSUME Prompt, NEW d \in Conn, NEW body, LambdaInv, Post(d, body), lags' = 0,
         body.type \notin {"relayed", "error"}, UNCHANGED rel
  PROVE  SentShown' /\ RefusedGone' /\ ErrorsTrue'
<1>1. UNCHANGED <<client, group, inbox>>
  BY PostShown
<1>2. \A e \in Conn : client[e] = "open" => (Shown(e)' <=> Shown(e))
  BY PostShown
<1> QED BY <1>1, <1>2 DEF Prompt, SentShown, RefusedGone, ErrorsTrue, Near, Neighbours, Came

\* The list is that of the query, the one Knows counts on.
LEMMA ListKeepsPrompt ==
  ASSUME OneConnectionEach, LambdaInv, Prompt, NEW c \in Conn, RegisterList(c), lags' = 0
  PROVE  Prompt'
<1> DEFINE infos == {Info(d) : d \in reg[c].todo}
<1>1. Post(c, MsgPeers(infos)) /\ UNCHANGED rel /\ reg[c].step = "list"
  BY DEF RegisterList
<1>2. MsgPeers(infos).type = "peers"
  BY DEF MsgPeers
<1>3. reg[c].todo \in SUBSET Conn
  BY DEF LambdaInv, TasksOK, Task
<1>4. HandleMessage(view[c], MsgPeers(infos)) = infos
  BY DEF HandleMessage, MsgPeers
<1>5. \A d \in Conn : PeerOf[d] \in Ids(infos) <=> d \in reg[c].todo
  <2>1. \A d : Info(d).peer_id = PeerOf[d]
    BY DEF Info
  <2>2. \A p : p \in Ids(infos) <=> \E d \in reg[c].todo : p = PeerOf[d]
    BY <2>1 DEF Ids
  <2> QED BY <1>3, <2>2 DEF OneConnectionEach
<1>6. PICK step \in {"tell", "done"} : reg' = Goto(reg, c, step)
  BY DEF RegisterList
<1>7. reg' = [reg EXCEPT ![c] = [step |-> step, todo |-> reg[c].todo]]
  BY <1>6, GotoFacts DEF LambdaInv, TasksOK
<1>8. /\ reg'[c].step = step /\ reg'[c].todo = reg[c].todo
      /\ \A d \in Conn : d # c => reg'[d] = reg[d]
  BY <1>7 DEF LambdaInv, TasksOK
<1> HIDE DEF infos
<1>9. /\ UNCHANGED <<client, group>>
      /\ \A d \in Conn : client[d] = "open" => (Shown(d)' <=> Shown(d))
      /\ \A d \in Conn : d # c => view'[d] = view[d]
      /\ client[c] = "open" => view'[c] = infos
      /\ client[c] # "open" => view'[c] = view[c]
  BY <1>1, <1>2, <1>4, PostShown
<1>10. StayShown'
  BY <1>1, <1>5, <1>8, <1>9 DEF Prompt, StayShown, Stored
<1>11. OneKnows'
  <2>1. ASSUME NEW a \in Conn, NEW b \in Conn, client[a] = "open", Knows(a, b)
        PROVE  Knows(a, b)'
    BY <1>1, <1>5, <1>8, <1>9, <2>1 DEF Knows
  <2>2. \A a \in Conn : reg'[a].step \in Stored => reg[a].step \in Stored
    BY <1>1, <1>8 DEF Stored
  <2> QED BY <1>9, <2>1, <2>2 DEF Prompt, OneKnows, Near, Neighbours, Came
<1> QED BY <1>1, <1>2, <1>10, <1>11, ListStep DEF Prompt

LEMMA TellKeepsPrompt ==
  ASSUME OneConnectionEach, LambdaInv, Prompt, NEW c \in Conn, RegisterTell(c), lags' = 0
  PROVE  Prompt'
<1>1. PICK d \in reg[c].todo : Post(d, MsgJoined(c)) /\ reg' = [reg EXCEPT ![c] = Rest(@, d, "done")]
  BY DEF RegisterTell
<1>2. d \in Conn /\ reg[c] \in Task /\ reg[c].step = "tell" /\ UNCHANGED rel
  BY DEF RegisterTell, LambdaInv, TasksOK, Task
<1>3. MsgJoined(c).type = "peer-joined"
  BY DEF MsgJoined
<1>4. view[d] \in SUBSET Infos
  BY <1>2 DEF LambdaInv, BrowsersOK, Infos
<1>5. Ids(HandleMessage(view[d], MsgJoined(c))) = Ids(view[d]) \cup {PeerOf[c]}
  BY <1>4, HandleFacts
<1>6. /\ UNCHANGED <<client, group>>
      /\ \A e \in Conn : client[e] = "open" => (Shown(e)' <=> Shown(e))
      /\ \A e \in Conn : e # d => Ids(view'[e]) = Ids(view[e])
      /\ client[d] = "open" => Ids(view'[d]) = Ids(view[d]) \cup {PeerOf[c]}
      /\ client[d] # "open" => Ids(view'[d]) = Ids(view[d])
  BY <1>1, <1>2, <1>3, <1>5, PostShown
<1>7. /\ reg'[c].step \in {"tell", "done"} /\ reg'[c].todo \subseteq reg[c].todo
      /\ \A e \in Conn : e # c => reg'[e] = reg[e]
  <2>1. reg'[c] = Rest(reg[c], d, "done") /\ \A e \in Conn : e # c => reg'[e] = reg[e]
    BY <1>1 DEF LambdaInv, TasksOK
  <2>2. Rest(reg[c], d, "done").step \in {"tell", "done"}
    BY <1>2 DEF Rest, Task
  <2> QED BY <1>1, <1>2, <2>1, <2>2, RestFacts
<1>8. StayShown'
  <2>1. /\ reg[c].step \in Stored
        /\ \A e \in Conn : reg'[e].step \in Stored => reg[e].step \in Stored
    BY <1>2, <1>7 DEF Stored
  <2>2. \A e, f \in Conn : PeerOf[e] = PeerOf[f] => e = f
    BY DEF OneConnectionEach
  <2> QED BY <1>1, <1>2, <1>6, <1>7, <2>1, <2>2 DEF Prompt, StayShown
<1>9. OneKnows'
  <2>1. \A e, f \in Conn : Near(e, f)' <=> Near(e, f)
    BY <1>6 DEF Near, Neighbours, Came
  <2>2. \A e \in Conn : reg'[e].step \in Stored => reg[e].step \in Stored
    BY <1>2, <1>7 DEF Stored
  <2>3. \A e, f \in Conn : client[e] = "open" /\ Knows(e, f) => Knows(e, f)'
    BY <1>2, <1>6, <1>7 DEF Knows
  <2> QED BY <1>6, <2>1, <2>2, <2>3 DEF Prompt, OneKnows
<1> QED BY <1>1, <1>2, <1>3, <1>8, <1>9, ListStep DEF Prompt

LEMMA LeftKeepsPrompt ==
  ASSUME OneConnectionEach, LambdaInv, Ended, Prompt, NEW c \in Conn, DisconnectTell(c), lags' = 0
  PROVE  Prompt'
<1>1. PICK d \in dis[c].todo : Post(d, MsgLeft(c))
  BY DEF DisconnectTell
<1>2. d \in Conn /\ client[c] = "gone" /\ UNCHANGED <<reg, rel>>
  BY DEF DisconnectTell, LambdaInv, TasksOK, Task, Ended
<1>3. MsgLeft(c).type = "peer-left"
  BY DEF MsgLeft
<1>4. view[d] \in SUBSET Infos
  BY <1>2 DEF LambdaInv, BrowsersOK, Infos
<1>5. Ids(HandleMessage(view[d], MsgLeft(c))) = Ids(view[d]) \ {PeerOf[c]}
  BY <1>4, HandleFacts
<1>6. /\ UNCHANGED <<client, group>>
      /\ \A e \in Conn : client[e] = "open" => (Shown(e)' <=> Shown(e))
      /\ \A e \in Conn : Ids(view'[e]) \subseteq Ids(view[e])
      /\ \A e \in Conn : Ids(view[e]) \subseteq Ids(view'[e]) \cup {PeerOf[c]}
  BY <1>1, <1>2, <1>3, <1>5, PostShown
<1>7. StayShown'
  BY <1>2, <1>6 DEF Prompt, StayShown
<1>8. OneKnows'
  <2>1. \A e, f \in Conn : Near(e, f)' <=> Near(e, f)
    BY <1>6 DEF Near, Neighbours, Came
  <2>2. \A e, f \in Conn : client[e] = "open" /\ client[f] = "open"
          /\ Knows(e, f) => Knows(e, f)'
    BY <1>2, <1>6 DEF Knows, OneConnectionEach
  <2> QED BY <1>2, <1>6, <2>1, <2>2 DEF Prompt, OneKnows
<1> QED BY <1>1, <1>2, <1>3, <1>7, <1>8, ListStep DEF Prompt

-----------------------------------------------------------------------------
(* Connections.                                                            *)

\* Nobody knows of a connection before it opens.
LEMMA OpenKeepsPrompt ==
  ASSUME OneConnectionEach, LambdaInv, Prompt, NEW c \in Conn, NEW g \in Group,
         HandleConnect(c, g), lags' = 0
  PROVE  Prompt'
<1>1. /\ client[c] = "none" /\ client' = [client EXCEPT ![c] = "open"]
      /\ group' = [group EXCEPT ![c] = g] /\ UNCHANGED <<view, inbox, rel>>
      /\ Write(c, "placeholder")
  BY DEF HandleConnect
<1>2. PICK step \in {"get", "refuse"} : reg' = Goto(reg, c, step)
  BY DEF HandleConnect
<1>3. reg' = [reg EXCEPT ![c] = [step |-> step, todo |-> reg[c].todo]]
  BY <1>2, GotoFacts DEF LambdaInv, TasksOK
<1>4. /\ reg'[c].step \notin Stored
      /\ \A d \in Conn : d # c => reg'[d] = reg[d]
      /\ \A d \in Conn : reg'[d].todo = reg[d].todo
  BY <1>3 DEF LambdaInv, TasksOK, Stored
<1>5. /\ client'[c] = "open" /\ \A d \in Conn : d # c => client'[d] = client[d]
      /\ \A d \in Conn : d # c => group'[d] = group[d]
  BY <1>1 DEF LambdaInv, BrowsersOK
<1>6. \A d \in Conn : d # c => (Shown(d)' <=> Shown(d))
  BY <1>1, WriteShown DEF Item
<1>7. /\ ~Came(c) /\ view[c] = {}
      /\ \A d \in Conn : ~Near(d, c) /\ ~Near(c, d)
  BY <1>1 DEF LambdaInv, NothingBefore, Came, Near
<1>8. \A d \in Conn : c \notin reg[d].todo /\ PeerOf[c] \notin Ids(view[d])
  <2>1. \A d \in Conn : c \notin reg[d].todo
    BY <1>7 DEF LambdaInv, LoopsApart
  <2>2. \A d \in Conn : PeerOf[c] \notin Ids(view[d])
    BY <1>7 DEF LambdaInv, ListsApart, OneConnectionEach
  <2> QED BY <2>1, <2>2
<1>9. \A d \in Conn : rel[d].to # PeerOf[c] /\ rel[c].to # PeerOf[d]
  BY <1>7 DEF Prompt, SentShown
<1>10. StayShown'
  BY <1>1, <1>4, <1>5, <1>6, <1>7, <1>8 DEF Prompt, StayShown, Ids
<1>11. SentShown'
  BY <1>1, <1>5, <1>6, <1>7, <1>9 DEF Prompt, SentShown, Near, Neighbours, Came
<1>12. RefusedGone' /\ ErrorsTrue'
  BY <1>1, <1>5, <1>9 DEF Prompt, RefusedGone, ErrorsTrue
<1>13. OneKnows'
  BY <1>1, <1>4, <1>5 DEF Prompt, OneKnows, Knows, Near, Neighbours, Came
<1> QED BY <1>10, <1>11, <1>12, <1>13 DEF Prompt

LEMMA LeaveKeepsPrompt ==
  ASSUME LambdaInv, Prompt, NEW c \in Conn, Leave(c)
  PROVE  Prompt'
<1>1. /\ client[c] = "open" /\ client' = [client EXCEPT ![c] = "gone"]
      /\ view' = [view EXCEPT ![c] = {}] /\ inbox' = [inbox EXCEPT ![c] = {}]
      /\ UNCHANGED <<versions, group, reg, rel>>
  BY DEF Leave, store
<1>2. /\ client'[c] = "gone" /\ \A d \in Conn : d # c => client'[d] = client[d]
      /\ view'[c] = {} /\ inbox'[c] = {}
      /\ \A d \in Conn : d # c => view'[d] = view[d] /\ inbox'[d] = inbox[d]
  BY <1>1 DEF LambdaInv, BrowsersOK
<1>3. \A d \in Conn : (Shown(d)' <=> Shown(d)) /\ (Came(d)' <=> Came(d))
  BY <1>1, <1>2 DEF Shown, Indexed, Came
<1>4. \A d \in Conn : Ids(view'[d]) \subseteq Ids(view[d]) /\ inbox'[d] \subseteq inbox[d]
  BY <1>2 DEF Ids
<1>5. StayShown'
  BY <1>1, <1>2, <1>3, <1>4 DEF Prompt, StayShown
<1>6. SentShown' /\ RefusedGone' /\ ErrorsTrue'
  BY <1>1, <1>2, <1>3, <1>4 DEF Prompt, SentShown, RefusedGone, ErrorsTrue, Near, Neighbours
<1>7. OneKnows'
  BY <1>1, <1>2, <1>3 DEF Prompt, OneKnows, Knows, Near, Neighbours
<1> QED BY <1>5, <1>6, <1>7 DEF Prompt

LEMMA AbortKeepsPrompt ==
  ASSUME LambdaInv, Prompt, NEW c \in Conn, Abort(c)
  PROVE  Prompt'
<1>1. Steady
  BY SameIsSteady DEF Abort, store
<1>2. CASE reg' = [reg EXCEPT ![c] = [step |-> "aborted", todo |-> {}]] /\ UNCHANGED rel
  <2>1. /\ reg'[c].step \notin Stored /\ reg'[c].todo = {}
        /\ \A d \in Conn : d # c => reg'[d] = reg[d]
    BY <1>2 DEF LambdaInv, TasksOK, Stored
  <2> QED BY <1>1, <1>2, <2>1, RegisterAside
<1>3. CASE UNCHANGED <<reg, rel>>
  BY <1>1, <1>3, PromptSame
<1>4. CASE rel' = [rel EXCEPT ![c] = [step |-> "aborted", to |-> @.to, todo |-> {}]] /\ UNCHANGED reg
  <2>1. /\ rel'[c].step = "aborted" /\ rel'[c].to = rel[c].to
        /\ \A d \in Conn : d # c => rel'[d] = rel[d]
    BY <1>4 DEF LambdaInv, TasksOK
  <2> QED BY <1>1, <1>4, <2>1, RelayAside
<1> QED BY <1>2, <1>3, <1>4 DEF Abort

LEMMA GetKeepsPrompt ==
  ASSUME LambdaInv, Prompt, NEW c \in Conn, RegisterGet(c)
  PROVE  Prompt'
<1>1. Steady /\ UNCHANGED rel
  BY SameIsSteady DEF RegisterGet, store
<1>2. PICK step \in {"refuse", "put"} : reg' = Goto(reg, c, step)
  BY DEF RegisterGet
<1>3. reg' = [reg EXCEPT ![c] = [step |-> step, todo |-> reg[c].todo]]
  BY <1>2, GotoFacts DEF LambdaInv, TasksOK
<1>4. /\ reg'[c].step \notin Stored /\ reg'[c].todo = reg[c].todo
      /\ \A d \in Conn : d # c => reg'[d] = reg[d]
  BY <1>3 DEF LambdaInv, TasksOK, Stored
<1> QED BY <1>1, <1>4, RegisterAside

-----------------------------------------------------------------------------
(* The theorems.                                                           *)

LEMMA PromptNext ==
  ASSUME OneConnectionEach, LambdaInv, Ended, Prompt, lags = 0, lags' = 0, NEW c \in Conn,
         \/ \E g \in Group : HandleConnect(c, g)
         \/ HandleRegister(c) \/ HandleDisconnect(c) \/ HandleDefault(c)
         \/ \E to \in Peer \cup {None} : SendRelay(c, to)
         \/ Leave(c) \/ Abort(c) \/ CatchUp(c)
  PROVE  Prompt'
<1>1. CASE HandleRegister(c)
  BY <1>1, GetKeepsPrompt, RefuseKeepsPrompt, PutKeepsPrompt, QueryKeepsPrompt,
     ListKeepsPrompt, TellKeepsPrompt DEF HandleRegister
<1>2. CASE DisconnectGet(c) \/ DisconnectQuery(c)
  <2>1. Steady /\ UNCHANGED <<reg, rel>>
    BY <1>2, SameIsSteady DEF DisconnectGet, DisconnectQuery, store
  <2> QED BY <2>1, PromptSame
<1>3. CASE HandleDisconnect(c)
  BY <1>2, <1>3, LeftKeepsPrompt, RemoveKeepsPrompt DEF HandleDisconnect
<1>4. CASE HandleDefault(c)
  BY <1>4, RelayKeepsPrompt, RelayPostKeepsPrompt, RefuseKeepsPrompt DEF HandleDefault
<1>5. CASE CatchUp(c)
  BY <1>5, CatchUpFacts DEF LambdaInv
<1> QED BY <1>1, <1>3, <1>4, <1>5, OpenKeepsPrompt, SendKeepsPrompt, LeaveKeepsPrompt,
           AbortKeepsPrompt

LEMMA LagsStay ==
  ASSUME LambdaInv, NEW c \in Conn, lags' = 0,
         \/ \E g \in Group : HandleConnect(c, g)
         \/ HandleRegister(c) \/ HandleDisconnect(c) \/ HandleDefault(c)
         \/ \E to \in Peer \cup {None} : SendRelay(c, to)
         \/ Leave(c) \/ Abort(c) \/ CatchUp(c)
  PROVE  lags = 0
<1>1. \A d \in Conn : \A item \in Item : Write(d, item) => lags = 0
  BY WriteShown
<1>2. \A d \in Conn : \A body : Post(d, body) => lags = 0
  BY PostShown
<1>0. \A d \in Conn : RemoveConnection(d) => lags = 0
  BY RemoveShown
<1>3. \A d \in Conn : reg[d].todo \subseteq Conn /\ dis[d].todo \subseteq Conn
                      /\ rel[d].todo \subseteq Conn
  BY DEF LambdaInv, TasksOK, Task
<1>4. CASE HandleRegister(c)
  BY <1>1, <1>2, <1>3, <1>4
     DEF HandleRegister, RegisterGet, RegisterRefuse, RegisterPut, RegisterQuery,
         RegisterList, RegisterTell, store, Item
<1>5. CASE HandleDisconnect(c)
  BY <1>0, <1>2, <1>3, <1>5
     DEF HandleDisconnect, DisconnectGet, DisconnectQuery, DisconnectTell,
         DisconnectRemove, store
<1>6. CASE HandleDefault(c)
  BY <1>1, <1>2, <1>3, <1>6
     DEF HandleDefault, RelayGet, RelayFind, RelayPost, RelayRefuse, store
<1>7. CASE \E g \in Group : HandleConnect(c, g)
  BY <1>1, <1>7 DEF HandleConnect, Item
<1> QED BY <1>4, <1>5, <1>6, <1>7 DEF SendRelay, Leave, Abort, CatchUp, store

LEMMA MeetInvariant ==
  ASSUME OneConnectionEach
  PROVE  LambdaSpec => []MeetInv
<1>1. LambdaInit => MeetInv
  <2> SUFFICES ASSUME LambdaInit PROVE MeetInv
    OBVIOUS
  <2>1. Ended /\ StayShown /\ SentShown /\ RefusedGone /\ ErrorsTrue /\ OneKnows
    BY DEF LambdaInit, Ended, StayShown, SentShown, RefusedGone, ErrorsTrue, OneKnows,
           Knows, Stored, Near, Came, Ids
  <2> QED BY <2>1, LambdaInvInit DEF MeetInv, Prompt
<1>2. MeetInv /\ [LambdaNext]_lvars => MeetInv'
  <2> SUFFICES ASSUME MeetInv, [LambdaNext]_lvars PROVE MeetInv'
    OBVIOUS
  <2>1. LambdaInv'
    BY LambdaInvNext DEF MeetInv
  <2>2. ASSUME NEW c \in Conn,
               \/ \E g \in Group : HandleConnect(c, g)
               \/ HandleRegister(c) \/ HandleDisconnect(c) \/ HandleDefault(c)
               \/ \E to \in Peer \cup {None} : SendRelay(c, to)
               \/ Leave(c) \/ Abort(c) \/ CatchUp(c)
        PROVE  Ended' /\ (lags' = 0 => Prompt')
    BY <2>2, EndedKept, LagsStay, PromptNext DEF MeetInv
  <2>3. CASE UNCHANGED lvars
    <3>1. Ended' /\ UNCHANGED <<versions, browsers, reg, rel, lags>>
      BY <2>3 DEF MeetInv, Ended, lvars, browsers, store
    <3> QED BY <2>1, <3>1, SameIsSteady, PromptSame DEF MeetInv
  <2> QED BY <2>1, <2>2, <2>3 DEF LambdaNext, MeetInv
<1> QED BY <1>1, <1>2, PTL DEF LambdaSpec

\* "Send the current peer list to the newly registered peer": as long as the
\* index keeps up and every browser connects once, for any number of
\* connections and whatever calls fail, of two browsers of a network that have
\* registered and stay one lists the other.
THEOREM OneLists ==
  ASSUME OneConnectionEach
  PROVE  LambdaSpec => []OneSeesTheOther
<1>1. MeetInv => OneSeesTheOther
  BY DEF MeetInv, Prompt, OneKnows, OneSeesTheOther, Knows, Stored, Near, Came
<1> QED BY <1>1, MeetInvariant, PTL

\* "Peer not found" is no answer about a browser of the network that is still
\* connected, as long as the index keeps up and every browser connects once:
\* whom a list names _find_peer_connection finds.
THEOREM NotFoundTrue ==
  ASSUME OneConnectionEach
  PROVE  LambdaSpec => []NotFoundIsTrue
<1>1. MeetInv => NotFoundIsTrue
  BY DEF MeetInv, Prompt, ErrorsTrue, NotFoundIsTrue
<1> QED BY <1>1, MeetInvariant, PTL
=============================================================================
