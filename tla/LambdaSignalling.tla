-------------------------- MODULE LambdaSignalling --------------------------
(***************************************************************************)
(* The serverless signalling server, signal-server/lambda_handler.py, and  *)
(* the nearby lists of the browsers connected to it.                       *)
(*                                                                         *)
(* Every event of API Gateway is an invocation of its own, and the         *)
(* invocations interleave at each call to DynamoDB or to the gateway.  A   *)
(* call may raise an error, which ends its invocation (Abort) or, for a    *)
(* delete, is swallowed.  The items of the table are read through copies   *)
(* that lag behind it: get_item without ConsistentRead, and the index      *)
(* networkGroup-index.                                                     *)
(*                                                                         *)
(* A connection id is used once.  An item's group and peer are those of    *)
(* its connection, so an item is a word; None is an item that is missing.  *)
(* A message that the gateway takes is read in order by the browser.       *)
(***************************************************************************)
EXTENDS Naturals, FiniteSets, Sequences, SequencesExt, SignallingView

CONSTANTS
  Conn,        \* connection ids
  Peer,        \* peer ids
  Group,       \* hashes of source addresses
  PeerOf,      \* the browser that opens a connection
  None,
  Leaving,     \* the connections that may end
  Nameless,    \* the connections whose browser's name may be blank
  MaxRunning,  \* how many invocations run at a time
  MaxRelays,   \* how many messages browsers send to each other
  MaxTrouble   \* how many writes lag and calls raise an error

ASSUME LambdaAssumption ==
  /\ PeerOf \in [Conn -> Peer]
  /\ None \notin Group \cup Peer \cup {"placeholder", "registered"}
  /\ Leaving \subseteq Conn /\ Nameless \subseteq Conn
  /\ MaxRunning \in Nat /\ MaxRelays \in Nat /\ MaxTrouble \in Nat

VARIABLES
  versions,  \* an item from what the index shows to what the table holds
  group,     \* networkGroup of a connection's item
  client,    \* the connection: none, open or gone
  view,      \* the browser's nearby list
  inbox,     \* the relayed messages a browser got
  reg,       \* the register invocation of a connection
  dis,       \* its $disconnect invocation
  rel,       \* its invocation that relays a message
  relays, lags, faults

store == <<versions, lags>>
browsers == <<client, group, view, inbox>>
lvars == <<store, browsers, reg, dis, rel, relays, faults>>

-----------------------------------------------------------------------------
(* The table.                                                              *)

Table(c) == Last(versions[c])
Indexed(c) == Head(versions[c])

\* What get_item may return: no older than what the index shows.
Reads(c) == ToSet(versions[c])

\* A put or a delete.  Unless the index lags it shows the write at once.
Write(c, item) ==
  \/ /\ Len(versions[c]) = 1
     /\ versions' = [versions EXCEPT ![c] = <<item>>]
     /\ UNCHANGED lags
  \/ /\ Table(c) # item
     /\ lags + faults < MaxTrouble \/ Len(versions[c]) > 1
     /\ versions' = [versions EXCEPT ![c] = Append(@, item)]
     /\ lags' = IF Len(versions[c]) = 1 THEN lags + 1 ELSE lags
  \/ /\ Table(c) = item
     /\ Len(versions[c]) > 1
     /\ UNCHANGED store

\* The index, and the copies that get_item reads, follow the table.
CatchUp(c) ==
  /\ Len(versions[c]) > 1
  /\ versions' = [versions EXCEPT ![c] = Tail(@)]
  /\ UNCHANGED <<lags, browsers, reg, dis, rel, relays, faults>>

\* _remove_connection: the delete is made, or it fails and the error is
\* swallowed.
RemoveConnection(c) ==
  \/ Write(c, None) /\ UNCHANGED faults
  \/ /\ lags + faults < MaxTrouble
     /\ faults' = faults + 1
     /\ UNCHANGED store

\* A mutant of GroupPeers: a scan of the table.
GroupPeersAnywhere(c) == {d \in Conn \ {c} : Indexed(d) = "registered"}

\* _get_group_peers without the caller, those registered.
GroupPeers(c) ==
  {d \in Conn \ {c} : group[d] = group[c] /\ Indexed(d) = "registered"}

-----------------------------------------------------------------------------
(* _post_to_connection.                                                    *)

Info(c) == [peer_id |-> PeerOf[c]]
MsgPeers(peers) == [type |-> "peers", peers |-> peers]
MsgJoined(c) == [type |-> "peer-joined", peer |-> Info(c)]
MsgLeft(c) == [type |-> "peer-left", peerId |-> PeerOf[c]]
MsgRelayed(c, to) == [type |-> "relayed", from |-> c, to |-> to]
MsgError(to) == [type |-> "error", to |-> to]

\* A mutant of Post: a connection that is gone keeps its item.
PostKeeps(c, body) ==
  /\ view' = IF client[c] = "open" THEN [view EXCEPT ![c] = HandleMessage(@, body)]
                                   ELSE view
  /\ inbox' = IF client[c] = "open" /\ body.type \in {"relayed", "error"}
                THEN [inbox EXCEPT ![c] = @ \cup {body}] ELSE inbox
  /\ UNCHANGED <<client, group, store, faults>>

\* The browser reads the message, or the connection is gone and its item is
\* removed.
Post(c, body) ==
  /\ IF client[c] = "open"
       THEN /\ view' = [view EXCEPT ![c] = HandleMessage(@, body)]
            /\ inbox' = IF body.type \in {"relayed", "error"}
                          THEN [inbox EXCEPT ![c] = @ \cup {body}] ELSE inbox
            /\ UNCHANGED <<store, faults>>
       ELSE RemoveConnection(c) /\ UNCHANGED <<view, inbox>>
  /\ UNCHANGED <<client, group>>

-----------------------------------------------------------------------------
(* handle_connect and _handle_register.                                    *)

Over == {"idle", "done", "refused", "aborted"}

Goto(task, c, step) == [task EXCEPT ![c].step = step]

\* Another invocation that was asked for may start: its first step is "get".
MayStart ==
  LET Running(task) == {c \in Conn : task[c].step \notin Over \cup {"get"}}
  IN  Cardinality(Running(reg)) + Cardinality(Running(dis))
        + Cardinality(Running(rel)) < MaxRunning

\* The placeholder is stored before the browser's onopen sends register, which
\* is refused if it has no name.
HandleConnect(c, g) ==
  /\ client[c] = "none"
  /\ \A d \in Conn : PeerOf[d] = PeerOf[c] => client[d] # "open"
  /\ Write(c, "placeholder")
  /\ client' = [client EXCEPT ![c] = "open"]
  /\ group' = [group EXCEPT ![c] = g]
  /\ \/ reg' = Goto(reg, c, "get")
     \/ c \in Nameless /\ reg' = Goto(reg, c, "refuse")
  /\ UNCHANGED <<view, inbox, dis, rel, relays, faults>>

\* get_item: without an item the browser is told "Connection not found".
RegisterGet(c) ==
  /\ reg[c].step = "get" /\ MayStart
  /\ \E item \in Reads(c) :
       reg' = Goto(reg, c, IF item = None THEN "refuse" ELSE "put")
  /\ UNCHANGED <<store, browsers, dis, rel, relays, faults>>

RegisterRefuse(c) ==
  /\ reg[c].step = "refuse"
  /\ Post(c, MsgError(None))
  /\ reg' = Goto(reg, c, "refused")
  /\ UNCHANGED <<dis, rel, relays>>

\* A mutant of RegisterPut: the item of handle_connect again.
RegisterPutPlaceholder(c) ==
  /\ reg[c].step = "put"
  /\ Write(c, "placeholder")
  /\ reg' = Goto(reg, c, "query")
  /\ UNCHANGED <<browsers, dis, rel, relays, faults>>

\* put_item overwrites, or brings back, whatever is there.
RegisterPut(c) ==
  /\ reg[c].step = "put"
  /\ Write(c, "registered")
  /\ reg' = Goto(reg, c, "query")
  /\ UNCHANGED <<browsers, dis, rel, relays, faults>>

RegisterQuery(c) ==
  /\ reg[c].step = "query"
  /\ reg' = [reg EXCEPT ![c] = [step |-> "list", todo |-> GroupPeers(c)]]
  /\ UNCHANGED <<store, browsers, dis, rel, relays, faults>>

RegisterList(c) ==
  /\ reg[c].step = "list"
  /\ Post(c, MsgPeers({Info(d) : d \in reg[c].todo}))
  /\ reg' = Goto(reg, c, IF reg[c].todo = {} THEN "done" ELSE "tell")
  /\ UNCHANGED <<dis, rel, relays>>

\* A mutant of Rest: the loop does not end.
RestAgain(task, d, after) == [task EXCEPT !.todo = @ \ {d}]

\* What is left of a loop after the post to d.
Rest(task, d, after) ==
  [task EXCEPT !.todo = @ \ {d}, !.step = IF task.todo = {d} THEN after ELSE @]

\* The items of a query have no order.
RegisterTell(c) ==
  /\ reg[c].step = "tell"
  /\ \E d \in reg[c].todo :
       /\ Post(d, MsgJoined(c))
       /\ reg' = [reg EXCEPT ![c] = Rest(@, d, "done")]
  /\ UNCHANGED <<dis, rel, relays>>

-----------------------------------------------------------------------------
(* handle_disconnect.                                                      *)

DisconnectGet(c) ==
  /\ dis[c].step = "get" /\ MayStart
  /\ \E item \in Reads(c) :
       dis' = Goto(dis, c, IF item = "registered" THEN "query" ELSE "remove")
  /\ UNCHANGED <<store, browsers, reg, rel, relays, faults>>

DisconnectQuery(c) ==
  /\ dis[c].step = "query"
  /\ dis' = [dis EXCEPT ![c] =
               [step |-> IF GroupPeers(c) = {} THEN "remove" ELSE "tell",
                todo |-> GroupPeers(c)]]
  /\ UNCHANGED <<store, browsers, reg, rel, relays, faults>>

\* A mutant of DisconnectTell: a connection that is gone ends the loop.
DisconnectTellStops(c) ==
  /\ dis[c].step = "tell"
  /\ \E d \in dis[c].todo :
       /\ Post(d, MsgLeft(c))
       /\ dis' = [dis EXCEPT ![c] = IF client[d] = "open" THEN Rest(@, d, "remove")
                                    ELSE [step |-> "remove", todo |-> {}]]
  /\ UNCHANGED <<reg, rel, relays>>

DisconnectTell(c) ==
  /\ dis[c].step = "tell"
  /\ \E d \in dis[c].todo :
       /\ Post(d, MsgLeft(c))
       /\ dis' = [dis EXCEPT ![c] = Rest(@, d, "remove")]
  /\ UNCHANGED <<reg, rel, relays>>

DisconnectRemove(c) ==
  /\ dis[c].step = "remove"
  /\ RemoveConnection(c)
  /\ dis' = Goto(dis, c, "done")
  /\ UNCHANGED <<browsers, reg, rel, relays>>

-----------------------------------------------------------------------------
(* handle_default: a message for another peer.                             *)

\* A frame without JSON, receiver or known type has to = None.
RelayGet(c) ==
  /\ rel[c].step = "get" /\ MayStart
  /\ \E item \in Reads(c) :
       rel' = Goto(rel, c, IF item = "registered" /\ rel[c].to # None
                             THEN "find" ELSE "refuse")
  /\ UNCHANGED <<store, browsers, reg, dis, relays, faults>>

\* A mutant of Candidates: None is returned inside the loop.
CandidatesFirst(c, to) ==
  LET items == {d \in Conn : group[d] = group[c] /\ Indexed(d) = "registered"}
  IN  {d \in items : PeerOf[d] = to /\ \A e \in items : e = d}

\* The items _find_peer_connection may come upon first.
Candidates(c, to) ==
  {d \in Conn : group[d] = group[c] /\ Indexed(d) = "registered" /\ PeerOf[d] = to}

RelayFind(c) ==
  /\ rel[c].step = "find"
  /\ \/ /\ Candidates(c, rel[c].to) = {}
        /\ rel' = Goto(rel, c, "refuse")
     \/ \E d \in Candidates(c, rel[c].to) :
          rel' = [rel EXCEPT ![c] = [step |-> "post", to |-> @.to, todo |-> {d}]]
  /\ UNCHANGED <<store, browsers, reg, dis, relays, faults>>

RelayPost(c) ==
  /\ rel[c].step = "post"
  /\ \E d \in rel[c].todo : Post(d, MsgRelayed(c, rel[c].to))
  /\ rel' = [rel EXCEPT ![c] = [step |-> "done", to |-> @.to, todo |-> {}]]
  /\ UNCHANGED <<reg, dis, relays>>

RelayRefuse(c) ==
  /\ rel[c].step = "refuse"
  /\ Post(c, MsgError(rel[c].to))
  /\ rel' = Goto(rel, c, "done")
  /\ UNCHANGED <<reg, dis, relays>>

-----------------------------------------------------------------------------
(* The browsers and the failing calls.                                     *)

\* The app sends to a peer of its list.
SendRelay(c, to) ==
  /\ client[c] = "open"
  /\ rel[c].step \in {"idle", "done"}
  /\ relays < MaxRelays
  /\ to \in Ids(view[c]) \cup {None}
  /\ relays' = relays + 1
  /\ rel' = [rel EXCEPT ![c] = [step |-> "get", to |-> to, todo |-> {}]]
  /\ UNCHANGED <<store, browsers, reg, dis, faults>>

\* The socket closes; the gateway knows and invokes $disconnect.
Leave(c) ==
  /\ c \in Leaving
  /\ client[c] = "open"
  /\ client' = [client EXCEPT ![c] = "gone"]
  /\ view' = [view EXCEPT ![c] = {}]
  /\ inbox' = [inbox EXCEPT ![c] = {}]
  /\ dis' = Goto(dis, c, "get")
  /\ UNCHANGED <<store, group, reg, rel, relays, faults>>

\* A call raises an error other than Gone, the invocation runs out of time, or
\* the gateway never makes it.
Abort(c) ==
  /\ lags + faults < MaxTrouble
  /\ faults' = faults + 1
  /\ \/ /\ reg[c].step \notin Over
        /\ reg' = [reg EXCEPT ![c] = [step |-> "aborted", todo |-> {}]]
        /\ UNCHANGED <<dis, rel>>
     \/ /\ dis[c].step \notin Over
        /\ dis' = [dis EXCEPT ![c] = [step |-> "aborted", todo |-> {}]]
        /\ UNCHANGED <<reg, rel>>
     \/ /\ rel[c].step \notin Over
        /\ rel' = [rel EXCEPT ![c] = [step |-> "aborted", to |-> @.to, todo |-> {}]]
        /\ UNCHANGED <<reg, dis>>
  /\ UNCHANGED <<store, browsers, relays>>

-----------------------------------------------------------------------------
LambdaInit ==
  /\ versions = [c \in Conn |-> <<None>>]
  /\ group = [c \in Conn |-> None]
  /\ client = [c \in Conn |-> "none"]
  /\ view = [c \in Conn |-> {}]
  /\ inbox = [c \in Conn |-> {}]
  /\ reg = [c \in Conn |-> [step |-> "idle", todo |-> {}]]
  /\ dis = [c \in Conn |-> [step |-> "idle", todo |-> {}]]
  /\ rel = [c \in Conn |-> [step |-> "idle", to |-> None, todo |-> {}]]
  /\ relays = 0 /\ lags = 0 /\ faults = 0

HandleRegister(c) ==
  RegisterGet(c) \/ RegisterRefuse(c) \/ RegisterPut(c) \/ RegisterQuery(c)
    \/ RegisterList(c) \/ RegisterTell(c)

HandleDisconnect(c) ==
  DisconnectGet(c) \/ DisconnectQuery(c) \/ DisconnectTell(c) \/ DisconnectRemove(c)

HandleDefault(c) == RelayGet(c) \/ RelayFind(c) \/ RelayPost(c) \/ RelayRefuse(c)

LambdaNext ==
  \E c \in Conn :
    \/ \E g \in Group : HandleConnect(c, g)
    \/ HandleRegister(c) \/ HandleDisconnect(c) \/ HandleDefault(c)
    \/ \E to \in Peer \cup {None} : SendRelay(c, to)
    \/ Leave(c) \/ Abort(c) \/ CatchUp(c)

\* Invocations that started come to an end and the copies catch up.
LambdaFairness ==
  \A c \in Conn :
    /\ WF_lvars(HandleRegister(c)) /\ WF_lvars(HandleDisconnect(c))
    /\ WF_lvars(HandleDefault(c)) /\ WF_lvars(CatchUp(c))

LambdaSpec == LambdaInit /\ [][LambdaNext]_lvars
FairLambda == LambdaSpec /\ LambdaFairness

-----------------------------------------------------------------------------
(* Properties.                                                             *)

Steps == {"get", "put", "query", "list", "tell", "remove", "refuse", "find", "post"} \cup Over

\* The variables have their types; a loop that goes on has somebody to tell.
LambdaTypeOK ==
  /\ versions \in [Conn -> Seq({None, "placeholder", "registered"}) \ {<<>>}]
  /\ group \in [Conn -> Group \cup {None}]
  /\ client \in [Conn -> {"none", "open", "gone"}]
  /\ view \in [Conn -> SUBSET {Info(c) : c \in Conn}]
  /\ reg \in [Conn -> [step : Steps, todo : SUBSET Conn]]
  /\ dis \in [Conn -> [step : Steps, todo : SUBSET Conn]]
  /\ rel \in [Conn -> [step : Steps, to : Peer \cup {None}, todo : SUBSET Conn]]
  /\ \A c \in Conn : "tell" \in {reg[c].step, dis[c].step} =>
                     reg[c].todo \cup dis[c].todo # {}
  /\ lags + faults <= MaxTrouble /\ relays <= MaxRelays

Neighbours(c, d) == c # d /\ group[c] = group[d]

\* "Send the current peer list to the newly registered peer": as long as the
\* index keeps up, of two browsers that have registered and stay at least
\* the one whose item was written last lists the other.
OneSeesTheOther ==
  lags = 0 => \A c, d \in Conn :
    (/\ Neighbours(c, d)
     /\ client[c] = "open" /\ client[d] = "open"
     /\ reg[c].step = "done" /\ reg[d].step = "done") =>
         PeerOf[c] \in Ids(view[d]) \/ PeerOf[d] \in Ids(view[c])

\* "Notify existing peers about the new arrival", too: both list each other.
EachSeesTheOther ==
  \A c, d \in Conn :
    (/\ Neighbours(c, d)
     /\ client[c] = "open" /\ client[d] = "open"
     /\ reg[c].step = "done" /\ reg[d].step = "done") =>
         PeerOf[c] \in Ids(view[d]) /\ PeerOf[d] \in Ids(view[c])

\* "Peer not found" is no answer about a browser that is still connected: who
\* is listed can be reached, as long as the index keeps up.
NotFoundIsTrue ==
  lags = 0 => \A c, d \in Conn :
    Neighbours(c, d) /\ client[d] = "open" => MsgError(PeerOf[d]) \notin inbox[c]

\* Nothing passes from one network to another, whatever fails or lags: lists
\* name peers of the browser's own group, and a relayed message is for the
\* browser that gets it and from a connection of its group.
GroupsApart ==
  \A c \in Conn :
    /\ Ids(view[c]) \subseteq {PeerOf[d] : d \in {e \in Conn : Neighbours(c, e)}}
    /\ \A m \in inbox[c] : m.type = "relayed" =>
         PeerOf[c] = m.to /\ group[m.from] = group[c]

\* The list of c is not under way, nor is the announcement of d to c.
Settled(c, d) ==
  /\ reg[c].step \notin {"query", "list"}
  /\ reg[d].step \in Over \/ (reg[d].step = "tell" /\ c \notin reg[d].todo)

\* "Notify remaining peers in the same group": a $disconnect that found its
\* item takes the peer off the list of every browser that stays and that the
\* index shows, also if other connections of the group turn out to be gone.
DepartureHeard ==
  \A c \in Conn \ Leaving, d \in Leaving :
    (/\ Neighbours(c, d) /\ Settled(c, d)
     /\ Indexed(c) = "registered" /\ dis[d].step = "query")
      ~> (PeerOf[d] \notin Ids(view[c]) \/ dis[d].step = "aborted")

\* "Connection is stale - clean up": a registration that outlived its
\* connection, because a handler or its delete failed or it raced another, is
\* deleted by the next browser that registers and finds it, unless a call
\* fails meanwhile.
StaleItemsHeal ==
  \A d \in Leaving, n \in 0..MaxTrouble :
    (/\ client[d] = "gone" /\ {reg[d].step, dis[d].step} \subseteq Over
     /\ Indexed(d) = "registered" /\ faults = n
     /\ \E c \in Conn : Neighbours(c, d) /\ reg[c].step = "query")
      ~> (Table(d) = None \/ faults > n)
=============================================================================
