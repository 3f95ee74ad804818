--------------------------- MODULE SignallingView ---------------------------
(***************************************************************************)
(* How a client's list of nearby peers follows the presence messages of    *)
(* the signalling server: handleMessage of WebSocketSignallingProvider.    *)
(* A list of DiscoveredPeer is the set of its elements.                    *)
(***************************************************************************)

Ids(view) == {info.peer_id : info \in view}

\* A peer that is already listed keeps its old entry: handleMessage compares
\* peer ids only.
HandlePeerJoined(view, info) ==
  IF info.peer_id \in Ids(view) THEN view ELSE view \cup {info}

HandlePeerLeft(view, p) == {info \in view : info.peer_id # p}

\* currentPeers after a message; every other type leaves it alone.
HandleMessage(view, body) ==
  CASE body.type = "peers"       -> body.peers
    [] body.type = "peer-joined" -> HandlePeerJoined(view, body.peer)
    [] body.type = "peer-left"   -> HandlePeerLeft(view, body.peerId)
    [] OTHER                     -> view
=============================================================================
