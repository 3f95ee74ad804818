--------------------------- MODULE ConnectionFlow ---------------------------
(***************************************************************************)
(* How two browsers connect: the signalling effect and the connection      *)
(* buttons of src/ui/App.tsx with connectViaSignalling and                 *)
(* acceptViaSignalling of the WebRTC transport.                            *)
(*                                                                         *)
(* A handler runs until it awaits.  What it does after an await is an      *)
(* action of its own: the lookups in the message store, which answers them *)
(* in order, and the stages of a connection attempt.  State set by a       *)
(* handler is seen through the refs after the next Render; a click renders *)
(* what it sets at once.  Frames, clicks, timers, sockets and callbacks    *)
(* come at any time, between any two of these steps.                       *)
(*                                                                         *)
(* The signalling server is a queue for every sender and receiver that     *)
(* also tells the receiver when the sender comes and goes.                 *)
(***************************************************************************)
EXTENDS Naturals, Sequences, FiniteSets, SequencesExt

CONSTANTS
  Device,     \* the browsers, by the order of their peer ids
  AutoOn,     \* those with auto-connect switched on
  Known,      \* the peers a browser trusts from earlier sessions
  MaxClicks,  \* how often users press Connect or Disconnect
  MaxTrouble  \* how often a third browser comes or goes; every socket,
              \* channel or answer that is lost or late counts as three

ASSUME FlowAssumption ==
  /\ Device \subseteq Nat \ {0} /\ IsFiniteSet(Device)
  /\ AutoOn \subseteq Device
  /\ Known \in [Device -> SUBSET Device]
  /\ MaxClicks \in Nat /\ MaxTrouble \in Nat

VARIABLES
  online,          \* the browsers that are registered with the server
  net,             \* net[p][d]: the frames of p on their way to d
  nearby,          \* the provider's list and the state nearbyPeers
  nearbyRef,       \* nearbyPeersRef
  pending,         \* the state pendingOutgoingRequest; 0 is null
  pendingRef,      \* pendingReqRef
  autoConnecting,  \* autoConnectingRef
  autoAccepted,    \* autoAcceptedRef
  yieldedManual,   \* yieldedManualRef
  incoming,        \* incomingRequests, the first one in the popup
  lookups,         \* handlers that await getTrustedPeer
  trusted,         \* the trusted peers in the message store
  attempts,        \* every transport made so far, with its handler
  sessions,        \* activeSessions: an attempt for every peer; 0 is none
  sessionsRef,     \* activeSessionsRef
  clicks, events, faults

presence == <<online, nearby, nearbyRef>>
requests == <<pending, pendingRef, autoConnecting, autoAccepted, yieldedManual, incoming>>
connected == <<trusted, attempts, sessions, sessionsRef>>
bounds == <<clicks, events, faults>>

MayHappen == events + 3 * faults + 1 <= MaxTrouble
MayFail == events + 3 * faults + 3 <= MaxTrouble

\* The refs show the state.
Rendered(d) ==
  nearbyRef[d] = nearby[d] /\ pendingRef[d] = pending[d] /\ sessionsRef[d] = sessions[d]

flow == <<presence, net, requests, lookups, connected, bounds>>

\* The elements of s at the places I, in their order.
Among(s, I) ==
  [k \in 1..Cardinality(I) |-> s[CHOOSE i \in I : Cardinality({j \in I : j < i}) = k - 1]]

-----------------------------------------------------------------------------
(* Messages.                                                               *)

\* A message is dropped by a browser that is not connected, and refused by
\* the server if its receiver is not.
Relayed(d, p, m) == IF {d, p} \subseteq online THEN <<m>> ELSE <<>>

Send(d, p, m) == net' = [net EXCEPT ![d][p] = @ \o Relayed(d, p, m)]

Arrived(d, p, type) == net[p][d] # <<>> /\ Head(net[p][d]).type = type

Take(d, p) == net' = [net EXCEPT ![p][d] = Tail(@)]

TakeAndSend(d, p, m) ==
  net' = [net EXCEPT ![p][d] = Tail(@), ![d][p] = @ \o Relayed(d, p, m)]

Request == [type |-> "connect-request"]
Rejected == [type |-> "connect-rejected"]

\* What an accept was given by: the popup, the auto-connect setting or a
\* yielded request.  Only the properties look at it.
Accepted(how) == [type |-> "connect-accepted", how |-> how]

Offer(i) == [type |-> "webrtc-offer", id |-> i]
Answer(i) == [type |-> "webrtc-answer", id |-> i]

-----------------------------------------------------------------------------
(* Presence and auto-connect.                                              *)

\* A session that is connected or connecting, as the ref shows it.
Busy(d, p) ==
  /\ sessionsRef[d][p] # 0
  /\ attempts[sessionsRef[d][p]].state \in {"connected", "connecting"}

\* The tie-breaker is d < p.
Eligible(d, p) ==
  /\ d \in AutoOn
  /\ ~Busy(d, p)
  /\ p \notin autoConnecting[d]
  /\ pendingRef[d] # p
  /\ d < p

Lookup(kind, p) == [kind |-> kind, peer |-> p]

\* onPeersChanged.
PeersChanged(d, list) ==
  /\ nearby' = [nearby EXCEPT ![d] = list]
  /\ lookups' = [lookups EXCEPT ![d] =
                   @ \o SetToSeq({Lookup("peers", p) : p \in {q \in list : Eligible(d, q)}})]

HandleJoined(d, p) ==
  /\ Arrived(d, p, "peer-joined")
  /\ Take(d, p)
  /\ IF p \in nearby[d] THEN UNCHANGED <<nearby, lookups>>
                        ELSE PeersChanged(d, nearby[d] \cup {p})
  /\ UNCHANGED <<online, nearbyRef, requests, connected, bounds>>

HandleLeft(d, p) ==
  /\ Arrived(d, p, "peer-left")
  /\ Take(d, p)
  /\ PeersChanged(d, nearby[d] \ {p})
  /\ UNCHANGED <<online, nearbyRef, requests, connected, bounds>>

\* The presence of a third browser changes the list, too.
PresenceEvent(d) ==
  /\ d \in online
  /\ MayHappen
  /\ events' = events + 1
  /\ PeersChanged(d, nearby[d])
  /\ UNCHANGED <<online, nearbyRef, net, requests, connected, clicks, faults>>

\* getTrustedPeer answered a lookup of this kind.
Answered(d, kind) ==
  /\ lookups[d] # <<>>
  /\ Head(lookups[d]).kind = kind
  /\ lookups' = [lookups EXCEPT ![d] = Tail(@)]

Found(d) == Head(lookups[d]).peer

\* A mutant of MayAutoConnect: an attempt that began during the lookup is
\* not noticed.
MayAutoConnectAgain(d, p) ==
  /\ p \in trusted[d]
  /\ ~Busy(d, p)
  /\ pendingRef[d] = 0

\* The re-check after the async gap.
MayAutoConnect(d, p) ==
  /\ p \in trusted[d]
  /\ ~Busy(d, p)
  /\ p \notin autoConnecting[d]
  /\ pendingRef[d] = 0

AutoConnect(d) ==
  /\ Answered(d, "peers")
  /\ IF MayAutoConnect(d, Found(d))
       THEN /\ autoConnecting' = [autoConnecting EXCEPT ![d] = @ \cup {Found(d)}]
            /\ Send(d, Found(d), Request)
       ELSE UNCHANGED <<autoConnecting, net>>
  /\ UNCHANGED <<presence, pending, pendingRef, autoAccepted, yieldedManual, incoming,
                 connected, bounds>>

-----------------------------------------------------------------------------
(* Requests.                                                               *)

\* onConnectionRequest up to its await: glare is resolved at once.
HandleRequest(d, p) ==
  /\ Arrived(d, p, "connect-request")
  /\ \/ \* we win the initiator role
        /\ pendingRef[d] = p \/ p \in autoConnecting[d]
        /\ d < p
        /\ Take(d, p)
        /\ UNCHANGED <<pending, autoConnecting, autoAccepted, yieldedManual, lookups>>
     \/ \* we yield a manual request and accept theirs
        /\ pendingRef[d] = p
        /\ p < d
        /\ autoConnecting' = [autoConnecting EXCEPT ![d] = @ \ {p}]
        /\ pending' = [pending EXCEPT ![d] = 0]
        /\ yieldedManual' = [yieldedManual EXCEPT ![d] = @ \cup {p}]
        /\ autoAccepted' = [autoAccepted EXCEPT ![d] = @ \cup {p}]
        /\ TakeAndSend(d, p, Accepted("yielded"))
        /\ UNCHANGED lookups
     \/ \* nothing of ours is under way, or an automatic request we give up
        /\ pendingRef[d] # p
        /\ p \in autoConnecting[d] => p < d
        /\ autoConnecting' = [autoConnecting EXCEPT ![d] = @ \ {p}]
        /\ lookups' = [lookups EXCEPT ![d] = Append(@, Lookup("request", p))]
        /\ Take(d, p)
        /\ UNCHANGED <<pending, autoAccepted, yieldedManual>>
  /\ UNCHANGED <<presence, pendingRef, incoming, connected, bounds>>

\* A mutant of DecideRequest: a second request of a browser is added to the
\* first.
DecideRequestTwice(d) ==
  /\ Answered(d, "request")
  /\ IF d \in AutoOn /\ Found(d) \in trusted[d]
       THEN /\ autoAccepted' = [autoAccepted EXCEPT ![d] = @ \cup {Found(d)}]
            /\ Send(d, Found(d), Accepted("auto"))
            /\ UNCHANGED incoming
       ELSE /\ incoming' = [incoming EXCEPT ![d] = Append(@, Found(d))]
            /\ UNCHANGED <<autoAccepted, net>>
  /\ UNCHANGED <<presence, pending, pendingRef, autoConnecting, yieldedManual,
                 connected, bounds>>

\* The rest of onConnectionRequest: accepted silently, or put in the popup in
\* place of an earlier request of the same browser.
DecideRequest(d) ==
  /\ Answered(d, "request")
  /\ IF d \in AutoOn /\ Found(d) \in trusted[d]
       THEN /\ autoAccepted' = [autoAccepted EXCEPT ![d] = @ \cup {Found(d)}]
            /\ Send(d, Found(d), Accepted("auto"))
            /\ UNCHANGED incoming
       ELSE /\ incoming' = [incoming EXCEPT ![d] =
                              Append(Among(@, {n \in DOMAIN @ : @[n] # Found(d)}), Found(d))]
            /\ UNCHANGED <<autoAccepted, net>>
  /\ UNCHANGED <<presence, pending, pendingRef, autoConnecting, yieldedManual,
                 connected, bounds>>

AnswerPopup(d, m) ==
  /\ incoming[d] # <<>>
  /\ Send(d, Head(incoming[d]), m)
  /\ incoming' = [incoming EXCEPT ![d] = Tail(@)]
  /\ UNCHANGED <<presence, pending, pendingRef, autoConnecting, autoAccepted,
                 yieldedManual, lookups, connected, bounds>>

AcceptRequest(d) == AnswerPopup(d, Accepted("popup"))
RejectRequest(d) == AnswerPopup(d, Rejected)

HandleRejected(d, p) ==
  /\ Arrived(d, p, "connect-rejected")
  /\ Take(d, p)
  /\ autoConnecting' = [autoConnecting EXCEPT ![d] = @ \ {p}]
  /\ pending' = IF pendingRef[d] = p THEN [pending EXCEPT ![d] = 0] ELSE pending
  /\ UNCHANGED <<presence, pendingRef, autoAccepted, yieldedManual, incoming,
                 lookups, connected, bounds>>

\* The Connect button: of a nearby device that is not waited for, or in the
\* chat with a known one.
ClickConnect(d, p) ==
  /\ clicks < MaxClicks
  /\ d # p
  /\ \/ p \in nearbyRef[d] /\ pendingRef[d] # p
     \/ p \in trusted[d]
  /\ sessionsRef[d][p] # 0 => attempts[sessionsRef[d][p]].state # "connected"
  /\ clicks' = clicks + 1
  /\ Send(d, p, Request)
  /\ pending' = [pending EXCEPT ![d] = p]
  /\ pendingRef' = [pendingRef EXCEPT ![d] = p]
  /\ UNCHANGED <<presence, autoConnecting, autoAccepted, yieldedManual, incoming,
                 lookups, connected, events, faults>>

-----------------------------------------------------------------------------
(* Offers and answers.                                                     *)

Attempt(d, p, role, mate, manual, how, navigates) ==
  [dev |-> d, peer |-> p, role |-> role, stage |-> "gathering", state |-> "idle",
   mate |-> mate, manual |-> manual, how |-> how, navigates |-> navigates,
   after |-> {}]

\* The initializeSession calls of d: they pass through the same operations of
\* the message store and end in the order in which they began.
Securing(d) ==
  {i \in DOMAIN attempts : attempts[i].dev = d /\ attempts[i].stage = "securing"}

\* A mutant of Finally: the request stays pending.
FinallyPending(d, p, manual) ==
  /\ autoConnecting' = [autoConnecting EXCEPT ![d] = @ \ {p}]
  /\ UNCHANGED pending

\* The finally clause of onConnectionAccepted.
Finally(d, p, manual) ==
  /\ autoConnecting' = [autoConnecting EXCEPT ![d] = @ \ {p}]
  /\ pending' = IF manual THEN [pending EXCEPT ![d] = 0] ELSE pending

StartOffer(d, p, manual, how) ==
  attempts' = Append(attempts, Attempt(d, p, "offerer", 0, manual, how, manual))

\* A mutant of HandleAccepted: only the user's requests are asked for.
HandleAcceptedManual(d, p) ==
  /\ Arrived(d, p, "connect-accepted")
  /\ Take(d, p)
  /\ \/ pendingRef[d] # p /\ UNCHANGED attempts
     \/ pendingRef[d] = p /\ StartOffer(d, p, TRUE, Head(net[p][d]).how)
  /\ UNCHANGED <<presence, requests, lookups, trusted, sessions, sessionsRef, bounds>>

\* onConnectionAccepted; it awaits only if the peer is not nearby any more.
HandleAccepted(d, p) ==
  LET manual == pendingRef[d] = p
      how == Head(net[p][d]).how
  IN  /\ Arrived(d, p, "connect-accepted")
      /\ Take(d, p)
      /\ \/ /\ ~manual /\ p \notin autoConnecting[d]
            /\ UNCHANGED <<lookups, attempts>>
         \/ /\ manual \/ p \in autoConnecting[d]
            /\ p \in nearbyRef[d]
            /\ StartOffer(d, p, manual, how)
            /\ UNCHANGED lookups
         \/ /\ manual \/ p \in autoConnecting[d]
            /\ p \notin nearbyRef[d]
            /\ lookups' = [lookups EXCEPT ![d] = Append(@,
                 [kind |-> "accepted", peer |-> p, manual |-> manual, how |-> how])]
            /\ UNCHANGED attempts
      /\ UNCHANGED <<presence, requests, trusted, sessions, sessionsRef, bounds>>

ResolveAccepted(d) ==
  LET w == Head(lookups[d])
  IN  /\ Answered(d, "accepted")
      /\ IF w.peer \in trusted[d]
           THEN /\ StartOffer(d, w.peer, w.manual, w.how)
                /\ UNCHANGED <<pending, autoConnecting>>
           ELSE Finally(d, w.peer, w.manual) /\ UNCHANGED attempts
      /\ UNCHANGED <<presence, net, pendingRef, autoAccepted, yieldedManual, incoming,
                     trusted, sessions, sessionsRef, bounds>>

\* Mutants of StartAnswer: a yielded request does not open the chat; every
\* offer does.
StartAnswerYielded(d, p, i) ==
  /\ autoAccepted' = [autoAccepted EXCEPT ![d] = @ \ {p}]
  /\ yieldedManual' = [yieldedManual EXCEPT ![d] = @ \ {p}]
  /\ attempts' = Append(attempts,
       Attempt(d, p, "answerer", i, FALSE, attempts[i].how, p \notin autoAccepted[d]))

StartAnswerOpens(d, p, i) ==
  /\ UNCHANGED <<autoAccepted, yieldedManual>>
  /\ attempts' = Append(attempts,
       Attempt(d, p, "answerer", i, FALSE, attempts[i].how, TRUE))

\* onWebRtcOffer: the marks of the accept are used up.  Only an accept the
\* user gave, or a request of the user's that yielded, opens the chat.
StartAnswer(d, p, i) ==
  /\ autoAccepted' = [autoAccepted EXCEPT ![d] = @ \ {p}]
  /\ yieldedManual' = [yieldedManual EXCEPT ![d] = @ \ {p}]
  /\ attempts' = Append(attempts,
       Attempt(d, p, "answerer", i, FALSE, attempts[i].how,
               p \notin autoAccepted[d] \/ p \in yieldedManual[d]))

HandleOffer(d, p) ==
  LET i == Head(net[p][d]).id
  IN  /\ Arrived(d, p, "webrtc-offer")
      /\ Take(d, p)
      /\ IF p \in nearbyRef[d]
           THEN StartAnswer(d, p, i) /\ UNCHANGED lookups
           ELSE /\ lookups' = [lookups EXCEPT ![d] =
                     Append(@, [kind |-> "offer", peer |-> p, id |-> i])]
                /\ UNCHANGED <<autoAccepted, yieldedManual, attempts>>
      /\ UNCHANGED <<presence, pending, pendingRef, autoConnecting, incoming, trusted,
                     sessions, sessionsRef, bounds>>

ResolveOffer(d) ==
  /\ Answered(d, "offer")
  /\ IF Found(d) \in trusted[d]
       THEN StartAnswer(d, Found(d), Head(lookups[d]).id)
       ELSE UNCHANGED <<autoAccepted, yieldedManual, attempts>>
  /\ UNCHANGED <<presence, net, pending, pendingRef, autoConnecting, incoming, trusted,
                 sessions, sessionsRef, bounds>>

\* ICE candidates are gathered: the offer or the answer goes out.  The
\* offerer then listens for an answer; the answerer has all it needs.
Gathered(i) ==
  LET a == attempts[i]
      offers == a.role = "offerer"
  IN  /\ a.stage = "gathering"
      /\ attempts' = [attempts EXCEPT
           ![i].stage = IF offers THEN "listening" ELSE "securing",
           ![i].state = "connecting",
           ![i].after = IF offers THEN {} ELSE Securing(a.dev)]
      /\ Send(a.dev, a.peer, IF offers THEN Offer(i) ELSE Answer(i))
      /\ UNCHANGED <<presence, requests, lookups, trusted, sessions, sessionsRef, bounds>>

\* An answer is for every attempt that listens for one of this peer.
HandleAnswer(d, p) ==
  /\ Arrived(d, p, "webrtc-answer")
  /\ Take(d, p)
  /\ attempts' = [i \in DOMAIN attempts |->
                    IF /\ attempts[i].dev = d /\ attempts[i].peer = p
                       /\ attempts[i].stage = "listening"
                      THEN [attempts[i] EXCEPT !.stage = "securing",
                                               !.mate = Head(net[p][d]).id,
                                               !.after = Securing(d)]
                      ELSE attempts[i]]
  /\ UNCHANGED <<presence, requests, lookups, trusted, sessions, sessionsRef, bounds>>

\* Some frame, lookup or attempt may still lead to an answer to offer i.
AnswerMayCome(i) ==
  LET d == attempts[i].dev  p == attempts[i].peer
      Answering(j) == attempts[j].role = "answerer" /\ attempts[j].mate = i
  IN  \/ \E n \in DOMAIN net[d][p] : net[d][p][n] = Offer(i)
      \/ \E n \in DOMAIN lookups[p] :
           lookups[p][n].kind = "offer" /\ lookups[p][n].id = i
      \/ \E j \in DOMAIN attempts : Answering(j) /\ attempts[j].stage = "gathering"
      \/ \E n \in DOMAIN net[p][d] : net[p][d][n].type = "webrtc-answer"

\* 15 s without an answer.  The peer connection is not closed.
Timeout(i) ==
  LET a == attempts[i]
  IN  /\ a.stage = "listening"
      /\ \/ ~AnswerMayCome(i) /\ UNCHANGED faults
         \/ MayFail /\ faults' = faults + 1
      /\ attempts' = [attempts EXCEPT ![i].stage = "abandoned"]
      /\ Finally(a.dev, a.peer, a.manual)
      /\ UNCHANGED <<presence, net, pendingRef, autoAccepted, yieldedManual, incoming,
                     lookups, trusted, sessions, sessionsRef, clicks, events>>

-----------------------------------------------------------------------------
(* Sessions.                                                               *)

\* What a session's handler takes for the end of its transport.  The
\* transport says failed, too, when its connection is only interrupted.
Over == {"failed", "closed", "interrupted"}

\* initializeSession and attachSession.  The session the ref shows is
\* disconnected; one that was attached since the last render is not.
Attach(i) ==
  LET a == attempts[i]
      old == sessionsRef[a.dev][a.peer]
      deaf == old # 0
  IN  /\ a.stage = "securing"
      /\ a.after = {}
      /\ trusted' = [trusted EXCEPT ![a.dev] = @ \cup {a.peer}]
      /\ attempts' = [k \in DOMAIN attempts |->
           IF k = i THEN [a EXCEPT !.stage = "attached"]
           ELSE [attempts[k] EXCEPT !.state = IF k = old THEN "closed" ELSE @,
                                    !.after = @ \ {i}]]
      /\ sessions' = [sessions EXCEPT ![a.dev][a.peer] =
                        IF a.state \in Over /\ ~deaf THEN 0 ELSE i]
      /\ IF a.role = "offerer" THEN Finally(a.dev, a.peer, a.manual)
                               ELSE UNCHANGED <<pending, autoConnecting>>
      /\ UNCHANGED <<presence, net, pendingRef, autoAccepted, yieldedManual, incoming,
                     lookups, sessionsRef, bounds>>

\* A transport's state changes and its session's handler is told, which
\* ignores a transport that the ref does not show.
StateChange(i, s) ==
  LET d == attempts[i].dev  p == attempts[i].peer
      heard == attempts[i].stage = "attached" /\ sessionsRef[d][p] \in {0, i}
  IN  /\ attempts' = [attempts EXCEPT ![i].state = s]
      /\ sessions' = IF heard /\ s \in Over /\ sessions[d][p] = i
                       THEN [sessions EXCEPT ![d][p] = 0] ELSE sessions
      /\ UNCHANGED <<presence, net, requests, lookups, trusted, sessionsRef, clicks, events>>

\* The answer an offerer applied is the answer to its own offer.
Mates(i, j) ==
  /\ attempts[i].role # attempts[j].role
  /\ attempts[i].mate = j /\ attempts[j].mate = i

\* The connections that a mate can reach or may reach again.
Live(i) == attempts[i].state \in {"connecting", "connected", "interrupted"}

MateLives(i) == \E j \in DOMAIN attempts : Mates(i, j) /\ Live(j)

\* The data channel opens at one end.
Opens(i) ==
  /\ attempts[i].state = "connecting"
  /\ MateLives(i)
  /\ StateChange(i, "connected")
  /\ UNCHANGED faults

\* The other end closed its connection, and with it the channel.  One that
\* failed or is interrupted is not closed.
Closes(i) ==
  /\ attempts[i].state \in {"connected", "interrupted"}
  /\ attempts[attempts[i].mate].state = "closed"
  /\ StateChange(i, "closed")
  /\ UNCHANGED faults

\* The answerer's offerer may yet apply its answer.
MateMayCome(j) ==
  LET i == attempts[j].mate
  IN  /\ attempts[i].stage = "listening"
      /\ \E n \in DOMAIN net[attempts[j].dev][attempts[i].dev] :
           net[attempts[j].dev][attempts[i].dev][n] = Answer(j)

\* The checks of ICE give up: there is a remote description and nobody who
\* responds to it, or whose link is interrupted.
Fails(i) ==
  /\ attempts[i].state = "connecting"
  /\ attempts[i].mate # 0
  /\ \A j \in DOMAIN attempts :
       Mates(i, j) => attempts[j].state \notin {"connecting", "connected"}
  /\ attempts[i].role = "answerer" => ~MateMayCome(i)
  /\ StateChange(i, "failed")
  /\ UNCHANGED faults

\* The link under an open channel is interrupted, for a while or for good.
LinkLost(i) ==
  /\ attempts[i].state = "connected"
  /\ MayFail
  /\ faults' = faults + 1
  /\ StateChange(i, "interrupted")

\* The link comes back: the connection is connected again.
Recovers(i) ==
  /\ attempts[i].state = "interrupted"
  /\ MateLives(i)
  /\ StateChange(i, "connected")
  /\ UNCHANGED faults

\* The Disconnect buttons.
ClickDisconnect(d, p) ==
  LET i == sessionsRef[d][p]
  IN  /\ clicks < MaxClicks
      /\ i # 0 /\ attempts[i].state = "connected"
      /\ clicks' = clicks + 1
      /\ attempts' = [attempts EXCEPT ![i].state = "closed"]
      /\ sessions' = [sessions EXCEPT ![d][p] = 0]
      /\ sessionsRef' = [sessionsRef EXCEPT ![d][p] = 0]
      /\ UNCHANGED <<presence, net, requests, lookups, trusted, events, faults>>

\* React renders: the refs take the values of the state.
Render(d) ==
  /\ ~Rendered(d)
  /\ nearbyRef' = [nearbyRef EXCEPT ![d] = nearby[d]]
  /\ pendingRef' = [pendingRef EXCEPT ![d] = pending[d]]
  /\ sessionsRef' = [sessionsRef EXCEPT ![d] = sessions[d]]
  /\ UNCHANGED <<online, net, nearby, pending, autoConnecting, autoAccepted,
                 yieldedManual, incoming, lookups, trusted, attempts, sessions, bounds>>

-----------------------------------------------------------------------------
(* The signalling socket.                                                  *)

\* The socket opens, registers and gets the list of the others.
GoOnline(d) ==
  /\ d \notin online
  /\ online' = online \cup {d}
  /\ net' = [net EXCEPT ![d] =
               [p \in Device |-> IF p \in online THEN Append(@[p], [type |-> "peer-joined"])
                                                 ELSE @[p]]]
  /\ PeersChanged(d, online)
  /\ UNCHANGED <<nearbyRef, requests, connected, bounds>>

\* The places of the server's own messages.
Presence(s) == {n \in DOMAIN s : s[n].type \in {"peer-joined", "peer-left"}}

\* The socket is lost with the frames on their way to d, and with those of d
\* that the server has not read.
Drop(d) ==
  /\ d \in online
  /\ MayFail
  /\ faults' = faults + 1
  /\ online' = online \ {d}
  /\ \E keep \in BOOLEAN :
       net' = [p \in Device |-> [q \in Device |->
                 CASE q = d -> <<>>
                   [] p = d /\ q \in online ->
                        Append(IF keep THEN net[p][q]
                               ELSE Among(net[p][q], Presence(net[p][q])),
                               [type |-> "peer-left"])
                   [] OTHER -> net[p][q]]]
  /\ PeersChanged(d, {})
  /\ UNCHANGED <<nearbyRef, requests, connected, clicks, events>>

-----------------------------------------------------------------------------
FlowInit ==
  /\ online = {}
  /\ net = [p \in Device |-> [d \in Device |-> <<>>]]
  /\ nearby = [d \in Device |-> {}] /\ nearbyRef = nearby
  /\ pending = [d \in Device |-> 0] /\ pendingRef = pending
  /\ autoConnecting = [d \in Device |-> {}]
  /\ autoAccepted = autoConnecting /\ yieldedManual = autoConnecting
  /\ incoming = [d \in Device |-> <<>>] /\ lookups = incoming
  /\ trusted = Known
  /\ attempts = <<>>
  /\ sessions = [d \in Device |-> [p \in Device |-> 0]] /\ sessionsRef = sessions
  /\ clicks = 0 /\ events = 0 /\ faults = 0

Messages(d, p) ==
  \/ HandleJoined(d, p) \/ HandleLeft(d, p)
  \/ HandleRequest(d, p) \/ HandleAccepted(d, p) \/ HandleRejected(d, p)
  \/ HandleOffer(d, p) \/ HandleAnswer(d, p)

Continuations(d) ==
  AutoConnect(d) \/ DecideRequest(d) \/ ResolveAccepted(d) \/ ResolveOffer(d)

Progress(i) ==
  Gathered(i) \/ Timeout(i) \/ Attach(i) \/ Opens(i) \/ Closes(i) \/ Fails(i)

Users ==
  \E d \in Device :
    \/ AcceptRequest(d) \/ RejectRequest(d)
    \/ \E p \in Device : ClickConnect(d, p) \/ ClickDisconnect(d, p)

Environment ==
  \/ \E d \in Device : GoOnline(d) \/ Drop(d) \/ PresenceEvent(d)
  \/ \E i \in DOMAIN attempts : LinkLost(i) \/ Recovers(i)

FlowNext ==
  \/ \E d, p \in Device : Messages(d, p)
  \/ \E d \in Device : Continuations(d) \/ Render(d)
  \/ \E i \in DOMAIN attempts : Progress(i)
  \/ Users
  \/ Environment

FlowSpec == FlowInit /\ [][FlowNext]_flow

\* Browsers go online, handlers run, and what the browser's network and timer
\* queues hold is worked off.  Users answer their popups; nothing makes them
\* click Connect, and nothing makes a network fail.
FlowFairness ==
  /\ \A d \in Device :
       /\ WF_flow(GoOnline(d)) /\ WF_flow(Continuations(d)) /\ WF_flow(Render(d))
       /\ WF_flow(AcceptRequest(d) \/ RejectRequest(d))
       /\ \A p \in Device \ {d} : WF_flow(Messages(d, p))
  /\ WF_flow(\E i \in DOMAIN attempts : Progress(i))

FairFlow == FlowSpec /\ FlowFairness

-----------------------------------------------------------------------------
(* Properties.                                                             *)

AttemptType ==
  [dev : Device, peer : Device, role : {"offerer", "answerer"},
   stage : {"gathering", "listening", "securing", "attached", "abandoned"},
   state : {"idle", "connecting", "connected"} \cup Over,
   mate : Nat, manual : BOOLEAN, how : {"auto", "popup", "yielded"},
   navigates : BOOLEAN, after : SUBSET Nat]

\* The variables have their types, references to attempts exist, and no
\* browser has two requests in the popup.
FlowTypeOK ==
  /\ online \subseteq Device
  /\ \A p, d \in Device : \A n \in DOMAIN net[p][d] :
       net[p][d][n].type \in {"peer-joined", "peer-left", "connect-request",
         "connect-accepted", "connect-rejected", "webrtc-offer", "webrtc-answer"}
  /\ \A d \in Device : \A n \in DOMAIN lookups[d] :
       lookups[d][n].kind \in {"peers", "request", "accepted", "offer"}
  /\ nearby \in [Device -> SUBSET Device] /\ nearbyRef \in [Device -> SUBSET Device]
  /\ pending \in [Device -> Device \cup {0}] /\ pendingRef \in [Device -> Device \cup {0}]
  /\ autoConnecting \in [Device -> SUBSET Device]
  /\ autoAccepted \in [Device -> SUBSET Device]
  /\ yieldedManual \in [Device -> SUBSET Device]
  /\ trusted \in [Device -> SUBSET Device]
  /\ ToSet(attempts) \subseteq AttemptType
  /\ sessions \in [Device -> [Device -> 0..Len(attempts)]]
  /\ sessionsRef \in [Device -> [Device -> 0..Len(attempts)]]
  /\ \A d \in Device : IsInjective(incoming[d])

UnderWay(i) == attempts[i].stage \in {"gathering", "listening", "securing"}

\* "Only the lower peerId device gets to be the initiator": two browsers never
\* make offers to each other at the same time.
SingleInitiator ==
  \A i, j \in DOMAIN attempts :
    ~ /\ attempts[i].role = "offerer" /\ attempts[j].role = "offerer"
      /\ attempts[i].dev = attempts[j].peer /\ attempts[i].peer = attempts[j].dev
      /\ UnderWay(i) /\ UnderWay(j)

\* The session of d with p is connected to the session of p with d.
Together(d, p) ==
  /\ sessions[d][p] # 0 /\ sessions[p][d] # 0
  /\ Mates(sessions[d][p], sessions[p][d])
  /\ attempts[sessions[d][p]].state = "connected"
  /\ attempts[sessions[p][d]].state = "connected"

\* What an auto-connect of d to p holds at a time: its request on the way, in
\* the store's queue or in the popup, the answer to it on the way or in the
\* store's queue, or the offer that follows.
Exchange(d, p) ==
  {<<"asks", n>> : n \in {n \in DOMAIN net[d][p] : net[d][p][n].type = "connect-request"}}
  \cup {<<"decides", n>> : n \in {n \in DOMAIN lookups[p] :
          lookups[p][n].kind = "request" /\ lookups[p][n].peer = d}}
  \cup {<<"popup", n>> : n \in {n \in DOMAIN incoming[p] : incoming[p][n] = d}}
  \cup {<<"answers", n>> : n \in {n \in DOMAIN net[p][d] :
          net[p][d][n].type \in {"connect-accepted", "connect-rejected"}}}
  \cup {<<"hears", n>> : n \in {n \in DOMAIN lookups[d] :
          lookups[d][n].kind = "accepted" /\ lookups[d][n].peer = p}}
  \cup {<<"offers", i>> : i \in {i \in DOMAIN attempts :
          /\ attempts[i].role = "offerer" /\ UnderWay(i)
          /\ attempts[i].dev = d /\ attempts[i].peer = p}}

\* "Skip if an auto-connect attempt is in-flight": while nobody presses
\* Connect, two browsers are never in two exchanges at a time, over any
\* number of presence lists, renders, timeouts and lost sockets.
OneExchange ==
  \A d, p \in Device : d # p =>
    /\ \A x, y \in Exchange(d, p) : x = y
    /\ Exchange(d, p) = {} \/ Exchange(p, d) = {}

\* "Only navigate to chat for manual accepts; auto-accept silently
\* establishes": a connection opens the chat on the accepting side exactly if
\* the user accepted it or had asked for it.
AutoAcceptIsSilent ==
  \A i \in DOMAIN attempts :
    attempts[i].role = "answerer" => (attempts[i].navigates <=> attempts[i].how # "auto")

\* "Deterministic auto-reconnect": two browsers that trust each other, have
\* auto-connect on and stay online are connected in the end and stay so, over
\* sessions that replace each other, unless a message, a link or an answer in
\* time is lost.
AutoConnects ==
  \A d, p \in AutoOn :
    d < p /\ p \in Known[d] /\ d \in Known[p] =>
      (<>[]({d, p} \subseteq online) => <>[](Together(d, p) \/ faults > 0))

\* A request that is on its way to the other browser is accepted, rejected or
\* given up, and "Waiting..." ends, unless that browser still shows a request
\* of its own to this one.
WaitingEnds ==
  \A d, p \in Device : d # p =>
    (Arrived(p, d, "connect-request") ~> pending[d] # p \/ pendingRef[p] = d)
=============================================================================
