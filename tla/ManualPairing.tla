--------------------------- MODULE ManualPairing ---------------------------
(***************************************************************************)
(* Pairing by codes, without a signalling server: one user creates an      *)
(* invite, the other answers it, and the users carry the codes, as links   *)
(* or by hand.  A link opens a tab of its own, which hands the code to the *)
(* tabs that are open already, over a BroadcastChannel and by a storage    *)
(* event, and handles it itself if none of them acknowledges in 700 ms.    *)
(*                                                                         *)
(* A transport is its place in transports, and so is its code.  The        *)
(* initializeSession calls of a tab end in the order in which they began.  *)
(* Users paste into a tab that was open from the start, carry an answer    *)
(* when the tab that shows it has nothing under way, and do not answer an  *)
(* invite again after that.  Tabs stay open.                               *)
(***************************************************************************)
EXTENDS Naturals, Sequences, SequencesExt

CONSTANTS
  Inviting,  \* the tabs of the browser that invites
  Joining,   \* the tabs of the browser that joins
  OpenTab,   \* those that are open from the start
  MaxCarries, \* how often a user carries a code, as a link or by hand
  MaxGiveUps \* how often ICE does not wait for the answer to be carried

Tab == Inviting \cup Joining

ASSUME PairingAssumption ==
  /\ Inviting \cap Joining = {} /\ OpenTab \subseteq Tab
  /\ MaxCarries \in Nat /\ MaxGiveUps \in Nat

VARIABLES
  open,       \* the tabs that are open
  link,       \* the code in a tab's address
  handoff,    \* sendPairingToExistingTab: none, waiting, handed or own
  mail,       \* handoffs that a tab has yet to receive
  acks,       \* tabs an acknowledgement is on its way to
  transports, \* every transport made so far
  invite,     \* inviteTransportRef; 0 is null
  shown,      \* joinAnswerCode
  securing,   \* the initializeSession calls of a tab
  sessions,   \* the session with the other browser; 0 is none
  sessionsRef,
  carries, giveUps

tabs == <<open, link, handoff, mail, acks>>
chats == <<sessions, sessionsRef>>
pvars == <<tabs, transports, invite, shown, securing, chats, carries, giveUps>>

NoLink == [kind |-> "none", code |-> 0]
Browser(t) == IF t \in Inviting THEN Inviting ELSE Joining

-----------------------------------------------------------------------------
(* createInvite, generateAnswerFromCode and applyAnswerCode.               *)

NewTransport(t, offer) ==
  Append(transports, [tab |-> t, offer |-> offer, remote |-> offer, state |-> "gathering"])

CreateInvite(t) ==
  /\ t \in open \cap Inviting
  /\ transports = <<>>
  /\ transports' = NewTransport(t, 0)
  /\ UNCHANGED <<tabs, invite, shown, securing, chats, carries, giveUps>>

\* The invite of tab t has no answer yet.
Awaits(t) == IF invite[t] = 0 THEN FALSE ELSE transports[invite[t]].remote = 0

\* A mutant of Handle: the answer goes to a new transport, which has no
\* connection.
HandleAnew(t, kind, code) ==
  /\ transports' = IF kind = "invite" THEN NewTransport(t, code) ELSE transports
  /\ UNCHANGED securing

\* handlePairingPayload up to its first await that takes time.  An answer
\* needs the tab's invite, and is refused by a connection that has one.
Handle(t, kind, code) ==
  LET awaited == kind = "answer" /\ Awaits(t)
  IN  /\ transports' = CASE kind = "invite" -> NewTransport(t, code)
                         [] awaited -> [transports EXCEPT ![invite[t]].remote = code]
                         [] OTHER -> transports
      /\ securing' = IF awaited THEN [securing EXCEPT ![t] = Append(@, invite[t])]
                     ELSE securing

\* ICE gathering is over: the code is shown.
Gathered(i) ==
  LET t == transports[i].tab
  IN  /\ transports[i].state = "gathering"
      /\ transports' = [transports EXCEPT ![i].state = "connecting"]
      /\ IF transports[i].offer = 0
           THEN /\ invite' = [invite EXCEPT ![t] = i]
                /\ UNCHANGED <<shown, securing>>
           ELSE /\ shown' = [shown EXCEPT ![t] = i]
                /\ securing' = [securing EXCEPT ![t] = Append(@, i)]
                /\ UNCHANGED invite
      /\ UNCHANGED <<tabs, chats, carries, giveUps>>

Over == {"failed", "closed"}

\* A mutant of Attach: a session that is there is kept.
AttachUnlessThere(t) ==
  /\ securing[t] # <<>>
  /\ securing' = [securing EXCEPT ![t] = Tail(@)]
  /\ sessions' = [sessions EXCEPT ![t] = IF @ = 0 THEN Head(securing[t]) ELSE @]
  /\ UNCHANGED <<tabs, transports, invite, shown, sessionsRef, carries, giveUps>>

\* attachSession: the session that the ref shows is disconnected.
Attach(t) ==
  LET i == Head(securing[t])  old == sessionsRef[t]
  IN  /\ securing[t] # <<>>
      /\ securing' = [securing EXCEPT ![t] = Tail(@)]
      /\ transports' = IF old \in {0, i} THEN transports
                       ELSE [transports EXCEPT ![old].state = "closed"]
      /\ sessions' = [sessions EXCEPT ![t] =
                        IF transports[i].state \in Over /\ old \in {0, i} THEN 0 ELSE i]
      /\ UNCHANGED <<tabs, invite, shown, sessionsRef, carries, giveUps>>

Render(t) ==
  /\ sessionsRef[t] # sessions[t]
  /\ sessionsRef' = [sessionsRef EXCEPT ![t] = sessions[t]]
  /\ UNCHANGED <<tabs, transports, invite, shown, securing, sessions, carries, giveUps>>

-----------------------------------------------------------------------------
(* Links and the handoff between tabs.                                     *)

\* Nothing that tab t was given is still under way.
Quiet(t) ==
  /\ \A m \in mail : m.to # t
  /\ \A i \in DOMAIN transports : transports[i].tab = t => transports[i].state # "gathering"
  /\ securing[t] = <<>> /\ sessionsRef[t] = sessions[t] /\ handoff[t] # "waiting"

\* An answer is on its way, or arrived.
Carried ==
  \/ \E t \in Inviting : link[t].kind = "answer"
  \/ \E t \in Inviting : invite[t] # 0 /\ ~Awaits(t)

\* The codes a user can carry to tab t.
Codes(t) ==
  {[kind |-> "invite", code |-> invite[u]] :
     u \in {v \in Inviting : t \in Joining /\ invite[v] # 0 /\ ~Carried}}
  \cup {[kind |-> "answer", code |-> shown[u]] :
     u \in {v \in Joining : t \in Inviting /\ shown[v] # 0 /\ Quiet(v)}}

\* handlePairingLink: the code goes to the tabs that are open.
OpenLink(t, l) ==
  /\ t \notin open /\ l \in Codes(t)
  /\ carries < MaxCarries
  /\ carries' = carries + 1
  /\ open' = open \cup {t}
  /\ link' = [link EXCEPT ![t] = l]
  /\ handoff' = [handoff EXCEPT ![t] = "waiting"]
  /\ mail' = mail \cup [from : {t}, to : open \cap Browser(t), via : {"channel", "storage"}]
  /\ UNCHANGED <<acks, transports, invite, shown, securing, chats, giveUps>>

\* handleChannelMessage and handleStorageMessage acknowledge and handle.
Receive(m) ==
  /\ m \in mail
  /\ mail' = mail \ {m}
  /\ acks' = acks \cup {m.from}
  /\ Handle(m.to, link[m.from].kind, link[m.from].code)
  /\ UNCHANGED <<open, link, handoff, invite, shown, chats, carries, giveUps>>

\* A mutant of Acknowledged: handlePairingLink does not return then.
AcknowledgedGoesOn(t) ==
  /\ t \in acks
  /\ acks' = acks \ {t}
  /\ handoff' = [handoff EXCEPT ![t] = IF @ = "waiting" THEN "handed" ELSE @]
  /\ Handle(t, link[t].kind, link[t].code)
  /\ UNCHANGED <<open, link, mail, invite, shown, chats, carries, giveUps>>

Acknowledged(t) ==
  /\ t \in acks
  /\ acks' = acks \ {t}
  /\ handoff' = [handoff EXCEPT ![t] = IF @ = "waiting" THEN "handed" ELSE @]
  /\ UNCHANGED <<open, link, mail, transports, invite, shown, securing, chats, carries, giveUps>>

\* 700 ms without an acknowledgement.
TimedOut(t) ==
  /\ handoff[t] = "waiting"
  /\ handoff' = [handoff EXCEPT ![t] = "own"]
  /\ Handle(t, link[t].kind, link[t].code)
  /\ UNCHANGED <<open, link, mail, acks, invite, shown, chats, carries, giveUps>>

\* joinInvite and applyAnswer, with a code that was pasted.
Paste(t, l) ==
  /\ t \in OpenTab /\ l \in Codes(t)
  /\ l.kind = "answer" => invite[t] # 0
  /\ carries < MaxCarries
  /\ carries' = carries + 1
  /\ Handle(t, l.kind, l.code)
  /\ UNCHANGED <<tabs, invite, shown, chats, giveUps>>

-----------------------------------------------------------------------------
(* The transports.                                                         *)

StateChange(i, s) ==
  LET t == transports[i].tab
      heard == sessions[t] = i /\ sessionsRef[t] \in {0, i}
  IN  /\ transports' = [transports EXCEPT ![i].state = s]
      /\ sessions' = IF heard /\ s \in Over THEN [sessions EXCEPT ![t] = 0] ELSE sessions
      /\ UNCHANGED <<tabs, invite, shown, securing, sessionsRef, carries>>

Mates(i, j) == transports[i].remote = j /\ transports[j].remote = i

\* A mutant of Opens: the state is the readyState of the channel.
OpensAsChannel(i) ==
  /\ transports[i].state = "connecting"
  /\ \E j \in DOMAIN transports :
       Mates(i, j) /\ transports[j].state \in {"connecting", "connected"}
  /\ StateChange(i, "open")
  /\ UNCHANGED giveUps

Opens(i) ==
  /\ transports[i].state = "connecting"
  /\ \E j \in DOMAIN transports :
       Mates(i, j) /\ transports[j].state \in {"connecting", "connected"}
  /\ StateChange(i, "connected")
  /\ UNCHANGED giveUps

\* ICE finds nobody at the other end.
Fails(i) ==
  LET j == transports[i].remote
  IN  /\ transports[i].state = "connecting" /\ j # 0
      /\ \/ transports[j].state \in Over
         \/ transports[j].remote \notin {0, i}
      /\ StateChange(i, "failed")
      /\ UNCHANGED giveUps

\* ICE does not wait for the answer to be carried.
GivesUp(i) ==
  /\ transports[i].state = "connecting" /\ transports[i].remote # 0
  /\ transports[transports[i].remote].remote = 0
  /\ giveUps < MaxGiveUps /\ giveUps' = giveUps + 1
  /\ StateChange(i, "failed")

\* The other end closed its connection.
Closes(i) ==
  /\ transports[i].state = "connected"
  /\ transports[transports[i].remote].state = "closed"
  /\ StateChange(i, "closed")
  /\ UNCHANGED giveUps

-----------------------------------------------------------------------------
PairingInit ==
  /\ open = OpenTab
  /\ link = [t \in Tab |-> NoLink] /\ handoff = [t \in Tab |-> "none"]
  /\ mail = {} /\ acks = {}
  /\ transports = <<>>
  /\ invite = [t \in Tab |-> 0] /\ shown = [t \in Tab |-> 0]
  /\ securing = [t \in Tab |-> <<>>]
  /\ sessions = [t \in Tab |-> 0] /\ sessionsRef = sessions
  /\ carries = 0 /\ giveUps = 0

Handlers ==
  \/ \E t \in Tab : Attach(t) \/ Render(t) \/ Acknowledged(t) \/ TimedOut(t)
  \/ \E m \in mail : Receive(m)
  \/ \E i \in DOMAIN transports : Gathered(i) \/ Opens(i) \/ Fails(i) \/ Closes(i)

Users ==
  \E t \in Tab :
    \/ CreateInvite(t)
    \/ \E l \in Codes(t) : OpenLink(t, l) \/ Paste(t, l)

PairingNext == Handlers \/ Users \/ \E i \in DOMAIN transports : GivesUp(i)

\* Browsers run what is due; nothing makes the users act, or ICE give up.
FairPairing == PairingInit /\ [][PairingNext]_pvars /\ WF_pvars(Handlers)

-----------------------------------------------------------------------------
(* Properties.                                                             *)

\* The variables have their types; the codes in use are transports.
PairingTypeOK ==
  LET Code == 0..Len(transports)
  IN  /\ link \in [Tab -> [kind : {"none", "invite", "answer"}, code : Code]]
      /\ handoff \in [Tab -> {"none", "waiting", "handed", "own"}]
      /\ mail \subseteq [from : Tab, to : Tab, via : {"channel", "storage"}]
      /\ ToSet(transports) \subseteq
           [tab : Tab, offer : Code, remote : Code,
            state : {"gathering", "connecting", "connected"} \cup Over]
      /\ \A t \in Tab : {invite[t], shown[t], sessions[t], sessionsRef[t]} \subseteq
                           {0} \cup {i \in DOMAIN transports : transports[i].tab = t}
      /\ open \subseteq Tab /\ acks \subseteq open

\* The answer that a tab shows is that of its session, though two messages
\* may bring the same invite: the user does not carry an answer whose
\* connection was given up for another.
AnswerIsLive ==
  \A t \in Joining :
    Quiet(t) /\ shown[t] # 0 =>
      sessions[t] = shown[t] \/ transports[shown[t]].state \in Over

\* "Pairing sent to the open Ping2Peer tab.": then another tab received the
\* code, and whatever answer this one makes is to a link of another tab, which
\* handed it over.
HandedIsHandled ==
  \A t \in Joining :
    handoff[t] = "handed" =>
      /\ \E i \in DOMAIN transports :
           transports[i].tab # t /\ transports[i].offer = link[t].code
      /\ \A i \in DOMAIN transports :
           transports[i].tab = t =>
             \E u \in Joining \ {t} : link[u].code = transports[i].offer

\* An answer that is carried back connects the two browsers, each in a tab
\* whose session it is, whichever tabs handled the codes and however late the
\* acknowledgements were, unless ICE gave up before.
PairingCompletes ==
  Carried ~>
    \/ giveUps > 0
    \/ \E t \in Inviting, u \in Joining :
         /\ sessions[t] # 0 /\ sessions[u] # 0 /\ Mates(sessions[t], sessions[u])
         /\ {transports[sessions[t]].state, transports[sessions[u]].state} = {"connected"}
=============================================================================
