------------------------ MODULE ManualPairingProofs ------------------------
(***************************************************************************)
(* Proofs about ManualPairing, for any number of tabs of the two browsers, *)
(* of links that are opened and of codes that are pasted.                  *)
(***************************************************************************)
EXTENDS ManualPairing, SequenceTheorems, TLAPS

-----------------------------------------------------------------------------
(* Transports.                                                             *)

State == {"gathering", "connecting", "connected"} \cup Over
Transport == [tab : Tab, offer : Nat, remote : Nat, state : State]

\* The codes in transports are transports.
TransportsOK ==
  /\ transports \in Seq(Transport)
  /\ \A i \in 1..Len(transports) :
       transports[i].offer <= Len(transports) /\ transports[i].remote <= Len(transports)

Own(t) == {i \in 1..Len(transports) : transports[i].tab = t}

\* What no step undoes: a transport keeps its tab and the invite it answers,
\* and one that is over stays so.
Keeps ==
  /\ Len(transports) <= Len(transports')
  /\ \A i \in 1..Len(transports) :
       /\ transports'[i].tab = transports[i].tab
       /\ transports'[i].offer = transports[i].offer
       /\ transports[i].state \in Over => transports'[i].state \in Over

LEMMA TransportFacts ==
  ASSUME TransportsOK
  PROVE  /\ Len(transports) \in Nat /\ DOMAIN transports = 1..Len(transports)
         /\ \A i \in 1..Len(transports) : transports[i] \in Transport
BY LenProperties, ElementOfSeq DEF TransportsOK

\* A new transport at the end.
LEMMA NewFacts ==
  ASSUME TransportsOK, NEW t \in Tab, NEW offer \in Nat, offer <= Len(transports),
         transports' = NewTransport(t, offer)
  PROVE  /\ TransportsOK' /\ Keeps
         /\ Len(transports') = Len(transports) + 1
         /\ \A i \in 1..Len(transports) : transports'[i] = transports[i]
         /\ transports'[Len(transports) + 1].tab = t
         /\ transports'[Len(transports) + 1].offer = offer
<1> DEFINE new == [tab |-> t, offer |-> offer, remote |-> offer, state |-> "gathering"]
<1>1. transports' = Append(transports, new) /\ new \in Transport
  BY DEF NewTransport, Transport, State
<1>2. new.tab = t /\ new.offer = offer /\ new.remote = offer
  OBVIOUS
<1> HIDE DEF new
<1>3. /\ transports' \in Seq(Transport) /\ Len(transports') = Len(transports) + 1
      /\ \A i \in 1..Len(transports) : transports'[i] = transports[i]
      /\ transports'[Len(transports) + 1] = new
  BY <1>1, AppendProperties DEF TransportsOK
<1>4. \A i \in 1..Len(transports') : i \in 1..Len(transports) \/ i = Len(transports) + 1
  BY <1>3, TransportFacts
<1>5. TransportsOK'
  <2>1. \A i \in 1..Len(transports') : transports'[i].offer <= Len(transports)
                                       /\ transports'[i].remote <= Len(transports)
    BY <1>2, <1>3, <1>4 DEF TransportsOK
  <2>2. \A i \in 1..Len(transports') : transports'[i] \in Transport
    BY <1>3, ElementOfSeq
  <2>3. \A i \in 1..Len(transports') : transports'[i].offer \in Nat /\ transports'[i].remote \in Nat
    BY <2>2 DEF Transport
  <2> QED BY <1>3, <2>1, <2>3, TransportFacts DEF TransportsOK
<1>6. Keeps
  BY <1>3, TransportFacts DEF Keeps
<1> QED BY <1>2, <1>3, <1>5, <1>6

\* A transport that is there changes its state or its remote description.
LEMMA ChangeFacts ==
  ASSUME TransportsOK, NEW i \in 1..Len(transports), NEW s \in State,
         NEW r \in Nat, r <= Len(transports),
         transports[i].state \in Over => s \in Over,
         \/ transports' = [transports EXCEPT ![i].state = s] /\ r = transports[i].remote
         \/ transports' = [transports EXCEPT ![i].remote = r] /\ s = transports[i].state
  PROVE  /\ TransportsOK' /\ Keeps
         /\ Len(transports') = Len(transports)
         /\ transports'[i].state = s
         /\ \A j \in 1..Len(transports) : j # i => transports'[j] = transports[j]
<1>1. PICK tab \in Tab, offer \in Nat, remote \in Nat, state \in State :
        transports[i] = [tab |-> tab, offer |-> offer, remote |-> remote, state |-> state]
  BY TransportFacts DEF Transport
<1> DEFINE new == [tab |-> tab, offer |-> offer, remote |-> r, state |-> s]
<1>2. transports' = [transports EXCEPT ![i] = new]
  <2>1. CASE transports' = [transports EXCEPT ![i].state = s] /\ r = transports[i].remote
    <3>1. [transports[i] EXCEPT !.state = s] = new
      BY <1>1, <2>1
    <3> QED BY <2>1, <3>1
  <2>2. CASE transports' = [transports EXCEPT ![i].remote = r] /\ s = transports[i].state
    <3>1. [transports[i] EXCEPT !.remote = r] = new
      BY <1>1, <2>2
    <3> QED BY <2>2, <3>1
  <2> QED BY <2>1, <2>2
<1>3. new \in Transport /\ new.tab = tab /\ new.offer = offer /\ new.remote = r /\ new.state = s
  BY DEF Transport
<1> HIDE DEF new
<1>4. /\ transports' \in Seq(Transport) /\ Len(transports') = Len(transports)
      /\ transports'[i] = new
      /\ \A j \in 1..Len(transports) : j # i => transports'[j] = transports[j]
  BY <1>2, <1>3, TransportFacts, ExceptSeq DEF TransportsOK
<1>5. transports[i].tab = tab /\ transports[i].offer = offer
  BY <1>1
<1>6. TransportsOK' /\ Keeps
  <2>1. TransportsOK'
    BY <1>3, <1>4, <1>5, TransportFacts DEF TransportsOK
  <2>2. Keeps
    BY <1>3, <1>4, <1>5, TransportFacts DEF TransportsOK, Keeps
  <2> QED BY <2>1, <2>2
<1> QED BY <1>3, <1>4, <1>6

-----------------------------------------------------------------------------
(* Tabs, and what they remember.                                           *)

Kind == {"none", "invite", "answer"}

TabsOK ==
  /\ OpenTab \subseteq open /\ open \subseteq Tab /\ acks \subseteq open
  /\ link \in [Tab -> [kind : Kind, code : Nat]]
  /\ handoff \in [Tab -> {"none", "waiting", "handed", "own"}]
  /\ mail \subseteq [from : Tab, to : Tab, via : {"channel", "storage"}]
  /\ \A m \in mail : m.from \in open /\ m.to \in open \cap Browser(m.from) /\ m.from # m.to

RefsOK ==
  /\ \A t \in Tab : link[t].code <= Len(transports)
  /\ invite \in [Tab -> Nat] /\ shown \in [Tab -> Nat]
  /\ sessions \in [Tab -> Nat] /\ sessionsRef \in [Tab -> Nat]
  /\ \A t \in Tab : {invite[t], shown[t], sessions[t], sessionsRef[t]} \subseteq {0} \cup Own(t)
  /\ securing \in [Tab -> Seq(Nat)]
  /\ \A t \in Tab : securing[t] \in Seq(Own(t))

PairOK == TransportsOK /\ TabsOK /\ RefsOK

LEMMA OwnGrows ==
  ASSUME TransportsOK, Keeps, TransportsOK'
  PROVE  \A t \in Tab : Own(t) \subseteq Own(t)' /\ Seq(Own(t)) \subseteq Seq(Own(t)')
<1>1. \A t \in Tab : Own(t) \subseteq Own(t)'
  BY LenProperties DEF Own, Keeps, TransportsOK
<1> QED BY <1>1, SeqMonotonic

LEMMA OwnFacts ==
  ASSUME PairOK, NEW t \in Tab, NEW i \in Own(t)
  PROVE  i \in Nat \ {0} /\ i \in 1..Len(transports) /\ transports[i] \in Transport
         /\ transports[i].tab = t
BY TransportFacts DEF Own, PairOK

\* A step that leaves what tabs remember alone.
LEMMA RefsKept ==
  ASSUME PairOK, TransportsOK', Keeps, UNCHANGED <<link, invite, shown, chats>>,
         securing' \in [Tab -> Seq(Nat)],
         \A t \in Tab : securing'[t] \in Seq(Own(t)')
  PROVE  RefsOK'
<1>1. \A t \in Tab : Own(t) \subseteq Own(t)'
  BY OwnGrows DEF PairOK
<1>2. Len(transports) \in Nat /\ Len(transports') \in Nat /\ Len(transports) <= Len(transports')
  BY LenProperties DEF PairOK, TransportsOK, Keeps
<1>3. link \in [Tab -> [kind : Kind, code : Nat]]
  BY DEF PairOK, TabsOK
<1>4. \A t \in Tab : link[t].code <= Len(transports')
  BY <1>2, <1>3 DEF PairOK, RefsOK
<1> QED BY <1>1, <1>4 DEF PairOK, RefsOK, chats

\* handlePairingPayload.
LEMMA HandleFacts ==
  ASSUME PairOK, NEW t \in Tab, NEW kind \in Kind, NEW code \in Nat, code <= Len(transports),
         Handle(t, kind, code)
  PROVE  /\ TransportsOK' /\ Keeps
         /\ kind = "invite" =>
              /\ Len(transports') = Len(transports) + 1
              /\ transports'[Len(transports) + 1].tab = t
              /\ transports'[Len(transports) + 1].offer = code
         /\ kind # "invite" => Len(transports') = Len(transports)
         /\ kind # "answer" => securing' = securing
         /\ securing' \in [Tab -> Seq(Nat)]
         /\ \A u \in Tab : u # t => securing'[u] = securing[u]
         /\ \A u \in Tab : securing'[u] \in Seq(Own(u)')
<1>1. TransportsOK /\ RefsOK /\ Len(transports) \in Nat
  BY TransportFacts DEF PairOK
<1>2. Keeps /\ TransportsOK' =>
        \A u \in Tab : Own(u) \subseteq Own(u)' /\ securing[u] \in Seq(Own(u)')
  BY <1>1, OwnGrows DEF RefsOK
<1>3. CASE kind = "invite"
  <2>1. transports' = NewTransport(t, code) /\ securing' = securing
    BY <1>3 DEF Handle
  <2> QED BY <1>1, <1>2, <1>3, <2>1, NewFacts DEF RefsOK
<1>4. CASE kind = "answer" /\ Awaits(t)
  <2>1. invite[t] # 0 /\ invite[t] \in Own(t)
    BY <1>1, <1>4 DEF Awaits, RefsOK
  <2>2. invite[t] \in 1..Len(transports) /\ transports[invite[t]].state \in State
    BY <2>1, OwnFacts DEF Transport
  <2>3. /\ transports' = [transports EXCEPT ![invite[t]].remote = code]
        /\ securing' = [securing EXCEPT ![t] = Append(securing[t], invite[t])]
    BY <1>4 DEF Handle
  <2>4. TransportsOK' /\ Keeps /\ Len(transports') = Len(transports)
    BY <1>1, <2>2, <2>3, ChangeFacts
  <2>5. /\ Append(securing[t], invite[t]) \in Seq(Nat)
        /\ Append(securing[t], invite[t]) \in Seq(Own(t)')
    BY <1>1, <1>2, <2>1, <2>4, AppendProperties DEF RefsOK
  <2> QED BY <1>1, <1>2, <1>4, <2>3, <2>4, <2>5 DEF RefsOK
<1>5. CASE kind # "invite" /\ ~(kind = "answer" /\ Awaits(t))
  <2>1. transports' = transports /\ securing' = securing
    BY <1>5 DEF Handle
  <2>2. TransportsOK' /\ Keeps
    BY <1>1, <2>1 DEF TransportsOK, Keeps
  <2> QED BY <1>1, <1>2, <1>5, <2>1, <2>2 DEF RefsOK
<1> QED BY <1>3, <1>4, <1>5

-----------------------------------------------------------------------------
(* Where codes come from.                                                  *)

\* A tab that is not open has done nothing; one that was open from the start
\* has no link; the links of the browser that joins are invites.
LinksOK ==
  /\ \A t \in Tab \ open : handoff[t] = "none" /\ link[t] = NoLink /\ Own(t) = {}
  /\ \A t \in OpenTab : handoff[t] = "none"
  /\ \A t \in Joining :
       /\ link[t].kind # "answer"
       /\ link[t].kind = "invite" => link[t].code # 0
       /\ handoff[t] # "none" => link[t].kind = "invite"
  /\ \A m \in mail : handoff[m.from] # "none"

\* Whoever was acknowledged, or will be, was heard by another tab; a tab that
\* was opened by a link answers on its own account only after 700 ms.
HandOK ==
  /\ \A t \in Joining :
       t \in acks \/ handoff[t] = "handed" =>
         \E i \in 1..Len(transports) :
           transports[i].tab # t /\ transports[i].offer = link[t].code
  /\ \A t \in Joining \ OpenTab : \A i \in Own(t) :
       \/ handoff[t] = "own"
       \/ \E u \in Joining \ {t} : link[u].code = transports[i].offer
  /\ \A t \in Joining : \A i \in Own(t) : transports[i].offer # 0

\* The answer that a tab shows is the last one it began to secure.
LiveOK ==
  \A t \in Joining :
    /\ securing[t] # <<>> => securing[t][Len(securing[t])] = shown[t]
    /\ securing[t] = <<>> /\ shown[t] # 0 =>
         sessions[t] = shown[t] \/ transports[shown[t]].state \in Over

PairInv == PairOK /\ LinksOK /\ HandOK /\ LiveOK

LEMMA BrowserFacts ==
  ASSUME NEW t \in Tab, NEW u \in Browser(t)
  PROVE  u \in Tab /\ (t \in Joining <=> u \in Joining) /\ Browser(u) = Browser(t)
BY PairingAssumption DEF Tab, Browser

LEMMA CodesFacts ==
  ASSUME PairOK, NEW t \in Tab, NEW l \in Codes(t)
  PROVE  /\ l.kind \in {"invite", "answer"} /\ l.code \in Nat /\ l.code <= Len(transports)
         /\ l \in [kind : Kind, code : Nat]
         /\ l.code # 0 /\ (t \in Joining <=> l.kind = "invite")
<1>1. ASSUME NEW i \in Nat, i # 0, \E u \in Tab : i \in {invite[u], shown[u]}
      PROVE  i <= Len(transports)
  <2>1. PICK u \in Tab : i \in {invite[u], shown[u]}
    BY <1>1
  <2>2. i \in Own(u)
    BY <1>1, <2>1 DEF PairOK, RefsOK
  <2> QED BY <2>2, TransportFacts DEF Own, PairOK
<1>2. Inviting \subseteq Tab /\ Joining \subseteq Tab /\ Inviting \cap Joining = {}
      /\ t \in Inviting \cup Joining
  BY PairingAssumption DEF Tab
<1>3. \/ /\ t \in Joining
         /\ \E u \in Inviting : invite[u] # 0 /\ l = [kind |-> "invite", code |-> invite[u]]
      \/ /\ t \in Inviting
         /\ \E u \in Joining : shown[u] # 0 /\ l = [kind |-> "answer", code |-> shown[u]]
  BY DEF Codes
<1>4. \A u \in Tab : invite[u] \in Nat /\ shown[u] \in Nat
  BY DEF PairOK, RefsOK
<1>5. \/ /\ t \in Joining /\ t \notin Inviting
         /\ \E i \in Nat : i # 0 /\ i <= Len(transports) /\ l = [kind |-> "invite", code |-> i]
      \/ /\ t \in Inviting /\ t \notin Joining
         /\ \E i \in Nat : i # 0 /\ i <= Len(transports) /\ l = [kind |-> "answer", code |-> i]
  BY <1>1, <1>2, <1>3, <1>4
<1> QED BY <1>5 DEF Kind

\* Steps that create no transport and concern no tab.
LEMMA SameTabs ==
  ASSUME PairInv, UNCHANGED tabs, TransportsOK', Keeps, Len(transports') = Len(transports)
  PROVE  TabsOK' /\ LinksOK' /\ HandOK'
<1>1. \A t \in Tab : Own(t)' = Own(t)
  BY TransportFacts DEF PairInv, PairOK, Keeps, Own
<1>2. TabsOK'
  BY DEF PairInv, PairOK, TabsOK, tabs
<1>3. LinksOK'
  BY <1>1, PairingAssumption DEF PairInv, LinksOK, tabs
<1>4. /\ UNCHANGED <<acks, handoff, link>> /\ Joining \subseteq Tab
      /\ \A i \in 1..Len(transports) : /\ transports'[i].tab = transports[i].tab
                                       /\ transports'[i].offer = transports[i].offer
  BY DEF tabs, Keeps, Tab
<1>5. \A t \in Joining : Own(t)' = Own(t) /\ \A i \in Own(t) : i \in 1..Len(transports)
  BY <1>1, <1>4 DEF Own
<1>6. HandOK'
  BY <1>4, <1>5 DEF PairInv, HandOK
<1> QED BY <1>2, <1>3, <1>6

\* Steps that secure nothing new in a tab of the browser that joins.
LEMMA LiveKept ==
  ASSUME PairInv, Keeps, UNCHANGED shown,
         \A t \in Joining : /\ securing'[t] = securing[t]
                            /\ \/ sessions'[t] = sessions[t]
                               \/ transports'[sessions[t]].state \in Over
  PROVE  LiveOK'
<1>1. ASSUME NEW t \in Joining
      PROVE  /\ shown[t] # 0 => shown[t] \in 1..Len(transports)
             /\ shown[t] # 0 /\ transports[shown[t]].state \in Over =>
                  transports'[shown[t]].state \in Over
  <2>1. t \in Tab
    BY DEF Tab
  <2>2. shown[t] # 0 => shown[t] \in Own(t)
    BY <2>1 DEF PairInv, PairOK, RefsOK
  <2> QED BY <2>2 DEF Own, Keeps
<1> QED BY <1>1 DEF PairInv, LiveOK

\* A tab handles a code: its own, one that another tab handed over, or one that
\* was pasted into it.
LEMMA HandledKeeps ==
  ASSUME PairInv, NEW t \in open, NEW kind \in Kind, NEW code \in Nat, code <= Len(transports),
         Handle(t, kind, code), UNCHANGED <<open, link, invite, shown, chats>>,
         t \in Joining => kind # "answer" /\ (kind = "invite" => code # 0),
         t \in Joining \ OpenTab =>
           handoff'[t] = "own" \/ \E u \in Joining \ {t} : link[u].code = code,
         \A u \in Tab : u # t => handoff'[u] = handoff[u],
         handoff[t] = "own" => handoff'[t] = "own",
         \A u \in Joining : (u \in acks' \/ handoff'[u] = "handed") /\ u \notin acks
                              /\ handoff[u] # "handed" =>
           u # t /\ kind = "invite" /\ link[u].code = code
  PROVE  TransportsOK' /\ RefsOK' /\ HandOK' /\ LiveOK'
         /\ \A u \in Tab \ open : Own(u)' = {}
<1>1. /\ t \in Tab /\ Joining \subseteq Tab /\ Inviting \cap Joining = {}
      /\ PairOK /\ Len(transports) \in Nat
  BY TransportFacts, PairingAssumption DEF PairInv, PairOK, TabsOK, Tab
<1>2. /\ TransportsOK' /\ Keeps
      /\ kind = "invite" => /\ Len(transports') = Len(transports) + 1
                            /\ transports'[Len(transports) + 1].tab = t
                            /\ transports'[Len(transports) + 1].offer = code
      /\ kind # "invite" => Len(transports') = Len(transports)
      /\ kind # "answer" => securing' = securing
      /\ securing' \in [Tab -> Seq(Nat)]
      /\ \A u \in Tab : u # t => securing'[u] = securing[u]
      /\ \A u \in Tab : securing'[u] \in Seq(Own(u)')
  BY <1>1, HandleFacts
<1>3. RefsOK'
  BY <1>1, <1>2, RefsKept
<1>4. \A u \in Joining : securing'[u] = securing[u]
  BY <1>1, <1>2
<1>5. LiveOK'
  BY <1>2, <1>4, LiveKept DEF chats
<1>6. \A i \in 1..Len(transports') :
        \/ /\ i \in 1..Len(transports)
           /\ transports'[i].tab = transports[i].tab
           /\ transports'[i].offer = transports[i].offer
        \/ kind = "invite" /\ i = Len(transports) + 1
  BY <1>1, <1>2 DEF Keeps
<1>7. ASSUME NEW u \in Tab, NEW i \in Own(u)'
      PROVE  \/ i \in Own(u) /\ transports'[i].offer = transports[i].offer
             \/ u = t /\ kind = "invite" /\ transports'[i].offer = code
  BY <1>2, <1>6, <1>7 DEF Own
<1>8. \A u \in Tab \ open : Own(u)' = {}
  BY <1>7 DEF PairInv, LinksOK
<1>9. HandOK'
  <2>1. ASSUME NEW u \in Joining, u \in acks' \/ handoff'[u] = "handed"
        PROVE  \E i \in 1..Len(transports') :
                 transports'[i].tab # u /\ transports'[i].offer = link'[u].code
    <3>1. CASE u \in acks \/ handoff[u] = "handed"
      <4>1. PICK i \in 1..Len(transports) :
              transports[i].tab # u /\ transports[i].offer = link[u].code
        BY <3>1 DEF PairInv, HandOK
      <4>2. i \in 1..Len(transports')
        BY <1>1, <1>2, LenProperties DEF TransportsOK, Keeps
      <4> QED BY <1>2, <4>1, <4>2 DEF Keeps
    <3>2. CASE u \notin acks /\ handoff[u] # "handed"
      <4>1. u # t /\ kind = "invite" /\ link[u].code = code
        BY <2>1, <3>2
      <4>2. Len(transports) + 1 \in 1..Len(transports')
        BY <1>1, <1>2, <4>1
      <4> QED BY <1>2, <4>1, <4>2
    <3> QED BY <3>1, <3>2
  <2>2. ASSUME NEW u \in Joining \ OpenTab, NEW i \in Own(u)'
        PROVE  \/ handoff'[u] = "own"
               \/ \E v \in Joining \ {u} : link'[v].code = transports'[i].offer
    <3>1. CASE i \in Own(u) /\ transports'[i].offer = transports[i].offer
      <4>1. handoff[u] = "own" \/ \E v \in Joining \ {u} : link[v].code = transports[i].offer
        BY <3>1 DEF PairInv, HandOK
      <4>2. handoff[u] = "own" => handoff'[u] = "own"
        BY <1>1
      <4> QED BY <3>1, <4>1, <4>2
    <3>2. CASE u = t /\ kind = "invite" /\ transports'[i].offer = code
      BY <3>2
    <3> QED BY <1>1, <1>7, <3>1, <3>2
  <2>3. ASSUME NEW u \in Joining, NEW i \in Own(u)'
        PROVE  transports'[i].offer # 0
    BY <1>1, <1>7 DEF PairInv, HandOK
  <2> QED BY <2>1, <2>2, <2>3 DEF HandOK
<1> QED BY <1>2, <1>3, <1>5, <1>8, <1>9

-----------------------------------------------------------------------------
(* Every step.                                                             *)

LEMMA OpenLinkKeeps ==
  ASSUME PairInv, NEW t \in Tab, NEW l \in Codes(t), OpenLink(t, l)
  PROVE  PairInv'
<1>1. /\ t \notin open /\ t \notin OpenTab /\ open' = open \cup {t}
      /\ link' = [link EXCEPT ![t] = l] /\ handoff' = [handoff EXCEPT ![t] = "waiting"]
      /\ mail' = mail \cup [from : {t}, to : open \cap Browser(t), via : {"channel", "storage"}]
      /\ UNCHANGED <<acks, transports, invite, shown, securing, chats>>
  BY DEF OpenLink, PairInv, PairOK, TabsOK
<1>2. /\ l.kind \in {"invite", "answer"} /\ l.code \in Nat /\ l.code <= Len(transports)
      /\ l \in [kind : Kind, code : Nat]
      /\ l.code # 0 /\ (t \in Joining <=> l.kind = "invite")
  BY CodesFacts DEF PairInv
<1>3. /\ link'[t] = l /\ handoff'[t] = "waiting"
      /\ \A u \in Tab : u # t => link'[u] = link[u] /\ handoff'[u] = handoff[u]
      /\ link' \in [Tab -> [kind : Kind, code : Nat]]
      /\ handoff' \in [Tab -> {"none", "waiting", "handed", "own"}]
  BY <1>1, <1>2 DEF PairInv, PairOK, TabsOK
<1>4. \A u \in Tab : Own(u)' = Own(u)
  BY <1>1 DEF Own
<1>5. TransportsOK'
  BY <1>1 DEF PairInv, PairOK, TransportsOK
<1>6. TabsOK'
  <2>1. \A m \in mail' : m \in mail \/ (m.from = t /\ m.to \in open \cap Browser(t)
                                        /\ m \in [from : Tab, to : Tab, via : {"channel", "storage"}])
    BY <1>1 DEF PairInv, PairOK, TabsOK
  <2>2. /\ mail' \subseteq [from : Tab, to : Tab, via : {"channel", "storage"}]
        /\ \A m \in mail' : /\ m.from \in open' /\ m.to \in open' \cap Browser(m.from)
                            /\ m.from # m.to
    BY <1>1, <2>1 DEF PairInv, PairOK, TabsOK
  <2> QED BY <1>1, <1>3, <2>2 DEF PairInv, PairOK, TabsOK
<1>7. RefsOK'
  <2>1. \A u \in Tab : link'[u].code <= Len(transports')
    BY <1>1, <1>2, <1>3 DEF PairInv, PairOK, RefsOK
  <2> QED BY <1>1, <1>4, <2>1 DEF PairInv, PairOK, RefsOK, chats
<1>8. LinksOK'
  <2>1. \A u \in Tab \ open' : handoff'[u] = "none" /\ link'[u] = NoLink /\ Own(u)' = {}
    BY <1>1, <1>3, <1>4 DEF PairInv, LinksOK
  <2>2. \A u \in OpenTab : handoff'[u] = "none"
    BY <1>1, <1>3, PairingAssumption DEF PairInv, LinksOK
  <2>3. \A u \in Joining : /\ link'[u].kind # "answer"
                           /\ link'[u].kind = "invite" => link'[u].code # 0
                           /\ handoff'[u] # "none" => link'[u].kind = "invite"
    BY <1>1, <1>2, <1>3 DEF PairInv, LinksOK, Tab
  <2>4. \A m \in mail' : handoff'[m.from] # "none"
    BY <1>1, <1>3 DEF PairInv, LinksOK, PairOK, TabsOK
  <2> QED BY <2>1, <2>2, <2>3, <2>4 DEF LinksOK
<1>9. HandOK'
  <2>1. link[t] = NoLink /\ link[t].code = 0 /\ t \notin acks /\ Own(t) = {}
    BY <1>1 DEF PairInv, LinksOK, NoLink, PairOK, TabsOK
  <2>2. ASSUME NEW u \in Joining, u \in acks' \/ handoff'[u] = "handed"
        PROVE  \E i \in 1..Len(transports') :
                 transports'[i].tab # u /\ transports'[i].offer = link'[u].code
    BY <1>1, <1>3, <2>1, <2>2 DEF PairInv, HandOK, Tab
  <2>3. ASSUME NEW u \in Joining \ OpenTab, NEW i \in Own(u)'
        PROVE  \/ handoff'[u] = "own"
               \/ \E v \in Joining \ {u} : link'[v].code = transports'[i].offer
    <3>1. u # t /\ i \in Own(u) /\ u \in Tab /\ transports' = transports
      BY <1>1, <1>4, <2>1, <2>3 DEF Tab
    <3>2. handoff'[u] = handoff[u] /\ transports[i].offer # 0
      BY <1>3, <3>1 DEF PairInv, HandOK
    <3>3. \A v \in Joining : link[v].code # 0 => link'[v] = link[v]
      BY <1>3, <2>1 DEF Tab
    <3>4. handoff[u] = "own" \/ \E v \in Joining \ {u} : link[v].code = transports[i].offer
      BY <3>1 DEF PairInv, HandOK
    <3> QED BY <3>1, <3>2, <3>3, <3>4
  <2>4. \A u \in Joining : \A i \in Own(u)' : transports'[i].offer # 0
    BY <1>1, <1>4 DEF PairInv, HandOK, Tab
  <2> QED BY <2>2, <2>3, <2>4 DEF HandOK
<1>10. LiveOK'
  BY <1>1 DEF PairInv, LiveOK, chats
<1> QED BY <1>5, <1>6, <1>7, <1>8, <1>9, <1>10 DEF PairInv, PairOK

LEMMA ReceiveKeeps ==
  ASSUME PairInv, NEW m \in mail, Receive(m)
  PROVE  PairInv'
<1> DEFINE t == m.to
           f == m.from
<1>1. /\ t \in open /\ f \in open /\ t \in Tab /\ f \in Tab /\ t # f /\ handoff[f] # "none"
      /\ (f \in Joining <=> t \in Joining) /\ f \notin OpenTab
      /\ link[f].kind \in Kind /\ link[f].code \in Nat /\ link[f].code <= Len(transports)
  <2>1. t \in open /\ f \in open /\ t \in Tab /\ f \in Tab /\ t # f /\ t \in Browser(f)
    BY DEF PairInv, PairOK, TabsOK
  <2> QED BY <2>1, BrowserFacts DEF PairInv, PairOK, TabsOK, RefsOK, LinksOK
<1>2. /\ mail' = mail \ {m} /\ acks' = acks \cup {f}
      /\ Handle(t, link[f].kind, link[f].code)
      /\ UNCHANGED <<open, link, handoff, invite, shown, chats>>
  BY DEF Receive
<1>3. f \in Joining => link[f].kind = "invite" /\ link[f].code # 0
  BY <1>1 DEF PairInv, LinksOK
<1> HIDE DEF t, f
<1>4. TransportsOK' /\ RefsOK' /\ HandOK' /\ LiveOK' /\ \A u \in Tab \ open : Own(u)' = {}
  BY <1>1, <1>2, <1>3, HandledKeeps
<1>5. TabsOK'
  BY <1>1, <1>2 DEF PairInv, PairOK, TabsOK
<1>6. LinksOK'
  BY <1>2, <1>4 DEF PairInv, LinksOK
<1> QED BY <1>4, <1>5, <1>6 DEF PairInv, PairOK

LEMMA TimedOutKeeps ==
  ASSUME PairInv, NEW t \in Tab, TimedOut(t)
  PROVE  PairInv'
<1>1. /\ handoff[t] = "waiting" /\ handoff' = [handoff EXCEPT ![t] = "own"]
      /\ Handle(t, link[t].kind, link[t].code)
      /\ UNCHANGED <<open, link, mail, acks, invite, shown, chats>>
  BY DEF TimedOut
<1>2. /\ t \in open /\ t \notin OpenTab
      /\ link[t].kind \in Kind /\ link[t].code \in Nat /\ link[t].code <= Len(transports)
      /\ t \in Joining => link[t].kind = "invite" /\ link[t].code # 0
  BY <1>1 DEF PairInv, PairOK, TabsOK, RefsOK, LinksOK
<1>3. /\ handoff'[t] = "own" /\ \A u \in Tab : u # t => handoff'[u] = handoff[u]
      /\ handoff' \in [Tab -> {"none", "waiting", "handed", "own"}]
  BY <1>1 DEF PairInv, PairOK, TabsOK
<1>4. \A u \in Joining : handoff'[u] = "handed" => handoff[u] = "handed"
  BY <1>3 DEF Tab
<1>5. TransportsOK' /\ RefsOK' /\ HandOK' /\ LiveOK' /\ \A u \in Tab \ open : Own(u)' = {}
  BY <1>1, <1>2, <1>3, <1>4, HandledKeeps
<1>6. TabsOK'
  BY <1>1, <1>3 DEF PairInv, PairOK, TabsOK
<1>7. LinksOK'
  <2>1. \A u \in OpenTab : u \in Tab /\ u # t
    BY <1>2, PairingAssumption
  <2>2. \A m \in mail : m.from \in Tab
    BY DEF PairInv, PairOK, TabsOK
  <2>3. \A u \in Tab : handoff'[u] # "none" <=> handoff[u] # "none"
    BY <1>1, <1>3
  <2> QED BY <1>1, <1>2, <1>3, <1>5, <2>1, <2>2, <2>3 DEF PairInv, LinksOK, Tab
<1> QED BY <1>5, <1>6, <1>7 DEF PairInv, PairOK

LEMMA PasteKeeps ==
  ASSUME PairInv, NEW t \in Tab, NEW l \in Codes(t), Paste(t, l)
  PROVE  PairInv'
<1>1. t \in OpenTab /\ Handle(t, l.kind, l.code) /\ UNCHANGED <<tabs, invite, shown, chats>>
  BY DEF Paste
<1>2. /\ l.kind \in Kind /\ l.code \in Nat /\ l.code <= Len(transports)
      /\ l.code # 0 /\ (t \in Joining => l.kind # "answer")
  BY CodesFacts DEF PairInv, Kind
<1>3. t \in open
  BY <1>1 DEF PairInv, PairOK, TabsOK
<1>4. UNCHANGED <<open, link, handoff, mail, acks>>
  BY <1>1 DEF tabs
<1>5. TransportsOK' /\ RefsOK' /\ HandOK' /\ LiveOK' /\ \A u \in Tab \ open : Own(u)' = {}
  BY <1>1, <1>2, <1>3, <1>4, HandledKeeps
<1>6. TabsOK' /\ LinksOK'
  BY <1>4, <1>5 DEF PairInv, PairOK, TabsOK, LinksOK
<1> QED BY <1>5, <1>6 DEF PairInv, PairOK

LEMMA AcknowledgedKeeps ==
  ASSUME PairInv, NEW t \in Tab, Acknowledged(t)
  PROVE  PairInv'
<1>1. /\ t \in acks /\ acks' = acks \ {t}
      /\ handoff' = [handoff EXCEPT ![t] = IF handoff[t] = "waiting" THEN "handed" ELSE handoff[t]]
      /\ UNCHANGED <<open, link, mail, transports, invite, shown, securing, chats>>
  BY DEF Acknowledged
<1>2. /\ handoff'[t] = (IF handoff[t] = "waiting" THEN "handed" ELSE handoff[t])
      /\ \A u \in Tab : u # t => handoff'[u] = handoff[u]
      /\ handoff' \in [Tab -> {"none", "waiting", "handed", "own"}]
  BY <1>1 DEF PairInv, PairOK, TabsOK
<1>3. \A u \in Tab : /\ Own(u)' = Own(u)
                     /\ handoff'[u] = "none" <=> handoff[u] = "none"
                     /\ handoff'[u] = "own" <=> handoff[u] = "own"
                     /\ u \in acks' \/ handoff'[u] = "handed" => u \in acks \/ handoff[u] = "handed"
  BY <1>1, <1>2 DEF Own
<1>4. TransportsOK' /\ RefsOK' /\ LiveOK'
  BY <1>1, <1>3 DEF PairInv, PairOK, TransportsOK, RefsOK, LiveOK, chats
<1>5. TabsOK'
  BY <1>1, <1>2 DEF PairInv, PairOK, TabsOK
<1>6. LinksOK'
  BY <1>1, <1>3, PairingAssumption DEF PairInv, PairOK, TabsOK, LinksOK, Tab
<1>7. HandOK'
  BY <1>1, <1>3 DEF PairInv, HandOK, Tab
<1> QED BY <1>4, <1>5, <1>6, <1>7 DEF PairInv, PairOK

LEMMA CreateInviteKeeps ==
  ASSUME PairInv, NEW t \in Tab, CreateInvite(t)
  PROVE  PairInv'
<1>1. /\ t \in open /\ t \notin Joining /\ transports = <<>> /\ Len(transports) = 0
      /\ transports' = NewTransport(t, 0)
      /\ UNCHANGED <<tabs, invite, shown, securing, chats>>
  BY PairingAssumption DEF CreateInvite
<1>2. /\ TransportsOK' /\ Keeps /\ Len(transports') = 1
      /\ transports'[1].tab = t
  BY <1>1, NewFacts, TransportFacts DEF PairInv, PairOK
<1>3. \A u \in Tab : u # t => Own(u)' = {} /\ Own(u) = {}
  BY <1>1, <1>2 DEF Own
<1>4. RefsOK'
  <2>1. \A u \in Tab : securing'[u] \in Seq(Own(u)')
    BY <1>1, <1>2, OwnGrows DEF PairInv, PairOK, RefsOK
  <2>2. UNCHANGED link /\ securing' \in [Tab -> Seq(Nat)]
    BY <1>1 DEF tabs, PairInv, PairOK, RefsOK
  <2> QED BY <1>1, <1>2, <2>1, <2>2, RefsKept DEF PairInv
<1>5. TabsOK'
  BY <1>1 DEF PairInv, PairOK, TabsOK, tabs
<1>6. UNCHANGED <<open, link, handoff, mail, acks>>
  BY <1>1 DEF tabs
<1>7. LinksOK'
  BY <1>1, <1>3, <1>6 DEF PairInv, LinksOK
<1>8. HandOK'
  <2>1. \A u \in Joining : u \notin acks /\ handoff[u] # "handed"
    BY <1>1 DEF PairInv, HandOK
  <2>2. \A u \in Joining : Own(u)' = {}
    BY <1>1, <1>3 DEF Tab
  <2> QED BY <1>6, <2>1, <2>2 DEF HandOK
<1>9. LiveOK'
  BY <1>1, <1>2, LiveKept DEF chats
<1> QED BY <1>2, <1>4, <1>5, <1>7, <1>8, <1>9 DEF PairInv, PairOK

LEMMA GatheredKeeps ==
  ASSUME PairInv, NEW i \in DOMAIN transports, Gathered(i)
  PROVE  PairInv'
<1> DEFINE t == transports[i].tab
<1>1. /\ i \in 1..Len(transports) /\ i \in Nat \ {0} /\ t \in Tab /\ i \in Own(t)
      /\ transports[i].remote \in Nat /\ transports[i].remote <= Len(transports)
  BY TransportFacts DEF PairInv, PairOK, TransportsOK, Transport, Own
<1>2. /\ transports[i].state = "gathering"
      /\ transports' = [transports EXCEPT ![i].state = "connecting"]
      /\ IF transports[i].offer = 0
           THEN /\ invite' = [invite EXCEPT ![t] = i]
                /\ UNCHANGED <<shown, securing>>
           ELSE /\ shown' = [shown EXCEPT ![t] = i]
                /\ securing' = [securing EXCEPT ![t] = Append(securing[t], i)]
                /\ UNCHANGED invite
      /\ UNCHANGED <<tabs, chats>>
  BY DEF Gathered
<1> HIDE DEF t
<1>3. TransportsOK' /\ Keeps /\ Len(transports') = Len(transports)
  BY <1>1, <1>2, ChangeFacts DEF PairInv, PairOK, State, Over
<1>4. TabsOK' /\ LinksOK' /\ HandOK'
  BY <1>2, <1>3, SameTabs
<1>5. /\ \A u \in Tab : Own(u)' = Own(u)
      /\ \A u \in Tab : securing[u] \in Seq(Nat) /\ securing[u] \in Seq(Own(u))
  BY <1>3, TransportFacts DEF PairInv, PairOK, RefsOK, Keeps, Own
<1>6. Append(securing[t], i) \in Seq(Nat) /\ Append(securing[t], i) \in Seq(Own(t))
  BY <1>1, <1>5, AppendProperties
<1>7. RefsOK'
  <2>1. \A u \in Tab : link'[u].code <= Len(transports')
    BY <1>2, <1>3 DEF PairInv, PairOK, RefsOK, tabs
  <2>2. /\ invite' \in [Tab -> Nat] /\ shown' \in [Tab -> Nat]
        /\ \A u \in Tab : {invite'[u], shown'[u]} \subseteq {0} \cup Own(u)
    <3>1. /\ invite \in [Tab -> Nat] /\ shown \in [Tab -> Nat]
          /\ \A u \in Tab : invite[u] \in {0} \cup Own(u) /\ shown[u] \in {0} \cup Own(u)
      BY DEF PairInv, PairOK, RefsOK
    <3>2. /\ invite' = invite \/ invite' = [invite EXCEPT ![t] = i]
          /\ shown' = shown \/ shown' = [shown EXCEPT ![t] = i]
      BY <1>2
    <3>3. invite' \in [Tab -> Nat] /\ \A u \in Tab : invite'[u] \in {0} \cup Own(u)
      BY <1>1, <3>1, <3>2
    <3>4. shown' \in [Tab -> Nat] /\ \A u \in Tab : shown'[u] \in {0} \cup Own(u)
      BY <1>1, <3>1, <3>2
    <3> QED BY <3>3, <3>4
  <2>3. /\ securing' \in [Tab -> Seq(Nat)]
        /\ \A u \in Tab : securing'[u] \in Seq(Own(u))
    BY <1>1, <1>2, <1>5, <1>6 DEF PairInv, PairOK, RefsOK
  <2> QED BY <1>2, <1>5, <2>1, <2>2, <2>3 DEF PairInv, PairOK, RefsOK, chats
<1>8. LiveOK'
  <2>1. CASE t \in Joining
    <3>1. transports[i].offer # 0
      BY <1>1, <2>1 DEF PairInv, HandOK
    <3>2. /\ shown' = [shown EXCEPT ![t] = i]
          /\ securing' = [securing EXCEPT ![t] = Append(securing[t], i)]
      BY <1>2, <3>1
    <3>3. /\ Append(securing[t], i) # <<>>
          /\ Append(securing[t], i)[Len(Append(securing[t], i))] = i
      BY <1>1, <1>5, AppendProperties, LenProperties, EmptySeq
    <3>4. ASSUME NEW u \in Joining, u # t
          PROVE  /\ shown'[u] = shown[u] /\ securing'[u] = securing[u]
                 /\ sessions'[u] = sessions[u]
                 /\ shown[u] # 0 /\ transports[shown[u]].state \in Over =>
                      transports'[shown[u]].state \in Over
      <4>1. u \in Tab
        BY DEF Tab
      <4>2. shown[u] # 0 => shown[u] \in 1..Len(transports)
        BY <4>1 DEF PairInv, PairOK, RefsOK, Own
      <4> QED BY <1>2, <1>3, <3>2, <3>4, <4>1, <4>2 DEF PairInv, PairOK, RefsOK, Keeps, chats
    <3>5. shown'[t] = i /\ securing'[t] = Append(securing[t], i)
      BY <1>1, <3>2 DEF PairInv, PairOK, RefsOK
    <3> QED BY <3>3, <3>4, <3>5 DEF PairInv, LiveOK
  <2>2. CASE t \notin Joining
    <3>1. \A u \in Joining : /\ securing'[u] = securing[u] /\ shown'[u] = shown[u]
                             /\ sessions'[u] = sessions[u]
                             /\ shown[u] # 0 => shown[u] \in 1..Len(transports)
      BY <1>2, <2>2 DEF PairInv, PairOK, RefsOK, chats, Tab, Own
    <3>2. \A u \in Joining : shown[u] # 0 /\ transports[shown[u]].state \in Over =>
                               transports'[shown[u]].state \in Over
      BY <1>3, <3>1 DEF Keeps
    <3> QED BY <3>1, <3>2 DEF PairInv, LiveOK
  <2> QED BY <2>1, <2>2
<1> QED BY <1>3, <1>4, <1>7, <1>8 DEF PairInv, PairOK

LEMMA AttachKeeps ==
  ASSUME PairInv, NEW t \in Tab, Attach(t)
  PROVE  PairInv'
<1> DEFINE i == Head(securing[t])
           old == sessionsRef[t]
<1>1. /\ securing[t] # <<>> /\ securing[t] \in Seq(Own(t)) /\ securing[t] \in Seq(Nat)
      /\ old \in {0} \cup Own(t)
  BY DEF Attach, PairInv, PairOK, RefsOK
<1>2. /\ i \in Own(t) /\ i \in 1..Len(transports) /\ i # 0 /\ i \in Nat
      /\ Tail(securing[t]) \in Seq(Own(t)) /\ Tail(securing[t]) \in Seq(Nat)
  BY <1>1, HeadTailProperties DEF Own
<1>3. /\ securing' = [securing EXCEPT ![t] = Tail(securing[t])]
      /\ transports' = IF old \in {0, i} THEN transports
                       ELSE [transports EXCEPT ![old].state = "closed"]
      /\ sessions' = [sessions EXCEPT ![t] =
                        IF transports[i].state \in Over /\ old \in {0, i} THEN 0 ELSE i]
      /\ UNCHANGED <<tabs, invite, shown, sessionsRef>>
  BY DEF Attach
<1> HIDE DEF i, old
<1>4. TransportsOK' /\ Keeps /\ Len(transports') = Len(transports)
  <2>1. CASE old \in {0, i}
    BY <1>3, <2>1 DEF PairInv, PairOK, TransportsOK, Keeps
  <2>2. CASE old \notin {0, i}
    <3>1. /\ old \in 1..Len(transports) /\ transports[old].remote \in Nat
          /\ transports[old].remote <= Len(transports)
      BY <1>1, <2>2, TransportFacts DEF Own, PairInv, PairOK, TransportsOK, Transport
    <3> QED BY <1>3, <2>2, <3>1, ChangeFacts DEF PairInv, PairOK, State, Over
  <2> QED BY <2>1, <2>2
<1>5. TabsOK' /\ LinksOK' /\ HandOK'
  BY <1>3, <1>4, SameTabs
<1>6. \A u \in Tab : Own(u)' = Own(u)
  BY <1>4, TransportFacts DEF PairInv, PairOK, Keeps, Own
<1>7. /\ sessions' \in [Tab -> Nat] /\ sessions'[t] \in {0, i}
      /\ \A u \in Tab : u # t => sessions'[u] = sessions[u] /\ securing'[u] = securing[u]
      /\ securing' \in [Tab -> Seq(Nat)] /\ securing'[t] = Tail(securing[t])
  BY <1>2, <1>3 DEF PairInv, PairOK, RefsOK
<1>8. RefsOK'
  <2>1. \A u \in Tab : link'[u].code <= Len(transports')
    BY <1>3, <1>4 DEF PairInv, PairOK, RefsOK, tabs
  <2>2. \A u \in Tab : sessions'[u] \in {0} \cup Own(u) /\ securing'[u] \in Seq(Own(u))
    BY <1>2, <1>7 DEF PairInv, PairOK, RefsOK
  <2> QED BY <1>3, <1>6, <1>7, <2>1, <2>2 DEF PairInv, PairOK, RefsOK
<1>9. LiveOK'
  <2> SUFFICES ASSUME NEW u \in Joining
               PROVE  /\ securing'[u] # <<>> => securing'[u][Len(securing'[u])] = shown'[u]
                      /\ securing'[u] = <<>> /\ shown'[u] # 0 =>
                           sessions'[u] = shown'[u] \/ transports'[shown'[u]].state \in Over
    BY DEF LiveOK
  <2>1. /\ u \in Tab /\ shown'[u] = shown[u]
        /\ shown[u] # 0 => shown[u] \in 1..Len(transports)
    BY <1>3 DEF PairInv, PairOK, RefsOK, Tab, Own
  <2>2. shown[u] # 0 /\ transports[shown[u]].state \in Over => transports'[shown[u]].state \in Over
    BY <1>4, <2>1 DEF Keeps
  <2>3. CASE u # t
    BY <1>7, <2>1, <2>2, <2>3 DEF PairInv, LiveOK
  <2>4. CASE u = t
    <3>1. securing[u][Len(securing[u])] = shown[u] /\ securing'[u] = Tail(securing[u])
      BY <1>1, <1>7, <2>4 DEF PairInv, LiveOK
    <3>2. /\ Len(securing[u]) \in Nat \ {0} /\ Len(Tail(securing[u])) = Len(securing[u]) - 1
          /\ \A j \in 1..(Len(securing[u]) - 1) : Tail(securing[u])[j] = securing[u][j + 1]
          /\ Tail(securing[u]) = <<>> <=> Len(Tail(securing[u])) = 0
          /\ Head(securing[u]) = securing[u][1]
      <4>1. /\ securing[u] \in Seq(Nat) /\ securing[u] # <<>>
            /\ Tail(securing[u]) \in Seq(Nat)
        BY <1>1, <1>2, <2>4
      <4>2. /\ Len(securing[u]) \in Nat /\ Len(securing[u]) # 0
            /\ Tail(securing[u]) = <<>> <=> Len(Tail(securing[u])) = 0
        BY <4>1, LenProperties, EmptySeq
      <4>3. /\ Len(Tail(securing[u])) = Len(securing[u]) - 1
            /\ \A j \in 1..Len(Tail(securing[u])) : Tail(securing[u])[j] = securing[u][j + 1]
        BY <4>1, HeadTailProperties
      <4>4. Head(securing[u]) = securing[u][1]
        BY <4>1
      <4> QED BY <4>2, <4>3, <4>4
    <3>3. CASE Tail(securing[u]) = <<>>
      <4>1. Len(securing[u]) = 1 /\ i = shown[u]
        BY <2>4, <3>1, <3>2, <3>3 DEF i
      <4>2. sessions'[u] = i \/ transports[i].state \in Over
        BY <1>3, <2>4 DEF PairInv, PairOK, RefsOK
      <4> QED BY <2>1, <2>2, <3>1, <3>3, <4>1, <4>2
    <3>4. CASE Tail(securing[u]) # <<>>
      <4>1. Len(securing[u]) - 1 \in 1..(Len(securing[u]) - 1)
        BY <3>2, <3>4
      <4>2. Tail(securing[u])[Len(Tail(securing[u]))] = securing[u][Len(securing[u])]
        BY <3>2, <4>1
      <4> QED BY <2>1, <3>1, <3>4, <4>2
    <3> QED BY <3>3, <3>4
  <2> QED BY <2>3, <2>4
<1> QED BY <1>4, <1>5, <1>8, <1>9 DEF PairInv, PairOK

LEMMA RenderKeeps ==
  ASSUME PairInv, NEW t \in Tab, Render(t)
  PROVE  PairInv'
<1>1. /\ sessionsRef' = [sessionsRef EXCEPT ![t] = sessions[t]]
      /\ UNCHANGED <<tabs, transports, invite, shown, securing, sessions>>
  BY DEF Render
<1>2. TransportsOK' /\ Keeps /\ Len(transports') = Len(transports)
  BY <1>1 DEF PairInv, PairOK, TransportsOK, Keeps
<1>3. TabsOK' /\ LinksOK' /\ HandOK'
  BY <1>1, <1>2, SameTabs
<1>4. RefsOK'
  BY <1>1 DEF PairInv, PairOK, RefsOK, tabs, Own
<1>5. LiveOK'
  BY <1>1, <1>2, LiveKept
<1> QED BY <1>2, <1>3, <1>4, <1>5 DEF PairInv, PairOK

LEMMA StateChangeKeeps ==
  ASSUME PairInv, NEW i \in DOMAIN transports, NEW s \in State, transports[i].state \notin Over,
         StateChange(i, s)
  PROVE  PairInv'
<1> DEFINE t == transports[i].tab
<1>1. /\ i \in 1..Len(transports) /\ i \in Nat \ {0} /\ t \in Tab
      /\ transports[i].remote \in Nat /\ transports[i].remote <= Len(transports)
  BY TransportFacts DEF PairInv, PairOK, TransportsOK, Transport
<1>2. /\ transports' = [transports EXCEPT ![i].state = s]
      /\ \/ sessions' = sessions
         \/ sessions[t] = i /\ s \in Over /\ sessions' = [sessions EXCEPT ![t] = 0]
      /\ UNCHANGED <<tabs, invite, shown, securing, sessionsRef>>
  BY DEF StateChange
<1> HIDE DEF t
<1>3. /\ TransportsOK' /\ Keeps /\ Len(transports') = Len(transports)
      /\ transports'[i].state = s
  BY <1>1, <1>2, ChangeFacts DEF PairInv, PairOK
<1>4. TabsOK' /\ LinksOK' /\ HandOK'
  BY <1>2, <1>3, SameTabs
<1>5. \A u \in Tab : Own(u)' = Own(u)
  BY <1>3, TransportFacts DEF PairInv, PairOK, Keeps, Own
<1>6. RefsOK'
  <2>1. \A u \in Tab : link'[u].code <= Len(transports')
    BY <1>2, <1>3 DEF PairInv, PairOK, RefsOK, tabs
  <2>2. sessions' \in [Tab -> Nat] /\ \A u \in Tab : sessions'[u] \in {0, sessions[u]}
    BY <1>1, <1>2 DEF PairInv, PairOK, RefsOK
  <2> QED BY <1>2, <1>5, <2>1, <2>2 DEF PairInv, PairOK, RefsOK
<1>7. LiveOK'
  <2>1. \A u \in Joining : \/ sessions'[u] = sessions[u]
                           \/ transports'[sessions[u]].state \in Over
    BY <1>1, <1>2, <1>3 DEF PairInv, PairOK, RefsOK, Tab
  <2> QED BY <1>2, <1>3, <2>1, LiveKept
<1> QED BY <1>3, <1>4, <1>6, <1>7 DEF PairInv, PairOK

LEMMA PairInvInit == PairingInit => PairInv
<1> SUFFICES ASSUME PairingInit PROVE PairInv
  OBVIOUS
<1>1. /\ Len(transports) = 0 /\ transports \in Seq(Transport)
      /\ \A S : <<>> \in Seq(S)
  BY DEF PairingInit
<1>2. TransportsOK /\ \A t \in Tab : Own(t) = {}
  BY <1>1 DEF TransportsOK, Own
<1>3. NoLink \in [kind : Kind, code : Nat] /\ NoLink.kind = "none" /\ NoLink.code = 0
  BY DEF NoLink, Kind
<1>4. TabsOK /\ LinksOK
  BY <1>2, <1>3, PairingAssumption DEF PairingInit, TabsOK, LinksOK, Tab
<1>5. RefsOK
  BY <1>1, <1>3 DEF PairingInit, RefsOK
<1>6. HandOK /\ LiveOK
  BY <1>2, <1>3 DEF PairingInit, HandOK, LiveOK, Tab
<1> QED BY <1>2, <1>4, <1>5, <1>6 DEF PairInv, PairOK

LEMMA PairInvNext == PairInv /\ [PairingNext]_pvars => PairInv'
<1> SUFFICES ASSUME PairInv, [PairingNext]_pvars PROVE PairInv'
  OBVIOUS
<1>1. CASE Handlers
  <2>1. ASSUME NEW i \in DOMAIN transports, Opens(i) \/ Fails(i) \/ Closes(i)
        PROVE  PairInv'
    BY <2>1, StateChangeKeeps DEF Opens, Fails, Closes, State, Over
  <2>2. ASSUME NEW t \in Tab, Attach(t) \/ Render(t) \/ Acknowledged(t) \/ TimedOut(t)
        PROVE  PairInv'
    BY <2>2, AttachKeeps, RenderKeeps, AcknowledgedKeeps, TimedOutKeeps
  <2> QED BY <1>1, <2>1, <2>2, ReceiveKeeps, GatheredKeeps DEF Handlers
<1>2. CASE Users
  BY <1>2, CreateInviteKeeps, OpenLinkKeeps, PasteKeeps DEF Users
<1>3. ASSUME NEW i \in DOMAIN transports, GivesUp(i)
      PROVE  PairInv'
  BY <1>3, StateChangeKeeps DEF GivesUp, State, Over
<1>4. CASE UNCHANGED pvars
  <2>1. UNCHANGED <<tabs, transports, invite, shown, securing, chats>>
    BY <1>4 DEF pvars
  <2>2. TransportsOK' /\ TabsOK'
    BY <2>1 DEF tabs, PairInv, PairOK, TransportsOK, TabsOK
  <2>3. RefsOK'
    BY <2>1 DEF tabs, chats, PairInv, PairOK, RefsOK, Own
  <2>4. LinksOK'
    BY <2>1 DEF tabs, chats, PairInv, LinksOK, Own
  <2>5. HandOK' /\ LiveOK'
    BY <2>1 DEF tabs, chats, PairInv, HandOK, LiveOK, Own
  <2> QED BY <2>2, <2>3, <2>4, <2>5 DEF PairInv, PairOK
<1> QED BY <1>1, <1>2, <1>3, <1>4 DEF PairingNext

LEMMA PairInvariant == FairPairing => []PairInv
BY PairInvInit, PairInvNext, PTL DEF FairPairing

\* Codes, links and refs always name transports that were made, and a tab's
\* refs name its own.
THEOREM PairingTypeCorrect == FairPairing => []PairingTypeOK
<1>1. PairInv => PairingTypeOK
  <2> SUFFICES ASSUME PairInv PROVE PairingTypeOK
    OBVIOUS
  <2> DEFINE Code == 0..Len(transports)
  <2>1. Len(transports) \in Nat /\ DOMAIN transports = 1..Len(transports)
    BY TransportFacts DEF PairInv, PairOK
  <2>2. link \in [Tab -> [kind : {"none", "invite", "answer"}, code : Code]]
    <3>1. \A t \in Tab : link[t] \in [kind : {"none", "invite", "answer"}, code : Code]
      BY <2>1 DEF PairInv, PairOK, TabsOK, RefsOK, Kind
    <3> QED BY <3>1 DEF PairInv, PairOK, TabsOK
  <2>3. ToSet(transports) \subseteq
          [tab : Tab, offer : Code, remote : Code,
           state : {"gathering", "connecting", "connected"} \cup Over]
    <3>1. \A i \in 1..Len(transports) :
            transports[i] \in [tab : Tab, offer : Code, remote : Code, state : State]
      BY <2>1, TransportFacts DEF PairInv, PairOK, TransportsOK, Transport
    <3> QED BY <2>1, <3>1 DEF ToSet, State
  <2>4. \A t \in Tab : {invite[t], shown[t], sessions[t], sessionsRef[t]} \subseteq
                         {0} \cup {i \in DOMAIN transports : transports[i].tab = t}
    BY <2>1 DEF PairInv, PairOK, RefsOK, Own
  <2> QED BY <2>2, <2>3, <2>4 DEF PairingTypeOK, PairInv, PairOK, TabsOK
<1> QED BY <1>1, PairInvariant, PTL

\* The answer that a tab shows is that of its session, unless its connection
\* was given up.
THEOREM ShownIsLive == FairPairing => []AnswerIsLive
<1>1. PairInv => AnswerIsLive
  BY DEF PairInv, LiveOK, AnswerIsLive, Quiet
<1> QED BY <1>1, PairInvariant, PTL

\* A tab that reports that its link was handed over was heard by another tab,
\* and answers to no link but those of other tabs.
THEOREM HandoffsAreHeard == FairPairing => []HandedIsHandled
<1>1. PairInv => HandedIsHandled
  <2> SUFFICES ASSUME PairInv PROVE HandedIsHandled
    OBVIOUS
  <2>1. DOMAIN transports = 1..Len(transports)
    BY TransportFacts DEF PairInv, PairOK
  <2>2. \A t \in Joining : handoff[t] = "handed" => t \notin OpenTab
    BY DEF PairInv, LinksOK
  <2> QED BY <2>1, <2>2 DEF PairInv, HandOK, HandedIsHandled, Own
<1> QED BY <1>1, PairInvariant, PTL
=============================================================================
