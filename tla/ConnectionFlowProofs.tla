------------------------ MODULE ConnectionFlowProofs ------------------------
(***************************************************************************)
(* Proofs about ConnectionFlow, for any number of browsers, whatever their *)
(* settings and whom they trust.                                           *)
(***************************************************************************)
EXTENDS ConnectionFlow, SequenceTheorems, FiniteSetTheorems, TLAPS

-----------------------------------------------------------------------------
(* Sequences.                                                              *)

LEMMA FunctionIsSeq ==
  ASSUME NEW S, NEW n \in Nat, NEW s \in [1..n -> S]
  PROVE  s \in Seq(S)
OBVIOUS

LEMMA SeqGrows ==
  ASSUME NEW S, NEW T, S \subseteq T, NEW s \in Seq(S)
  PROVE  s \in Seq(T)
<1>1. Len(s) \in Nat /\ s \in [1..Len(s) -> S]
  BY LenProperties
<1>2. s \in [1..Len(s) -> T]
  BY <1>1
<1> QED BY <1>1, <1>2

\* A finite set can be listed.
LEMMA ListFacts ==
  ASSUME NEW S, IsFiniteSet(S)
  PROVE  SetToSeq(S) \in Seq(S)
<1>1. Cardinality(S) \in Nat /\ ExistsBijection(1..Cardinality(S), S)
  BY FS_CardinalityType
<1>2. PICK f \in [1..Cardinality(S) -> S] : IsInjective(f)
  BY <1>1, Zenon DEF ExistsBijection, Bijection, Injection, IsInjective
<1>3. SetToSeq(S) \in [1..Cardinality(S) -> S]
  BY <1>2, Zenon DEF SetToSeq
<1> QED BY <1>1, <1>3

\* In a finite set of numbers every rank below its size is somebody's.
LEMMA RankFacts ==
  ASSUME NEW n \in Nat, NEW I \in SUBSET (1..n), NEW k \in 1..Cardinality(I)
  PROVE  /\ Cardinality(I) \in Nat
         /\ \E i \in I : Cardinality({j \in I : j < i}) = k - 1
<1> DEFINE Below(i) == {j \in I : j < i}
           rank == [i \in I |-> Cardinality(Below(i)) + 1]
<1>1. IsFiniteSet(I) /\ Cardinality(I) \in Nat
  BY FS_Interval, FS_Subset, FS_CardinalityType, IsFiniteSet(1..n)
<1>2. ASSUME NEW i \in I
      PROVE  /\ IsFiniteSet(Below(i)) /\ Cardinality(Below(i)) \in Nat
             /\ Cardinality(Below(i)) < Cardinality(I)
  <2>1. Below(i) \in SUBSET I /\ Below(i) # I
    OBVIOUS
  <2>2. IsFiniteSet(Below(i)) /\ Cardinality(Below(i)) <= Cardinality(I)
        /\ Cardinality(Below(i)) # Cardinality(I)
    BY <1>1, <2>1, FS_Subset
  <2>3. Cardinality(Below(i)) \in Nat
    BY <2>2, FS_CardinalityType
  <2> QED BY <1>1, <2>2, <2>3
<1>3. ASSUME NEW i \in I, NEW j \in I, i < j
      PROVE  Cardinality(Below(i)) # Cardinality(Below(j))
  <2>1. i \in Nat /\ j \in Nat /\ \A l \in I : l \in Nat
    OBVIOUS
  <2>2. i \in Below(j) /\ i \notin Below(i) /\ \A l \in Below(i) : l \in Below(j)
    BY <1>3, <2>1
  <2>3. Below(i) \in SUBSET Below(j) /\ Below(i) # Below(j)
    <3> HIDE DEF Below
    <3> QED BY <2>2
  <2> QED BY <1>2, <2>3, FS_Subset
<1>4. \A i, j \in I : rank[i] = rank[j] => i = j
  <2> SUFFICES ASSUME NEW i \in I, NEW j \in I, i # j PROVE rank[i] # rank[j]
    OBVIOUS
  <2>1. i < j \/ j < i
    OBVIOUS
  <2>2. Cardinality(Below(i)) # Cardinality(Below(j))
    BY <1>3, <2>1
  <2> HIDE DEF Below
  <2> QED BY <1>2, <2>2
<1>5. rank \in [I -> 1..Cardinality(I)]
  <2> HIDE DEF Below
  <2> QED BY <1>1, <1>2
<1>6. IsFiniteSet(1..Cardinality(I)) /\ Cardinality(1..Cardinality(I)) = Cardinality(I)
  BY <1>1, FS_Interval
<1> HIDE DEF rank
<1>7. rank \in Injection(I, 1..Cardinality(I))
  BY <1>4, <1>5 DEF Injection, IsInjective
<1>8. rank \in Surjection(I, 1..Cardinality(I))
  BY <1>6, <1>7, FS_Injection
<1>9. PICK i \in I : rank[i] = k
  BY <1>8 DEF Surjection
<1>10. Cardinality(Below(i)) = k - 1
  <2> HIDE DEF Below
  <2>1. rank[i] = Cardinality(Below(i)) + 1
    BY DEF rank
  <2> QED BY <1>2, <1>9, <2>1
<1> QED BY <1>1, <1>10

\* Among picks elements at the given places, each once.
LEMMA AmongFacts ==
  ASSUME NEW S, NEW s \in Seq(S), NEW I \in SUBSET DOMAIN s
  PROVE  \E f \in [1..Cardinality(I) -> I] :
           /\ Cardinality(I) \in Nat
           /\ Among(s, I) = [k \in 1..Cardinality(I) |-> s[f[k]]]
           /\ \A k, l \in 1..Cardinality(I) : f[k] = f[l] => k = l
<1> DEFINE Is(i, k) == Cardinality({j \in I : j < i}) = k - 1
           f == [k \in 1..Cardinality(I) |-> CHOOSE i \in I : Is(i, k)]
<1>1. Len(s) \in Nat /\ DOMAIN s = 1..Len(s)
  BY LenProperties
<1>2. Cardinality(I) \in Nat
  BY <1>1, FS_Interval, FS_Subset, FS_CardinalityType, IsFiniteSet(1..Len(s))
<1>3. ASSUME NEW k \in 1..Cardinality(I)
      PROVE  f[k] \in I /\ Is(f[k], k)
  <2>1. \E i \in I : Is(i, k)
    BY <1>1, RankFacts
  <2> HIDE DEF Is
  <2> QED BY <2>1
<1>4. \A k, l \in 1..Cardinality(I) : f[k] = f[l] => k = l
  <2> SUFFICES ASSUME NEW k \in 1..Cardinality(I), NEW l \in 1..Cardinality(I),
                      f[k] = f[l]
               PROVE  k = l
    OBVIOUS
  <2>1. Is(f[k], k) /\ Is(f[k], l)
    BY <1>3
  <2>2. k - 1 = l - 1
    BY <2>1
  <2> QED BY <1>2, <2>2
<1>5. Among(s, I) = [k \in 1..Cardinality(I) |-> s[f[k]]]
  BY DEF Among
<1>6. f \in [1..Cardinality(I) -> I]
  <2> HIDE DEF Is
  <2> QED BY <1>3
<1> HIDE DEF f
<1> QED BY <1>2, <1>4, <1>5, <1>6

-----------------------------------------------------------------------------
(* Types.                                                                  *)

AnyHow == {"auto", "popup", "yielded"}

\* What an accept may be given by.
Hows == {how \in AnyHow : how = "auto" => AutoOn # {}}

\* The frames and the lookups there may be while k attempts were made.
Frame(k) ==
  [type : {"peer-joined", "peer-left", "connect-request", "connect-rejected"}]
    \cup [type : {"connect-accepted"}, how : Hows]
    \cup [type : {"webrtc-offer", "webrtc-answer"}, id : 1..k]

Waiting(k) ==
  [kind : {"peers", "request"}, peer : Device]
    \cup [kind : {"accepted"}, peer : Device, manual : BOOLEAN, how : Hows]
    \cup [kind : {"offer"}, peer : Device, id : 1..k]

PresenceOK ==
  /\ online \subseteq Device
  /\ nearby \in [Device -> SUBSET Device] /\ nearbyRef \in [Device -> SUBSET Device]

NetOK == net \in [Device -> [Device -> Seq(Frame(Len(attempts)))]]

LookupsOK == lookups \in [Device -> Seq(Waiting(Len(attempts)))]

PendingOK == pending \in [Device -> Device \cup {0}] /\ pendingRef \in [Device -> Device \cup {0}]

MarksOK ==
  /\ autoConnecting \in [Device -> SUBSET Device]
  /\ autoAccepted \in [Device -> SUBSET Device]
  /\ yieldedManual \in [Device -> SUBSET Device]

IncomingOK == incoming \in [Device -> Seq(Device)] /\ \A d \in Device : IsInjective(incoming[d])

AttemptsOK == trusted \in [Device -> SUBSET Device] /\ attempts \in Seq(AttemptType)

SessionsOK ==
  /\ sessions \in [Device -> [Device -> 0..Len(attempts)]]
  /\ sessionsRef \in [Device -> [Device -> 0..Len(attempts)]]

FlowOK ==
  /\ PresenceOK /\ NetOK /\ LookupsOK /\ PendingOK /\ MarksOK /\ IncomingOK
  /\ AttemptsOK /\ SessionsOK /\ clicks \in Nat

LEMMA AttemptFacts ==
  ASSUME AttemptsOK
  PROVE  /\ Len(attempts) \in Nat /\ DOMAIN attempts = 1..Len(attempts)
         /\ \A i \in 1..Len(attempts) : attempts[i] \in AttemptType
         /\ attempts \in [DOMAIN attempts -> AttemptType]
BY LenProperties, ElementOfSeq DEF AttemptsOK

\* More attempts allow more frames and lookups.
LEMMA RangesGrow ==
  ASSUME NEW k \in Nat, NEW l \in Nat, k <= l
  PROVE  Frame(k) \subseteq Frame(l) /\ Waiting(k) \subseteq Waiting(l)
<1>1. 1..k \subseteq 1..l
  OBVIOUS
<1>2. Frame(k) \subseteq Frame(l)
  <2> SUFFICES ASSUME NEW m \in [type : {"webrtc-offer", "webrtc-answer"}, id : 1..k]
               PROVE  m \in [type : {"webrtc-offer", "webrtc-answer"}, id : 1..l]
    BY Zenon DEF Frame
  <2> QED BY <1>1, Zenon
<1>3. Waiting(k) \subseteq Waiting(l)
  <2> SUFFICES ASSUME NEW m \in [kind : {"offer"}, peer : Device, id : 1..k]
               PROVE  m \in [kind : {"offer"}, peer : Device, id : 1..l]
    BY Zenon DEF Waiting
  <2> QED BY <1>1, Zenon
<1> QED BY <1>2, <1>3

\* What was sent and looked up stays in its range.
LEMMA QueuesKept ==
  ASSUME NetOK, LookupsOK, Len(attempts) \in Nat, Len(attempts') \in Nat,
         Len(attempts) <= Len(attempts')
  PROVE  /\ net \in [Device -> [Device -> Seq(Frame(Len(attempts')))]]
         /\ lookups \in [Device -> Seq(Waiting(Len(attempts')))]
<1>1. /\ Frame(Len(attempts)) \subseteq Frame(Len(attempts'))
      /\ Waiting(Len(attempts)) \subseteq Waiting(Len(attempts'))
  BY RangesGrow
<1>2. \A p, d \in Device : net[p][d] \in Seq(Frame(Len(attempts')))
  BY <1>1, SeqGrows DEF NetOK
<1>3. \A d \in Device : lookups[d] \in Seq(Waiting(Len(attempts')))
  BY <1>1, SeqGrows DEF LookupsOK
<1> QED BY <1>2, <1>3 DEF NetOK, LookupsOK

\* The frames a browser sends.
LEMMA FrameFacts ==
  ASSUME NEW k \in Nat
  PROVE  /\ Request \in Frame(k) /\ Rejected \in Frame(k)
         /\ \A how \in Hows : Accepted(how) \in Frame(k)
         /\ \A i \in 1..k : Offer(i) \in Frame(k) /\ Answer(i) \in Frame(k)
         /\ [type |-> "peer-joined"] \in Frame(k) /\ [type |-> "peer-left"] \in Frame(k)
BY DEF Frame, Request, Rejected, Accepted, Offer, Answer

LEMMA FramesAre ==
  ASSUME NEW k \in Nat, NEW m \in Frame(k)
  PROVE  /\ m.type \in {"peer-joined", "peer-left", "connect-request", "connect-accepted",
                        "connect-rejected", "webrtc-offer", "webrtc-answer"}
         /\ m.type = "connect-request" => m = Request
         /\ m.type = "connect-accepted" => m.how \in Hows /\ m = Accepted(m.how)
         /\ m.type \in {"webrtc-offer", "webrtc-answer"} => m.id \in 1..k
         /\ m.type = "webrtc-offer" => m = Offer(m.id)
BY DEF Frame, Request, Accepted, Offer

LEMMA WaitingFacts ==
  ASSUME NEW k \in Nat, NEW w \in Waiting(k)
  PROVE  /\ w.kind \in {"peers", "request", "accepted", "offer"} /\ w.peer \in Device
         /\ w.kind = "accepted" => w.manual \in BOOLEAN /\ w.how \in Hows
         /\ w.kind = "offer" => w.id \in 1..k
BY DEF Waiting

LEMMA SentOK ==
  ASSUME NEW k \in Nat, NEW n \in [Device -> [Device -> Seq(Frame(k))]],
         NEW d \in Device, NEW p \in Device, NEW m \in Frame(k)
  PROVE  [n EXCEPT ![d][p] = @ \o Relayed(d, p, m)] \in [Device -> [Device -> Seq(Frame(k))]]
<1>1. Relayed(d, p, m) \in Seq(Frame(k))
  BY DEF Relayed
<1>2. n[d][p] \o Relayed(d, p, m) \in Seq(Frame(k))
  BY <1>1, ConcatProperties
<1> QED BY <1>2

LEMMA TookOK ==
  ASSUME NEW k \in Nat, NEW n \in [Device -> [Device -> Seq(Frame(k))]],
         NEW d \in Device, NEW p \in Device, n[p][d] # <<>>
  PROVE  /\ [n EXCEPT ![p][d] = Tail(@)] \in [Device -> [Device -> Seq(Frame(k))]]
         /\ Head(n[p][d]) \in Frame(k)
<1>1. n[p][d] \in Seq(Frame(k))
  OBVIOUS
<1>2. Head(n[p][d]) \in Frame(k) /\ Tail(n[p][d]) \in Seq(Frame(k))
  BY <1>1, HeadTailProperties
<1> QED BY <1>2

LEMMA AppendedOK ==
  ASSUME NEW k \in Nat, NEW q \in [Device -> Seq(Waiting(k))], NEW d \in Device,
         NEW w \in Waiting(k)
  PROVE  [q EXCEPT ![d] = Append(@, w)] \in [Device -> Seq(Waiting(k))]
<1>1. Append(q[d], w) \in Seq(Waiting(k))
  BY AppendProperties
<1> QED BY <1>1

\* A lookup that is answered is the first one and goes.
LEMMA AnsweredOK ==
  ASSUME FlowOK, NEW d \in Device, NEW kind, Answered(d, kind)
  PROVE  /\ lookups' \in [Device -> Seq(Waiting(Len(attempts)))]
         /\ Head(lookups[d]) \in Waiting(Len(attempts))
         /\ Found(d) \in Device /\ Head(lookups[d]).kind = kind
<1>1. lookups[d] \in Seq(Waiting(Len(attempts))) /\ Len(attempts) \in Nat
  BY AttemptFacts DEF FlowOK, LookupsOK
<1>2. /\ Head(lookups[d]) \in Waiting(Len(attempts))
      /\ Tail(lookups[d]) \in Seq(Waiting(Len(attempts)))
  BY <1>1, HeadTailProperties DEF Answered
<1>3. Found(d) \in Device
  BY <1>1, <1>2, WaitingFacts DEF Found
<1> QED BY <1>2, <1>3 DEF Answered, FlowOK, LookupsOK

\* A list is handed to onPeersChanged.
LEMMA PeersChangedOK ==
  ASSUME FlowOK, NEW d \in Device, NEW list \in SUBSET Device, PeersChanged(d, list)
  PROVE  /\ nearby' \in [Device -> SUBSET Device]
         /\ lookups' \in [Device -> Seq(Waiting(Len(attempts)))]
         /\ \E more \in Seq([kind : {"peers"}, peer : {q \in Device : Eligible(d, q)}]) :
              lookups' = [lookups EXCEPT ![d] = @ \o more]
<1> DEFINE peers == {q \in list : Eligible(d, q)}
           found == {Lookup("peers", p) : p \in peers}
           asks == [kind : {"peers"}, peer : {q \in Device : Eligible(d, q)}]
           more == SetToSeq(found)
<1>1. Len(attempts) \in Nat
  BY AttemptFacts DEF FlowOK
<1>2. found \subseteq asks /\ asks \subseteq Waiting(Len(attempts))
  <2> HIDE DEF peers
  <2>1. \A p \in peers : p \in Device /\ Eligible(d, p)
    BY DEF peers
  <2>2. found \subseteq asks
    BY <2>1 DEF Lookup
  <2> QED BY <2>2 DEF Waiting
<1>3. IsFiniteSet(found)
  <2>1. IsFiniteSet(peers)
    BY FlowAssumption, FS_Subset, peers \in SUBSET Device
  <2> HIDE DEF peers
  <2> DEFINE f == [p \in peers |-> Lookup("peers", p)]
  <2>2. f \in [peers -> found] /\ \A w \in found : \E p \in peers : f[p] = w
    OBVIOUS
  <2> HIDE DEF f, found
  <2>3. f \in Surjection(peers, found)
    BY <2>2, Zenon DEF Surjection
  <2> QED BY <2>1, <2>3, FS_Surjection
<1>4. /\ nearby' = [nearby EXCEPT ![d] = list]
      /\ lookups' = [lookups EXCEPT ![d] = @ \o more]
  BY DEF PeersChanged
<1> HIDE DEF peers, found, asks
<1>5. more \in Seq(found)
  BY <1>3, ListFacts
<1> HIDE DEF more
<1>6. more \in Seq(asks) /\ more \in Seq(Waiting(Len(attempts)))
  BY <1>2, <1>5, SeqGrows
<1>7. lookups[d] \o more \in Seq(Waiting(Len(attempts)))
  BY <1>6, ConcatProperties DEF FlowOK, LookupsOK
<1>8. lookups' \in [Device -> Seq(Waiting(Len(attempts)))]
  BY <1>4, <1>7 DEF FlowOK, LookupsOK
<1>9. nearby' \in [Device -> SUBSET Device]
  BY <1>4 DEF FlowOK, PresenceOK
<1> QED BY <1>4, <1>6, <1>8, <1>9 DEF asks

\* A transport is made.
LEMMA AppendOK ==
  ASSUME FlowOK, NEW a \in AttemptType, attempts' = Append(attempts, a)
  PROVE  /\ attempts' \in Seq(AttemptType) /\ Len(attempts') = Len(attempts) + 1
         /\ DOMAIN attempts' = 1..(Len(attempts) + 1)
         /\ \A i \in 1..Len(attempts) : attempts'[i] = attempts[i]
         /\ attempts'[Len(attempts) + 1] = a
         /\ net \in [Device -> [Device -> Seq(Frame(Len(attempts')))]]
         /\ lookups \in [Device -> Seq(Waiting(Len(attempts')))]
         /\ sessions \in [Device -> [Device -> 0..Len(attempts')]]
         /\ sessionsRef \in [Device -> [Device -> 0..Len(attempts')]]
<1>1. /\ attempts' \in Seq(AttemptType) /\ Len(attempts') = Len(attempts) + 1
      /\ \A i \in 1..Len(attempts) : attempts'[i] = attempts[i]
      /\ attempts'[Len(attempts) + 1] = a
  BY AppendProperties DEF FlowOK, AttemptsOK
<1>2. Len(attempts) \in Nat
  BY AttemptFacts DEF FlowOK
<1>3. DOMAIN attempts' = 1..(Len(attempts) + 1)
  BY <1>1, LenProperties
<1>4. /\ net \in [Device -> [Device -> Seq(Frame(Len(attempts')))]]
      /\ lookups \in [Device -> Seq(Waiting(Len(attempts')))]
  BY <1>1, <1>2, QueuesKept DEF FlowOK
<1>5. 0..Len(attempts) \subseteq 0..Len(attempts')
  BY <1>1, <1>2
<1>6. /\ sessions \in [Device -> [Device -> 0..Len(attempts')]]
      /\ sessionsRef \in [Device -> [Device -> 0..Len(attempts')]]
  BY <1>5 DEF FlowOK, SessionsOK
<1> QED BY <1>1, <1>3, <1>4, <1>6

\* Transports change.
LEMMA ChangeOK ==
  ASSUME FlowOK, DOMAIN attempts' = DOMAIN attempts,
         \E new \in [DOMAIN attempts -> AttemptType] : attempts' = new
  PROVE  /\ Len(attempts') = Len(attempts) /\ attempts' \in Seq(AttemptType)
<1>1. Len(attempts) \in Nat /\ DOMAIN attempts = 1..Len(attempts)
  BY AttemptFacts DEF FlowOK
<1>2. attempts' \in [1..Len(attempts) -> AttemptType]
  <2>1. PICK new \in [DOMAIN attempts -> AttemptType] : attempts' = new
    OBVIOUS
  <2> QED BY <1>1, <2>1
<1> QED BY <1>1, <1>2

LEMMA AttemptChanges ==
  ASSUME NEW a \in AttemptType
  PROVE  /\ \A s \in {"idle", "connecting", "connected"} \cup Over :
              [a EXCEPT !.state = s] \in AttemptType
         /\ \A m \in Nat, w \in SUBSET Nat :
              [a EXCEPT !.stage = "securing", !.mate = m, !.after = w] \in AttemptType
         /\ \A s \in {"listening", "securing"}, w \in SUBSET Nat :
              [a EXCEPT !.stage = s, !.state = "connecting", !.after = w] \in AttemptType
         /\ \A s \in {"idle", "connecting", "connected"} \cup Over, w \in SUBSET Nat :
              [a EXCEPT !.state = s, !.after = w] \in AttemptType
         /\ [a EXCEPT !.stage = "attached"] \in AttemptType
BY DEF AttemptType, Over

LEMMA SecuringFacts ==
  ASSUME FlowOK, NEW d
  PROVE  Securing(d) \in SUBSET Nat
BY AttemptFacts DEF FlowOK, Securing

LEMMA AttemptIs ==
  ASSUME NEW d \in Device, NEW p \in Device, NEW role \in {"offerer", "answerer"},
         NEW mate \in Nat, NEW manual \in BOOLEAN, NEW how \in AnyHow, NEW navigates \in BOOLEAN
  PROVE  Attempt(d, p, role, mate, manual, how, navigates) \in AttemptType
BY DEF Attempt, AttemptType, AnyHow, Over

-----------------------------------------------------------------------------
(* Every action keeps the types.                                           *)

LEMMA TakeOK ==
  ASSUME FlowOK, NEW d \in Device, NEW p \in Device, NEW type, Arrived(d, p, type)
  PROVE  /\ Take(d, p) => net' \in [Device -> [Device -> Seq(Frame(Len(attempts)))]]
         /\ \A m \in Frame(Len(attempts)) : TakeAndSend(d, p, m) /\ p # d =>
              net' \in [Device -> [Device -> Seq(Frame(Len(attempts)))]]
         /\ Head(net[p][d]) \in Frame(Len(attempts)) /\ Head(net[p][d]).type = type
         /\ Len(attempts) \in Nat
<1> DEFINE k == Len(attempts)
           taken == [net EXCEPT ![p][d] = Tail(@)]
<1>1. k \in Nat /\ net \in [Device -> [Device -> Seq(Frame(k))]]
  BY AttemptFacts DEF FlowOK, NetOK
<1>2. net[p][d] # <<>> /\ Head(net[p][d]).type = type
  BY DEF Arrived
<1>3. taken \in [Device -> [Device -> Seq(Frame(k))]] /\ Head(net[p][d]) \in Frame(k)
  BY <1>1, <1>2, TookOK
<1>4. ASSUME NEW m \in Frame(k), TakeAndSend(d, p, m), p # d
      PROVE  net' \in [Device -> [Device -> Seq(Frame(k))]]
  <2>1. net' = [taken EXCEPT ![d][p] = @ \o Relayed(d, p, m)]
    BY <1>1, <1>4 DEF TakeAndSend
  <2> HIDE DEF taken
  <2> QED BY <1>1, <1>3, <2>1, SentOK
<1> QED BY <1>1, <1>2, <1>3, <1>4 DEF Take

LEMMA PresenceTypes ==
  ASSUME FlowOK, NEW d \in Device
  PROVE  /\ \A p \in Device : HandleJoined(d, p) \/ HandleLeft(d, p) => FlowOK'
         /\ PresenceEvent(d) => FlowOK'
<1> USE DEF FlowOK, PresenceOK, NetOK, LookupsOK, PendingOK, MarksOK, IncomingOK, AttemptsOK,
            SessionsOK
<1>1. ASSUME NEW p \in Device, HandleJoined(d, p) PROVE FlowOK'
  <2>1. net' \in [Device -> [Device -> Seq(Frame(Len(attempts)))]]
    BY <1>1, TakeOK DEF HandleJoined
  <2>2. /\ nearby' \in [Device -> SUBSET Device]
        /\ lookups' \in [Device -> Seq(Waiting(Len(attempts)))]
    <3>1. (nearby[d] \cup {p}) \in SUBSET Device
      OBVIOUS
    <3> QED BY <1>1, <3>1, PeersChangedOK DEF HandleJoined
  <2> QED BY <1>1, <2>1, <2>2 DEF HandleJoined, requests, connected, bounds
<1>2. ASSUME NEW p \in Device, HandleLeft(d, p) PROVE FlowOK'
  <2>1. net' \in [Device -> [Device -> Seq(Frame(Len(attempts)))]]
    BY <1>2, TakeOK DEF HandleLeft
  <2>2. /\ nearby' \in [Device -> SUBSET Device]
        /\ lookups' \in [Device -> Seq(Waiting(Len(attempts)))]
    <3>1. (nearby[d] \ {p}) \in SUBSET Device
      OBVIOUS
    <3> QED BY <1>2, <3>1, PeersChangedOK DEF HandleLeft
  <2> QED BY <1>2, <2>1, <2>2 DEF HandleLeft, requests, connected, bounds
<1>3. ASSUME PresenceEvent(d) PROVE FlowOK'
  <2>1. /\ nearby' \in [Device -> SUBSET Device]
        /\ lookups' \in [Device -> Seq(Waiting(Len(attempts)))]
    <3>1. nearby[d] \in SUBSET Device
      OBVIOUS
    <3> QED BY <1>3, <3>1, PeersChangedOK DEF PresenceEvent
  <2> QED BY <1>3, <2>1 DEF PresenceEvent, requests, connected
<1> QED BY <1>1, <1>2, <1>3

LEMMA GoOnlineTypes ==
  ASSUME FlowOK, NEW d \in Device, GoOnline(d)
  PROVE  FlowOK'
<1> DEFINE k == Len(attempts)
<1>1. k \in Nat /\ [type |-> "peer-joined"] \in Frame(k)
  BY AttemptFacts, FrameFacts DEF FlowOK
<1>2. \A p \in Device : Append(net[d][p], [type |-> "peer-joined"]) \in Seq(Frame(k))
  BY <1>1, AppendProperties DEF FlowOK, NetOK
<1>3. net' \in [Device -> [Device -> Seq(Frame(k))]]
  BY <1>2 DEF GoOnline, FlowOK, NetOK
<1>4. /\ nearby' \in [Device -> SUBSET Device]
      /\ lookups' \in [Device -> Seq(Waiting(k))]
  BY PeersChangedOK DEF GoOnline, FlowOK, PresenceOK
<1> QED BY <1>3, <1>4 DEF GoOnline, requests, connected, bounds, FlowOK, PresenceOK, NetOK,
      LookupsOK, PendingOK, MarksOK, IncomingOK, AttemptsOK, SessionsOK

\* The frames of a browser that the server has read, or the server's own.
LEMMA PresenceFacts ==
  ASSUME NEW k \in Nat, NEW s \in Seq(Frame(k))
  PROVE  /\ Among(s, Presence(s)) \in Seq(Frame(k))
         /\ \A n \in DOMAIN Among(s, Presence(s)) :
              Among(s, Presence(s))[n].type \in {"peer-joined", "peer-left"}
<1> DEFINE I == Presence(s)
<1>1. I \in SUBSET DOMAIN s /\ Len(s) \in Nat /\ s \in [DOMAIN s -> Frame(k)]
  BY LenProperties DEF Presence
<1>2. PICK f \in [1..Cardinality(I) -> I] :
        /\ Cardinality(I) \in Nat
        /\ Among(s, I) = [l \in 1..Cardinality(I) |-> s[f[l]]]
  BY <1>1, AmongFacts
<1>3. \A l \in 1..Cardinality(I) : s[f[l]] \in Frame(k)
                                   /\ s[f[l]].type \in {"peer-joined", "peer-left"}
  <2> TAKE l \in 1..Cardinality(I)
  <2>1. f[l] \in Presence(s)
    BY <1>2
  <2> QED BY <1>1, <2>1 DEF Presence
<1> HIDE DEF I
<1>4. Among(s, I) \in [1..Cardinality(I) -> Frame(k)] /\ DOMAIN Among(s, I) = 1..Cardinality(I)
  BY <1>2, <1>3
<1>5. Among(s, I) \in Seq(Frame(k))
  BY <1>2, <1>4, FunctionIsSeq
<1>6. \A l \in DOMAIN Among(s, I) : Among(s, I)[l].type \in {"peer-joined", "peer-left"}
  BY <1>2, <1>3, <1>4
<1> QED BY <1>5, <1>6 DEF I

\* What becomes of the frames when a browser's socket is lost.
Lost(d, keep) ==
  [p \in Device |-> [q \in Device |->
     CASE q = d -> <<>>
       [] p = d /\ q \in online ->
            Append(IF keep THEN net[p][q] ELSE Among(net[p][q], Presence(net[p][q])),
                   [type |-> "peer-left"])
       [] OTHER -> net[p][q]]]

LEMMA DropTypes ==
  ASSUME FlowOK, NEW d \in Device, Drop(d)
  PROVE  FlowOK' /\ \E keep \in BOOLEAN : net' = Lost(d, keep)
<1> DEFINE k == Len(attempts)
<1>1. k \in Nat /\ [type |-> "peer-left"] \in Frame(k)
  BY AttemptFacts, FrameFacts DEF FlowOK
<1>2. PICK keep \in BOOLEAN : net' = Lost(d, keep)
  BY DEF Drop, Lost
<1>3. ASSUME NEW p \in Device, NEW q \in Device
      PROVE  Lost(d, keep)[p][q] \in Seq(Frame(k))
  <2>1. net[p][q] \in Seq(Frame(k))
    BY DEF FlowOK, NetOK
  <2>2. Among(net[p][q], Presence(net[p][q])) \in Seq(Frame(k))
    BY <1>1, <2>1, PresenceFacts
  <2>3. \A s \in Seq(Frame(k)) : Append(s, [type |-> "peer-left"]) \in Seq(Frame(k))
    BY <1>1, AppendProperties
  <2>4. <<>> \in Seq(Frame(k))
    BY EmptySeq
  <2>5. Lost(d, keep)[p][q] =
          CASE q = d -> <<>>
            [] p = d /\ q \in online ->
                 Append(IF keep THEN net[p][q] ELSE Among(net[p][q], Presence(net[p][q])),
                        [type |-> "peer-left"])
            [] OTHER -> net[p][q]
    BY DEF Lost
  <2> HIDE DEF k
  <2> QED BY <2>1, <2>2, <2>3, <2>4, <2>5
<1>4. net' \in [Device -> [Device -> Seq(Frame(k))]]
  <2>1. Lost(d, keep) = [p \in Device |-> [q \in Device |-> Lost(d, keep)[p][q]]]
    BY DEF Lost
  <2> HIDE DEF k
  <2> QED BY <1>2, <1>3, <2>1
<1>5. /\ nearby' \in [Device -> SUBSET Device]
      /\ lookups' \in [Device -> Seq(Waiting(k))]
  BY PeersChangedOK DEF Drop, FlowOK, PresenceOK
<1>6. FlowOK'
  BY <1>4, <1>5 DEF Drop, requests, connected, FlowOK, PresenceOK, NetOK,
      LookupsOK, PendingOK, MarksOK, IncomingOK, AttemptsOK, SessionsOK
<1> QED BY <1>2, <1>6

LEMMA SendOK ==
  ASSUME FlowOK, NEW d \in Device, NEW p \in Device, NEW m \in Frame(Len(attempts)),
         Send(d, p, m)
  PROVE  net' \in [Device -> [Device -> Seq(Frame(Len(attempts)))]]
BY AttemptFacts, SentOK DEF FlowOK, NetOK, Send

LEMMA AutoConnectTypes ==
  ASSUME FlowOK, NEW d \in Device, AutoConnect(d)
  PROVE  FlowOK'
<1>1. /\ lookups' \in [Device -> Seq(Waiting(Len(attempts)))]
      /\ Found(d) \in Device
  BY AnsweredOK DEF AutoConnect
<1>2. net' \in [Device -> [Device -> Seq(Frame(Len(attempts)))]]
  <2>1. Request \in Frame(Len(attempts))
    BY AttemptFacts, FrameFacts DEF FlowOK
  <2> QED BY <1>1, <2>1, SendOK DEF AutoConnect, FlowOK, NetOK
<1>3. autoConnecting' \in [Device -> SUBSET Device]
  <2>1. autoConnecting \in [Device -> SUBSET Device]
    BY DEF FlowOK, MarksOK
  <2>2. \/ autoConnecting' = [autoConnecting EXCEPT ![d] = @ \cup {Found(d)}]
        \/ autoConnecting' = autoConnecting
    BY DEF AutoConnect
  <2> QED BY <1>1, <2>1, <2>2
<1> QED BY <1>1, <1>2, <1>3 DEF AutoConnect, presence, connected, bounds, FlowOK, PresenceOK,
      NetOK, LookupsOK, PendingOK, MarksOK, IncomingOK, AttemptsOK, SessionsOK

LEMMA HandleRequestTypes ==
  ASSUME FlowOK, NEW d \in Device, NEW p \in Device, HandleRequest(d, p)
  PROVE  FlowOK'
<1>1. Arrived(d, p, "connect-request") /\ Len(attempts) \in Nat
  BY AttemptFacts DEF HandleRequest, FlowOK
<1>2. d \in Nat /\ p \in Nat
  BY FlowAssumption
<1>3. net' \in [Device -> [Device -> Seq(Frame(Len(attempts)))]]
  <2>1. CASE Take(d, p)
    BY <1>1, <2>1, TakeOK
  <2>2. CASE TakeAndSend(d, p, Accepted("yielded")) /\ p < d
    <3>1. Accepted("yielded") \in Frame(Len(attempts))
      BY <1>1, FrameFacts DEF Hows, AnyHow
    <3> QED BY <1>1, <1>2, <2>2, <3>1, TakeOK
  <2> QED BY <2>1, <2>2 DEF HandleRequest
<1>4. lookups' \in [Device -> Seq(Waiting(Len(attempts)))]
  <2>1. Lookup("request", p) \in Waiting(Len(attempts))
    BY DEF Lookup, Waiting
  <2> HIDE DEF Lookup
  <2>2. \/ lookups' = lookups
        \/ lookups' = [lookups EXCEPT ![d] = Append(@, Lookup("request", p))]
    BY DEF HandleRequest
  <2>3. lookups \in [Device -> Seq(Waiting(Len(attempts)))]
    BY DEF FlowOK, LookupsOK
  <2>4. [lookups EXCEPT ![d] = Append(@, Lookup("request", p))]
          \in [Device -> Seq(Waiting(Len(attempts)))]
    BY <1>1, <2>1, <2>3, AppendedOK
  <2> QED BY <2>2, <2>3, <2>4
<1>5. /\ autoConnecting' \in [Device -> SUBSET Device]
      /\ autoAccepted' \in [Device -> SUBSET Device]
      /\ yieldedManual' \in [Device -> SUBSET Device]
  BY DEF HandleRequest, FlowOK, MarksOK
<1>6. pending' \in [Device -> Device \cup {0}]
  BY DEF HandleRequest, FlowOK, PendingOK
<1> QED BY <1>3, <1>4, <1>5, <1>6 DEF HandleRequest, presence, connected, bounds, FlowOK,
      PresenceOK, NetOK, LookupsOK, PendingOK, MarksOK, IncomingOK, AttemptsOK, SessionsOK

\* A request takes the place of an earlier one of the same browser.
LEMMA PopupFacts ==
  ASSUME NEW s \in Seq(Device), IsInjective(s), NEW p \in Device
  PROVE  LET t == Append(Among(s, {n \in DOMAIN s : s[n] # p}), p)
         IN  /\ t \in Seq(Device) /\ IsInjective(t)
             /\ \A n \in DOMAIN t : t[n] = p \/ t[n] \in ToSet(s)
<1> DEFINE I == {n \in DOMAIN s : s[n] # p}
           u == Among(s, I)
           t == Append(u, p)
           c == Cardinality(I)
<1>1. Len(s) \in Nat /\ DOMAIN s = 1..Len(s) /\ s \in [DOMAIN s -> Device]
  BY LenProperties
<1>2. PICK f \in [1..c -> I] :
        /\ c \in Nat
        /\ u = [k \in 1..c |-> s[f[k]]]
        /\ \A k, l \in 1..c : f[k] = f[l] => k = l
  <2>1. I \in SUBSET DOMAIN s
    OBVIOUS
  <2> HIDE DEF I
  <2> QED BY <2>1, AmongFacts
<1>3. \A k \in 1..c : f[k] \in DOMAIN s /\ s[f[k]] # p /\ s[f[k]] \in Device
                      /\ s[f[k]] \in ToSet(s)
  <2> TAKE k \in 1..c
  <2>1. f[k] \in I
    BY <1>2
  <2>2. f[k] \in DOMAIN s /\ s[f[k]] # p
    BY <2>1
  <2> QED BY <1>1, <2>2 DEF ToSet
<1> HIDE DEF c, I
<1>4. u \in [1..c -> Device] /\ u \in Seq(Device)
  <2>1. u \in [1..c -> Device]
    <3> HIDE DEF u
    <3> QED BY <1>2, <1>3
  <2> QED BY <1>2, <2>1, FunctionIsSeq
<1>5. \A k, l \in 1..c : u[k] = u[l] => k = l
  <2> SUFFICES ASSUME NEW k \in 1..c, NEW l \in 1..c, u[k] = u[l] PROVE k = l
    OBVIOUS
  <2>1. s[f[k]] = s[f[l]]
    BY <1>2
  <2>2. f[k] = f[l]
    BY <1>3, <2>1 DEF IsInjective
  <2> QED BY <1>2, <2>2
<1>6. \A k \in 1..c : u[k] # p /\ u[k] \in ToSet(s)
  <2> HIDE DEF u
  <2> QED BY <1>2, <1>3
<1> HIDE DEF u
<1>7. Len(u) = c
  BY <1>2, <1>4, LenProperties
<1>8. /\ t \in Seq(Device) /\ Len(t) = c + 1 /\ t[c + 1] = p
      /\ \A k \in 1..c : t[k] = u[k]
  BY <1>4, <1>7, AppendProperties
<1> HIDE DEF t
<1>9. DOMAIN t = 1..(c + 1)
  BY <1>8, LenProperties
<1>10. \A n \in DOMAIN t : n \in 1..c \/ n = c + 1
  BY <1>2, <1>9
<1>11. IsInjective(t)
  <2> SUFFICES ASSUME NEW k \in DOMAIN t, NEW l \in DOMAIN t, t[k] = t[l] PROVE k = l
    BY DEF IsInjective
  <2>1. CASE k \in 1..c /\ l \in 1..c
    BY <1>5, <1>8, <2>1
  <2>2. CASE k = c + 1 \/ l = c + 1
    BY <1>6, <1>8, <1>10, <2>2
  <2> QED BY <1>10, <2>1, <2>2
<1>12. \A n \in DOMAIN t : t[n] = p \/ t[n] \in ToSet(s)
  BY <1>6, <1>8, <1>10
<1> QED BY <1>8, <1>11, <1>12 DEF t, u, I

LEMMA DecideRequestTypes ==
  ASSUME FlowOK, NEW d \in Device, DecideRequest(d)
  PROVE  FlowOK'
<1>1. /\ lookups' \in [Device -> Seq(Waiting(Len(attempts)))]
      /\ Found(d) \in Device /\ Len(attempts) \in Nat
  BY AttemptFacts, AnsweredOK DEF DecideRequest, FlowOK
<1>2. net' \in [Device -> [Device -> Seq(Frame(Len(attempts)))]]
  <2>1. d \in AutoOn => Accepted("auto") \in Frame(Len(attempts))
    BY <1>1, FrameFacts DEF Hows, AnyHow
  <2>2. UNCHANGED net \/ (d \in AutoOn /\ Send(d, Found(d), Accepted("auto")))
    BY DEF DecideRequest
  <2> QED BY <1>1, <2>1, <2>2, SendOK DEF FlowOK, NetOK
<1>3. autoAccepted' \in [Device -> SUBSET Device]
  <2>1. \/ autoAccepted' = autoAccepted
        \/ autoAccepted' = [autoAccepted EXCEPT ![d] = @ \cup {Found(d)}]
    BY DEF DecideRequest
  <2>2. /\ autoAccepted \in [Device -> SUBSET Device]
        /\ (autoAccepted[d] \cup {Found(d)}) \in SUBSET Device
    BY <1>1 DEF FlowOK, MarksOK
  <2> QED BY <2>1, <2>2
<1>4. IncomingOK'
  <2> DEFINE t == Append(Among(incoming[d], {n \in DOMAIN incoming[d] : incoming[d][n] # Found(d)}),
                         Found(d))
  <2>1. t \in Seq(Device) /\ IsInjective(t)
    BY <1>1, PopupFacts DEF FlowOK, IncomingOK
  <2>2. incoming' = incoming \/ incoming' = [incoming EXCEPT ![d] = t]
    BY DEF DecideRequest
  <2> HIDE DEF t
  <2> QED BY <2>1, <2>2 DEF FlowOK, IncomingOK
<1> QED BY <1>1, <1>2, <1>3, <1>4 DEF DecideRequest, presence, connected, bounds, FlowOK,
      PresenceOK, NetOK, LookupsOK, PendingOK, MarksOK, AttemptsOK, SessionsOK

LEMMA AnswerPopupTypes ==
  ASSUME FlowOK, NEW d \in Device, NEW m \in Frame(Len(attempts)), AnswerPopup(d, m)
  PROVE  FlowOK' /\ Head(incoming[d]) \in Device
<1> DEFINE s == incoming[d]
<1>1. s \in Seq(Device) /\ IsInjective(s) /\ s # <<>>
  BY DEF AnswerPopup, FlowOK, IncomingOK
<1>2. /\ Head(s) \in Device /\ Tail(s) \in Seq(Device)
      /\ Len(s) \in Nat /\ Len(Tail(s)) = Len(s) - 1
      /\ \A i \in 1..Len(Tail(s)) : Tail(s)[i] = s[i + 1]
  BY <1>1, HeadTailProperties, LenProperties
<1>3. DOMAIN s = 1..Len(s) /\ DOMAIN Tail(s) = 1..Len(Tail(s))
  BY <1>1, <1>2, LenProperties
<1>4. IsInjective(Tail(s))
  <2> SUFFICES ASSUME NEW k \in DOMAIN Tail(s), NEW l \in DOMAIN Tail(s), Tail(s)[k] = Tail(s)[l]
               PROVE  k = l
    BY DEF IsInjective
  <2>1. k \in Nat /\ l \in Nat /\ k + 1 \in DOMAIN s /\ l + 1 \in DOMAIN s
    <3>1. k \in 1..(Len(s) - 1) /\ l \in 1..(Len(s) - 1) /\ Len(s) \in Nat
      BY <1>2, <1>3
    <3>2. k \in Nat /\ l \in Nat /\ k + 1 \in 1..Len(s) /\ l + 1 \in 1..Len(s)
      BY <3>1
    <3> QED BY <1>3, <3>2
  <2>2. k + 1 = l + 1
    BY <1>1, <1>2, <1>3, <2>1 DEF IsInjective
  <2> QED BY <2>1, <2>2
<1>5. incoming' = [incoming EXCEPT ![d] = Tail(s)] /\ Send(d, Head(s), m)
  BY DEF AnswerPopup
<1> HIDE DEF s
<1>6. IncomingOK'
  BY <1>2, <1>4, <1>5 DEF FlowOK, IncomingOK
<1>7. net' \in [Device -> [Device -> Seq(Frame(Len(attempts)))]]
  BY <1>2, <1>5, SendOK
<1> QED BY <1>2, <1>6, <1>7 DEF s, AnswerPopup, presence, connected, bounds, FlowOK,
      PresenceOK, NetOK, LookupsOK, PendingOK, MarksOK, AttemptsOK, SessionsOK

LEMMA HandleRejectedTypes ==
  ASSUME FlowOK, NEW d \in Device, NEW p \in Device, HandleRejected(d, p)
  PROVE  FlowOK'
<1>1. net' \in [Device -> [Device -> Seq(Frame(Len(attempts)))]]
  BY TakeOK DEF HandleRejected
<1>2. autoConnecting' \in [Device -> SUBSET Device]
  BY DEF HandleRejected, FlowOK, MarksOK
<1>3. pending' \in [Device -> Device \cup {0}]
  BY DEF HandleRejected, FlowOK, PendingOK
<1> QED BY <1>1, <1>2, <1>3 DEF HandleRejected, presence, connected, bounds, FlowOK,
      PresenceOK, NetOK, LookupsOK, PendingOK, MarksOK, IncomingOK, AttemptsOK, SessionsOK

LEMMA ClickConnectTypes ==
  ASSUME FlowOK, NEW d \in Device, NEW p \in Device, ClickConnect(d, p)
  PROVE  FlowOK'
<1>1. net' \in [Device -> [Device -> Seq(Frame(Len(attempts)))]]
  <2>1. Request \in Frame(Len(attempts))
    BY AttemptFacts, FrameFacts DEF FlowOK
  <2> QED BY <2>1, SendOK DEF ClickConnect
<1>2. PendingOK' /\ clicks' \in Nat
  BY DEF ClickConnect, FlowOK, PendingOK
<1> QED BY <1>1, <1>2 DEF ClickConnect, presence, connected, FlowOK,
      PresenceOK, NetOK, LookupsOK, MarksOK, IncomingOK, AttemptsOK, SessionsOK

\* A handler that awaits the answer to an offer ends.
LEMMA FinallyTypes ==
  ASSUME FlowOK, NEW d \in Device, NEW p \in Device, NEW manual \in BOOLEAN,
         Finally(d, p, manual)
  PROVE  /\ pending' \in [Device -> Device \cup {0}]
         /\ autoConnecting' \in [Device -> SUBSET Device]
BY DEF Finally, FlowOK, PendingOK, MarksOK

LEMMA HandleAcceptedTypes ==
  ASSUME FlowOK, NEW d \in Device, NEW p \in Device, HandleAccepted(d, p)
  PROVE  FlowOK'
<1> DEFINE k == Len(attempts)
           manual == pendingRef[d] = p
           how == Head(net[p][d]).how
           w == [kind |-> "accepted", peer |-> p, manual |-> manual, how |-> how]
           a == Attempt(d, p, "offerer", 0, manual, how, manual)
<1>1. /\ Arrived(d, p, "connect-accepted") /\ Take(d, p)
      /\ \/ UNCHANGED <<lookups, attempts>>
         \/ attempts' = Append(attempts, a) /\ UNCHANGED lookups
         \/ lookups' = [lookups EXCEPT ![d] = Append(@, w)] /\ UNCHANGED attempts
  BY DEF HandleAccepted, StartOffer
<1>2. k \in Nat /\ how \in Hows /\ manual \in BOOLEAN
  BY <1>1, TakeOK, FramesAre
<1>3. w \in Waiting(k)
  <2> HIDE DEF manual, how, k
  <2> QED BY <1>2 DEF Waiting
<1>4. a \in AttemptType
  <2> HIDE DEF manual, how, k
  <2> QED BY <1>2, AttemptIs DEF Hows
<1>5. net' \in [Device -> [Device -> Seq(Frame(k))]]
  BY <1>1, TakeOK
<1>6. lookups \in [Device -> Seq(Waiting(k))]
  BY DEF FlowOK, LookupsOK
<1> HIDE DEF a, w
<1>7. /\ attempts' \in Seq(AttemptType) /\ Len(attempts') \in Nat /\ k <= Len(attempts')
      /\ lookups' \in [Device -> Seq(Waiting(Len(attempts')))]
      /\ SessionsOK'
  <2>1. CASE UNCHANGED <<lookups, attempts>>
    BY <1>2, <1>6, <2>1 DEF HandleAccepted, FlowOK, AttemptsOK, SessionsOK
  <2>2. CASE attempts' = Append(attempts, a) /\ UNCHANGED lookups
    <3>1. /\ attempts' \in Seq(AttemptType) /\ Len(attempts') = k + 1
          /\ lookups' \in [Device -> Seq(Waiting(Len(attempts')))]
          /\ SessionsOK'
      BY <1>4, <2>2, AppendOK DEF HandleAccepted, SessionsOK
    <3> QED BY <1>2, <3>1
  <2>3. CASE lookups' = [lookups EXCEPT ![d] = Append(@, w)] /\ UNCHANGED attempts
    <3>1. lookups' \in [Device -> Seq(Waiting(k))]
      BY <1>2, <1>3, <1>6, <2>3, AppendedOK
    <3> QED BY <1>2, <2>3, <3>1 DEF HandleAccepted, FlowOK, AttemptsOK, SessionsOK
  <2> QED BY <1>1, <2>1, <2>2, <2>3
<1>8. NetOK'
  <2>1. Frame(k) \subseteq Frame(Len(attempts'))
    BY <1>2, <1>7, RangesGrow
  <2>2. \A q, r \in Device : net'[q][r] \in Seq(Frame(Len(attempts')))
    BY <1>5, <2>1, SeqGrows
  <2> QED BY <1>5, <2>2 DEF NetOK
<1> QED BY <1>7, <1>8 DEF HandleAccepted, presence, requests, bounds, FlowOK, PresenceOK,
      LookupsOK, PendingOK, MarksOK, IncomingOK, AttemptsOK

LEMMA ResolveAcceptedTypes ==
  ASSUME FlowOK, NEW d \in Device, ResolveAccepted(d)
  PROVE  FlowOK'
<1> DEFINE k == Len(attempts)
           w == Head(lookups[d])
           a == Attempt(d, w.peer, "offerer", 0, w.manual, w.how, w.manual)
<1>1. /\ Answered(d, "accepted")
      /\ \/ attempts' = Append(attempts, a) /\ UNCHANGED <<pending, autoConnecting>>
         \/ Finally(d, w.peer, w.manual) /\ UNCHANGED attempts
  BY DEF ResolveAccepted, StartOffer
<1>2. /\ k \in Nat /\ lookups' \in [Device -> Seq(Waiting(k))]
      /\ w.peer \in Device /\ w.manual \in BOOLEAN /\ w.how \in Hows
  <2>1. k \in Nat
    BY AttemptFacts DEF FlowOK
  <2>2. lookups' \in [Device -> Seq(Waiting(k))] /\ w \in Waiting(k) /\ w.kind = "accepted"
    BY <1>1, AnsweredOK
  <2> HIDE DEF w, k
  <2> QED BY <2>1, <2>2, WaitingFacts
<1> HIDE DEF w
<1>3. a \in AttemptType
  BY <1>2, AttemptIs DEF Hows
<1> HIDE DEF a
<1>4. PendingOK' /\ MarksOK'
  BY <1>1, <1>2, FinallyTypes DEF ResolveAccepted, FlowOK, PendingOK, MarksOK
<1>5. NetOK' /\ LookupsOK' /\ AttemptsOK' /\ SessionsOK'
  <2>1. CASE attempts' = Append(attempts, a)
    <3>1. /\ attempts' \in Seq(AttemptType) /\ Len(attempts') = k + 1
          /\ net \in [Device -> [Device -> Seq(Frame(Len(attempts')))]]
          /\ SessionsOK'
      BY <1>3, <2>1, AppendOK DEF ResolveAccepted, SessionsOK
    <3>2. Waiting(k) \subseteq Waiting(Len(attempts'))
      BY <1>2, <3>1, RangesGrow
    <3>3. \A e \in Device : lookups'[e] \in Seq(Waiting(Len(attempts')))
      BY <1>2, <3>2, SeqGrows
    <3>4. lookups' \in [Device -> Seq(Waiting(Len(attempts')))]
      BY <1>2, <3>3
    <3> QED BY <3>1, <3>4 DEF ResolveAccepted, FlowOK, NetOK, LookupsOK, AttemptsOK
  <2>2. CASE UNCHANGED attempts
    BY <1>2, <2>2 DEF ResolveAccepted, FlowOK, NetOK, LookupsOK, AttemptsOK, SessionsOK
  <2> QED BY <1>1, <2>1, <2>2
<1> QED BY <1>4, <1>5 DEF ResolveAccepted, presence, bounds, FlowOK, PresenceOK, IncomingOK

\* An offer is answered.
LEMMA StartAnswerTypes ==
  ASSUME FlowOK, NEW d \in Device, NEW p \in Device, NEW i \in 1..Len(attempts),
         StartAnswer(d, p, i)
  PROVE  /\ autoAccepted' \in [Device -> SUBSET Device]
         /\ yieldedManual' \in [Device -> SUBSET Device]
         /\ \E a \in AttemptType : /\ attempts' = Append(attempts, a)
                                   /\ a.dev = d /\ a.peer = p /\ a.role = "answerer"
                                   /\ a.how = attempts[i].how
                                   /\ a.navigates <=> p \notin autoAccepted[d]
                                                      \/ p \in yieldedManual[d]
<1> DEFINE nav == p \notin autoAccepted[d] \/ p \in yieldedManual[d]
           a == Attempt(d, p, "answerer", i, FALSE, attempts[i].how, nav)
<1>1. attempts[i].how \in AnyHow /\ i \in Nat
  BY AttemptFacts DEF FlowOK, AttemptType, AnyHow
<1>2. attempts' = Append(attempts, a)
  BY DEF StartAnswer
<1>3. nav \in BOOLEAN
  OBVIOUS
<1>4. nav <=> p \notin autoAccepted[d] \/ p \in yieldedManual[d]
  OBVIOUS
<1> HIDE DEF nav
<1>5. a \in AttemptType
  BY <1>1, <1>3, AttemptIs
<1>6. /\ a.dev = d /\ a.peer = p /\ a.role = "answerer" /\ a.how = attempts[i].how
      /\ a.navigates = nav
  BY DEF Attempt
<1>7. /\ autoAccepted' \in [Device -> SUBSET Device]
      /\ yieldedManual' \in [Device -> SUBSET Device]
  BY DEF StartAnswer, FlowOK, MarksOK
<1> HIDE DEF a
<1> QED BY <1>2, <1>4, <1>5, <1>6, <1>7

LEMMA HandleOfferTypes ==
  ASSUME FlowOK, NEW d \in Device, NEW p \in Device, HandleOffer(d, p)
  PROVE  FlowOK'
<1> DEFINE k == Len(attempts)
           i == Head(net[p][d]).id
           w == [kind |-> "offer", peer |-> p, id |-> i]
<1>1. /\ Arrived(d, p, "webrtc-offer") /\ Take(d, p)
      /\ \/ StartAnswer(d, p, i) /\ UNCHANGED lookups
         \/ /\ lookups' = [lookups EXCEPT ![d] = Append(@, w)]
            /\ UNCHANGED <<autoAccepted, yieldedManual, attempts>>
  BY DEF HandleOffer
<1>2. k \in Nat /\ i \in 1..k
  BY <1>1, TakeOK, FramesAre
<1>3. w \in Waiting(k)
  <2> HIDE DEF i, k
  <2> QED BY <1>2 DEF Waiting
<1>4. net' \in [Device -> [Device -> Seq(Frame(k))]]
  BY <1>1, TakeOK
<1>5. lookups \in [Device -> Seq(Waiting(k))]
  BY DEF FlowOK, LookupsOK
<1> HIDE DEF w, i
<1>6. /\ attempts' \in Seq(AttemptType) /\ Len(attempts') \in Nat /\ k <= Len(attempts')
      /\ lookups' \in [Device -> Seq(Waiting(Len(attempts')))]
      /\ SessionsOK' /\ MarksOK'
  <2>1. CASE StartAnswer(d, p, i) /\ UNCHANGED lookups
    <3>1. PICK a \in AttemptType : attempts' = Append(attempts, a)
      BY <1>2, <2>1, StartAnswerTypes
    <3>2. MarksOK'
      BY <1>2, <2>1, StartAnswerTypes DEF HandleOffer, FlowOK, MarksOK
    <3>3. /\ attempts' \in Seq(AttemptType) /\ Len(attempts') = k + 1
          /\ lookups' \in [Device -> Seq(Waiting(Len(attempts')))]
          /\ SessionsOK'
      BY <2>1, <3>1, AppendOK DEF HandleOffer, SessionsOK
    <3> QED BY <1>2, <3>2, <3>3
  <2>2. CASE /\ lookups' = [lookups EXCEPT ![d] = Append(@, w)]
             /\ UNCHANGED <<autoAccepted, yieldedManual, attempts>>
    <3>1. lookups' \in [Device -> Seq(Waiting(k))]
      BY <1>2, <1>3, <1>5, <2>2, AppendedOK
    <3> QED BY <1>2, <2>2, <3>1 DEF HandleOffer, FlowOK, AttemptsOK, SessionsOK, MarksOK
  <2> QED BY <1>1, <2>1, <2>2
<1>7. NetOK'
  <2>1. Frame(k) \subseteq Frame(Len(attempts'))
    BY <1>2, <1>6, RangesGrow
  <2>2. \A q, r \in Device : net'[q][r] \in Seq(Frame(Len(attempts')))
    BY <1>4, <2>1, SeqGrows
  <2> QED BY <1>4, <2>2 DEF NetOK
<1> QED BY <1>6, <1>7 DEF HandleOffer, presence, bounds, FlowOK, PresenceOK,
      LookupsOK, PendingOK, IncomingOK, AttemptsOK

LEMMA ResolveOfferTypes ==
  ASSUME FlowOK, NEW d \in Device, ResolveOffer(d)
  PROVE  FlowOK'
<1> DEFINE k == Len(attempts)
           w == Head(lookups[d])
           i == w.id
<1>1. /\ Answered(d, "offer")
      /\ \/ StartAnswer(d, Found(d), i)
         \/ UNCHANGED <<autoAccepted, yieldedManual, attempts>>
  BY DEF ResolveOffer
<1>2. k \in Nat /\ lookups' \in [Device -> Seq(Waiting(k))] /\ Found(d) \in Device /\ i \in 1..k
  <2>1. k \in Nat
    BY AttemptFacts DEF FlowOK
  <2>2. /\ lookups' \in [Device -> Seq(Waiting(k))] /\ w \in Waiting(k) /\ w.kind = "offer"
        /\ Found(d) \in Device
    BY <1>1, AnsweredOK
  <2> HIDE DEF w, k
  <2> QED BY <2>1, <2>2, WaitingFacts
<1> HIDE DEF w, i
<1>3. NetOK' /\ LookupsOK' /\ AttemptsOK' /\ SessionsOK' /\ MarksOK'
  <2>1. CASE StartAnswer(d, Found(d), i)
    <3>1. PICK a \in AttemptType : attempts' = Append(attempts, a)
      BY <1>2, <2>1, StartAnswerTypes
    <3>2. MarksOK'
      BY <1>2, <2>1, StartAnswerTypes DEF ResolveOffer, FlowOK, MarksOK
    <3>3. /\ attempts' \in Seq(AttemptType) /\ Len(attempts') = k + 1
          /\ net \in [Device -> [Device -> Seq(Frame(Len(attempts')))]]
          /\ SessionsOK'
      BY <3>1, AppendOK DEF ResolveOffer, SessionsOK
    <3>4. Waiting(k) \subseteq Waiting(Len(attempts'))
      BY <1>2, <3>3, RangesGrow
    <3>5. \A e \in Device : lookups'[e] \in Seq(Waiting(Len(attempts')))
      BY <1>2, <3>4, SeqGrows
    <3>6. lookups' \in [Device -> Seq(Waiting(Len(attempts')))]
      BY <1>2, <3>5
    <3> QED BY <3>2, <3>3, <3>6 DEF ResolveOffer, FlowOK, NetOK, LookupsOK, AttemptsOK
  <2>2. CASE UNCHANGED <<autoAccepted, yieldedManual, attempts>>
    BY <1>2, <2>2 DEF ResolveOffer, FlowOK, NetOK, LookupsOK, AttemptsOK, SessionsOK, MarksOK
  <2> QED BY <1>1, <2>1, <2>2
<1> QED BY <1>3 DEF ResolveOffer, presence, bounds, FlowOK, PresenceOK, PendingOK, IncomingOK

LEMMA GatheredTypes ==
  ASSUME FlowOK, NEW i \in DOMAIN attempts, Gathered(i)
  PROVE  FlowOK' /\ Len(attempts') = Len(attempts)
<1> DEFINE k == Len(attempts)
           a == attempts[i]
           m == IF a.role = "offerer" THEN Offer(i) ELSE Answer(i)
<1>1. k \in Nat /\ i \in 1..k /\ a \in AttemptType
  BY AttemptFacts DEF FlowOK
<1>2. a.dev \in Device /\ a.peer \in Device /\ m \in Frame(k)
  <2>1. Offer(i) \in Frame(k) /\ Answer(i) \in Frame(k)
    BY <1>1, FrameFacts
  <2> QED BY <1>1, <2>1 DEF AttemptType
<1>3. Send(a.dev, a.peer, m)
  BY DEF Gathered
<1>4. Len(attempts') = k /\ attempts' \in Seq(AttemptType)
  <2>1. /\ DOMAIN attempts' = DOMAIN attempts
        /\ attempts' = [j \in DOMAIN attempts |->
             IF j = i THEN [a EXCEPT !.stage = IF a.role = "offerer" THEN "listening" ELSE "securing",
                                     !.state = "connecting",
                                     !.after = IF a.role = "offerer" THEN {} ELSE Securing(a.dev)]
                      ELSE attempts[j]]
    BY <1>1, AttemptFacts DEF Gathered, FlowOK, AttemptsOK, AttemptType
  <2>2. [a EXCEPT !.stage = IF a.role = "offerer" THEN "listening" ELSE "securing",
                  !.state = "connecting",
                  !.after = IF a.role = "offerer" THEN {} ELSE Securing(a.dev)] \in AttemptType
    <3>1. Securing(a.dev) \in SUBSET Nat /\ {} \in SUBSET Nat
      BY SecuringFacts
    <3>2. a \in AttemptType
      BY <1>1
    <3> HIDE DEF a
    <3> QED BY <3>1, <3>2, AttemptChanges
  <2>3. attempts' \in [DOMAIN attempts -> AttemptType]
    <3>1. \A j \in DOMAIN attempts : attempts[j] \in AttemptType
      BY AttemptFacts DEF FlowOK
    <3> HIDE DEF a
    <3> QED BY <2>1, <2>2, <3>1
  <2> QED BY <2>1, <2>3, ChangeOK
<1> HIDE DEF m, a
<1>5. net' \in [Device -> [Device -> Seq(Frame(k))]]
  BY <1>2, <1>3, SendOK
<1> QED BY <1>4, <1>5 DEF Gathered, presence, requests, bounds, FlowOK, PresenceOK, NetOK,
      LookupsOK, PendingOK, MarksOK, IncomingOK, AttemptsOK, SessionsOK

LEMMA HandleAnswerTypes ==
  ASSUME FlowOK, NEW d \in Device, NEW p \in Device, HandleAnswer(d, p)
  PROVE  FlowOK' /\ Len(attempts') = Len(attempts)
<1> DEFINE k == Len(attempts)
           mate == Head(net[p][d]).id
<1>1. /\ net' \in [Device -> [Device -> Seq(Frame(k))]]
      /\ mate \in Nat
  <2>1. Arrived(d, p, "webrtc-answer") /\ Take(d, p)
    BY DEF HandleAnswer
  <2>2. /\ k \in Nat /\ Head(net[p][d]) \in Frame(k) /\ Head(net[p][d]).type = "webrtc-answer"
        /\ net' \in [Device -> [Device -> Seq(Frame(k))]]
    BY <2>1, TakeOK
  <2>3. mate \in 1..k
    <3> HIDE DEF k
    <3> QED BY <2>2, FramesAre
  <2> QED BY <2>2, <2>3
<1>2. attempts' = [i \in DOMAIN attempts |->
                    IF /\ attempts[i].dev = d /\ attempts[i].peer = p
                       /\ attempts[i].stage = "listening"
                      THEN [attempts[i] EXCEPT !.stage = "securing", !.mate = mate,
                                               !.after = Securing(d)]
                      ELSE attempts[i]]
  BY DEF HandleAnswer
<1> HIDE DEF mate
<1>3. attempts' \in [DOMAIN attempts -> AttemptType]
  <2>1. \A i \in DOMAIN attempts :
          /\ attempts[i] \in AttemptType
          /\ [attempts[i] EXCEPT !.stage = "securing", !.mate = mate,
                                 !.after = Securing(d)] \in AttemptType
    BY <1>1, AttemptFacts, AttemptChanges, SecuringFacts DEF FlowOK
  <2> QED BY <1>2, <2>1
<1>4. Len(attempts') = k /\ attempts' \in Seq(AttemptType)
  BY <1>3, ChangeOK
<1> QED BY <1>1, <1>4 DEF HandleAnswer, presence, requests, bounds, FlowOK, PresenceOK, NetOK,
      LookupsOK, PendingOK, MarksOK, IncomingOK, AttemptsOK, SessionsOK

LEMMA TimeoutTypes ==
  ASSUME FlowOK, NEW i \in DOMAIN attempts, Timeout(i)
  PROVE  FlowOK' /\ Len(attempts') = Len(attempts)
<1> DEFINE a == attempts[i]
<1>1. a \in AttemptType /\ a.dev \in Device /\ a.peer \in Device /\ a.manual \in BOOLEAN
  BY AttemptFacts DEF FlowOK, AttemptType
<1>2. Len(attempts') = Len(attempts) /\ attempts' \in Seq(AttemptType)
  <2>1. attempts' = [attempts EXCEPT ![i].stage = "abandoned"]
    BY DEF Timeout
  <2>2. attempts' \in [DOMAIN attempts -> AttemptType]
    BY <1>1, <2>1, AttemptFacts DEF FlowOK, AttemptType
  <2> QED BY <2>2, ChangeOK
<1>3. Finally(a.dev, a.peer, a.manual)
  BY DEF Timeout
<1> HIDE DEF a
<1>4. PendingOK' /\ MarksOK'
  BY <1>1, <1>3, FinallyTypes DEF Timeout, FlowOK, PendingOK, MarksOK
<1> QED BY <1>2, <1>4 DEF Timeout, presence, FlowOK, PresenceOK, NetOK,
      LookupsOK, IncomingOK, AttemptsOK, SessionsOK

LEMMA AttachTypes ==
  ASSUME FlowOK, NEW i \in DOMAIN attempts, Attach(i)
  PROVE  FlowOK' /\ Len(attempts') = Len(attempts)
<1> DEFINE k == Len(attempts)
           a == attempts[i]
           old == sessionsRef[a.dev][a.peer]
           to == IF a.state \in Over /\ ~(old # 0) THEN 0 ELSE i
<1>1. /\ a \in AttemptType /\ a.dev \in Device /\ a.peer \in Device /\ a.manual \in BOOLEAN
      /\ i \in 0..k
  BY AttemptFacts DEF FlowOK, AttemptType
<1>2. Len(attempts') = k /\ attempts' \in Seq(AttemptType)
  <2>1. attempts' = [l \in DOMAIN attempts |->
           IF l = i THEN [a EXCEPT !.stage = "attached"]
           ELSE [attempts[l] EXCEPT !.state = IF l = old THEN "closed" ELSE @,
                                    !.after = @ \ {i}]]
    BY DEF Attach
  <2>2. ASSUME NEW l \in DOMAIN attempts
        PROVE  /\ [attempts[l] EXCEPT !.stage = "attached"] \in AttemptType
               /\ [attempts[l] EXCEPT !.state = IF l = old THEN "closed" ELSE @,
                                      !.after = @ \ {i}] \in AttemptType
    <3>1. attempts[l] \in AttemptType
      BY AttemptFacts DEF FlowOK
    <3>2. /\ "closed" \in {"idle", "connecting", "connected"} \cup Over
          /\ attempts[l].state \in {"idle", "connecting", "connected"} \cup Over
          /\ attempts[l].after \ {i} \in SUBSET Nat
      BY <3>1 DEF AttemptType, Over
    <3> HIDE DEF old
    <3> QED BY <3>1, <3>2, AttemptChanges
  <2> HIDE DEF old
  <2>3. attempts' \in [DOMAIN attempts -> AttemptType]
    <3> HIDE DEF a
    <3>1. [a EXCEPT !.stage = "attached"] \in AttemptType
      BY <2>2 DEF a
    <3> QED BY <2>1, <2>2, <3>1
  <2> QED BY <2>3, ChangeOK
<1>3. /\ trusted' = [trusted EXCEPT ![a.dev] = @ \cup {a.peer}]
      /\ sessions' = [sessions EXCEPT ![a.dev][a.peer] = to]
      /\ \/ Finally(a.dev, a.peer, a.manual)
         \/ UNCHANGED <<pending, autoConnecting>>
  BY DEF Attach
<1>4. to \in 0..k
  BY <1>1
<1> HIDE DEF a, to, old
<1>5. PendingOK' /\ MarksOK'
  <2>1. UNCHANGED <<pendingRef, autoAccepted, yieldedManual>>
    BY DEF Attach
  <2>2. PendingOK /\ MarksOK
    BY DEF FlowOK
  <2>3. CASE Finally(attempts[i].dev, attempts[i].peer, attempts[i].manual)
    BY <1>1, <2>1, <2>2, <2>3, FinallyTypes DEF a, PendingOK, MarksOK
  <2>4. CASE UNCHANGED <<pending, autoConnecting>>
    BY <2>1, <2>2, <2>4 DEF PendingOK, MarksOK
  <2> QED BY <1>3, <2>3, <2>4 DEF a
<1>6. SessionsOK'
  <2>1. sessions' \in [Device -> [Device -> 0..k]]
    BY <1>1, <1>3, <1>4 DEF FlowOK, SessionsOK
  <2>2. sessionsRef' = sessionsRef
    BY DEF Attach
  <2> QED BY <1>2, <2>1, <2>2 DEF FlowOK, SessionsOK
<1>7. AttemptsOK'
  BY <1>1, <1>2, <1>3 DEF FlowOK, AttemptsOK
<1> QED BY <1>2, <1>5, <1>6, <1>7 DEF Attach, presence, bounds, FlowOK, PresenceOK, NetOK,
      LookupsOK, IncomingOK

LEMMA StateChangeTypes ==
  ASSUME FlowOK, NEW i \in DOMAIN attempts, NEW s \in {"connected"} \cup Over, StateChange(i, s)
  PROVE  FlowOK' /\ Len(attempts') = Len(attempts)
<1>1. attempts[i].dev \in Device /\ attempts[i].peer \in Device
  BY AttemptFacts DEF FlowOK, AttemptType
<1>2. Len(attempts') = Len(attempts) /\ attempts' \in Seq(AttemptType)
  <2>1. attempts' = [attempts EXCEPT ![i].state = s]
    BY DEF StateChange
  <2>2. attempts' = [attempts EXCEPT ![i] = [attempts[i] EXCEPT !.state = s]]
    BY <2>1
  <2>3. /\ \A l \in DOMAIN attempts : attempts[l] \in AttemptType
        /\ [attempts[i] EXCEPT !.state = s] \in AttemptType
        /\ attempts \in [DOMAIN attempts -> AttemptType]
    BY AttemptFacts, AttemptChanges DEF FlowOK, AttemptsOK
  <2>4. attempts' \in [DOMAIN attempts -> AttemptType]
    BY <2>2, <2>3
  <2> QED BY <2>4, ChangeOK
<1>3. /\ 0 \in 0..Len(attempts)
      /\ \/ sessions' = sessions
         \/ sessions' = [sessions EXCEPT ![attempts[i].dev][attempts[i].peer] = 0]
  BY AttemptFacts DEF StateChange, FlowOK
<1>4. SessionsOK'
  BY <1>1, <1>2, <1>3 DEF StateChange, FlowOK, SessionsOK
<1> QED BY <1>2, <1>4 DEF StateChange, presence, requests, FlowOK, PresenceOK, NetOK,
      LookupsOK, PendingOK, MarksOK, IncomingOK, AttemptsOK

LEMMA ClickDisconnectTypes ==
  ASSUME FlowOK, NEW d \in Device, NEW p \in Device, ClickDisconnect(d, p)
  PROVE  FlowOK' /\ Len(attempts') = Len(attempts)
<1> DEFINE i == sessionsRef[d][p]
<1>1. i \in DOMAIN attempts
  <2>1. i \in 0..Len(attempts) /\ i # 0
    BY DEF ClickDisconnect, FlowOK, SessionsOK
  <2> HIDE DEF i
  <2> QED BY <2>1, AttemptFacts DEF FlowOK
<1>2. attempts' = [attempts EXCEPT ![i].state = "closed"]
  BY DEF ClickDisconnect
<1> HIDE DEF i
<1>3. Len(attempts') = Len(attempts) /\ attempts' \in Seq(AttemptType)
  <2>1. attempts' = [attempts EXCEPT ![i] = [attempts[i] EXCEPT !.state = "closed"]]
    BY <1>2
  <2>2. /\ \A l \in DOMAIN attempts : attempts[l] \in AttemptType
        /\ [attempts[i] EXCEPT !.state = "closed"] \in AttemptType
        /\ attempts \in [DOMAIN attempts -> AttemptType]
    BY <1>1, AttemptFacts, AttemptChanges DEF FlowOK, AttemptsOK, Over
  <2>3. attempts' \in [DOMAIN attempts -> AttemptType]
    BY <1>1, <2>1, <2>2
  <2> QED BY <2>3, ChangeOK
<1>4. SessionsOK'
  <2>1. 0 \in 0..Len(attempts)
    BY AttemptFacts DEF FlowOK
  <2> QED BY <1>3, <2>1 DEF ClickDisconnect, FlowOK, SessionsOK
<1>5. clicks' \in Nat
  BY DEF ClickDisconnect, FlowOK
<1> QED BY <1>3, <1>4, <1>5 DEF ClickDisconnect, presence, requests, FlowOK, PresenceOK, NetOK,
      LookupsOK, PendingOK, MarksOK, IncomingOK, AttemptsOK

LEMMA RenderTypes ==
  ASSUME FlowOK, NEW d \in Device, Render(d)
  PROVE  FlowOK'
BY DEF Render, bounds, FlowOK, PresenceOK, NetOK, LookupsOK, PendingOK, MarksOK, IncomingOK,
       AttemptsOK, SessionsOK

LEMMA FlowTypesKept ==
  ASSUME FlowOK, [FlowNext]_flow
  PROVE  FlowOK'
<1> DEFINE k == Len(attempts)
<1>1. /\ Rejected \in Frame(k) /\ Accepted("popup") \in Frame(k)
  BY AttemptFacts, FrameFacts DEF FlowOK, Hows, AnyHow
<1>2. ASSUME NEW d \in Device, NEW p \in Device, Messages(d, p) PROVE FlowOK'
  BY <1>2, PresenceTypes, HandleRequestTypes, HandleAcceptedTypes, HandleRejectedTypes,
     HandleOfferTypes, HandleAnswerTypes DEF Messages
<1>3. ASSUME NEW d \in Device, Continuations(d) \/ Render(d) PROVE FlowOK'
  BY <1>3, AutoConnectTypes, DecideRequestTypes, ResolveAcceptedTypes, ResolveOfferTypes,
     RenderTypes DEF Continuations
<1>4. ASSUME NEW i \in DOMAIN attempts, Progress(i) PROVE FlowOK'
  BY <1>4, GatheredTypes, TimeoutTypes, AttachTypes, StateChangeTypes
     DEF Progress, Opens, Closes, Fails, Over
<1>5. ASSUME Users PROVE FlowOK'
  BY <1>1, <1>5, AnswerPopupTypes, ClickConnectTypes, ClickDisconnectTypes
     DEF Users, AcceptRequest, RejectRequest
<1>6. ASSUME Environment PROVE FlowOK'
  BY <1>6, GoOnlineTypes, DropTypes, PresenceTypes, StateChangeTypes
     DEF Environment, LinkLost, Recovers, Over
<1>7. ASSUME UNCHANGED flow PROVE FlowOK'
  BY <1>7 DEF flow, presence, requests, connected, bounds, FlowOK, PresenceOK, NetOK,
     LookupsOK, PendingOK, MarksOK, IncomingOK, AttemptsOK, SessionsOK
<1> QED BY <1>2, <1>3, <1>4, <1>5, <1>6, <1>7 DEF FlowNext

LEMMA FlowStarts == FlowInit => FlowOK
<1> SUFFICES ASSUME FlowInit PROVE FlowOK
  OBVIOUS
<1>1. attempts = <<>> /\ Len(attempts) = 0 /\ \A S : <<>> \in Seq(S)
  BY EmptySeq DEF FlowInit
<1>2. IsInjective(<<>>)
  BY DEF IsInjective
<1>3. IncomingOK
  BY <1>1, <1>2 DEF FlowInit, IncomingOK
<1>4. SessionsOK
  BY <1>1 DEF FlowInit, SessionsOK
<1>5. NetOK /\ LookupsOK
  BY <1>1 DEF FlowInit, NetOK, LookupsOK
<1>6. AttemptsOK
  BY <1>1, FlowAssumption DEF FlowInit, AttemptsOK
<1> QED BY <1>3, <1>4, <1>5, <1>6 DEF FlowInit, FlowOK, PresenceOK, PendingOK, MarksOK

LEMMA FlowOKHolds == FlowSpec => []FlowOK
<1>1. FlowInit => FlowOK
  BY FlowStarts
<1>2. FlowOK /\ [FlowNext]_flow => FlowOK'
  BY FlowTypesKept
<1> QED BY <1>1, <1>2, PTL DEF FlowSpec

\* The variables have their types, references to attempts exist, and no
\* browser has two requests in the popup, however many browsers there are.
THEOREM FlowTypeCorrect == FlowSpec => []FlowTypeOK
<1>1. FlowOK => FlowTypeOK
  <2> SUFFICES ASSUME FlowOK PROVE FlowTypeOK
    OBVIOUS
  <2>1. Len(attempts) \in Nat
    BY AttemptFacts DEF FlowOK
  <2>2. \A p, d \in Device : \A n \in DOMAIN net[p][d] :
          net[p][d][n].type \in {"peer-joined", "peer-left", "connect-request",
            "connect-accepted", "connect-rejected", "webrtc-offer", "webrtc-answer"}
    <3> TAKE p, d \in Device
    <3> TAKE n \in DOMAIN net[p][d]
    <3>1. net[p][d] \in Seq(Frame(Len(attempts)))
      BY DEF FlowOK, NetOK
    <3>2. net[p][d][n] \in Frame(Len(attempts))
      BY <3>1, LenProperties, ElementOfSeq
    <3> QED BY <2>1, <3>2, FramesAre
  <2>3. \A d \in Device : \A n \in DOMAIN lookups[d] :
          lookups[d][n].kind \in {"peers", "request", "accepted", "offer"}
    <3> TAKE d \in Device
    <3> TAKE n \in DOMAIN lookups[d]
    <3>1. lookups[d] \in Seq(Waiting(Len(attempts)))
      BY DEF FlowOK, LookupsOK
    <3>2. lookups[d][n] \in Waiting(Len(attempts))
      BY <3>1, LenProperties, ElementOfSeq
    <3> QED BY <2>1, <3>2, WaitingFacts
  <2>4. ToSet(attempts) \subseteq AttemptType
    BY AttemptFacts DEF ToSet, FlowOK
  <2> QED BY <2>2, <2>3, <2>4 DEF FlowTypeOK, FlowOK, PresenceOK, PendingOK, MarksOK,
        IncomingOK, AttemptsOK, SessionsOK
<1> QED BY <1>1, FlowOKHolds, PTL

-----------------------------------------------------------------------------
(* Without clicks: who asks whom.                                          *)

NothingPending ==
  \A d \in Device : pending[d] = 0 /\ pendingRef[d] = 0 /\ yieldedManual[d] = {}

AutoUp == \A d \in Device : \A p \in autoConnecting[d] : d < p

FramesUp ==
  \A d, p \in Device : \A m \in ToSet(net[d][p]) :
    /\ m.type \in {"connect-request", "webrtc-offer"} => d < p
    /\ m.type \in {"connect-accepted", "connect-rejected"} => p < d

LookupsUp ==
  \A d \in Device : \A w \in ToSet(lookups[d]) :
    /\ w.kind \in {"peers", "accepted"} => d < w.peer
    /\ w.kind \in {"request", "offer"} => w.peer < d
    /\ w.kind = "accepted" => w.manual = FALSE

PopupsUp == \A d \in Device : \A p \in ToSet(incoming[d]) : p < d

OffersUp ==
  \A i \in DOMAIN attempts : attempts[i].role = "offerer" =>
    attempts[i].dev < attempts[i].peer /\ attempts[i].manual = FALSE

\* If nobody clicks, the lower of two browsers asks and makes the offer, and
\* the higher one decides and answers.
LowerAsks == NothingPending /\ AutoUp /\ FramesUp /\ LookupsUp /\ PopupsUp /\ OffersUp

Calls == {"connect-request", "connect-accepted", "connect-rejected", "webrtc-offer"}

\* Frames of a kind are under way once, and an offer is before a request.
FramesOnce(s) ==
  \A m, n \in DOMAIN s : m < n =>
    /\ ~(s[m].type \in Calls /\ s[m].type = s[n].type)
    /\ ~(s[m].type = "connect-request" /\ s[n].type = "webrtc-offer")

LookupsOnce(s) ==
  \A m, n \in DOMAIN s : m < n /\ s[m].peer = s[n].peer =>
    /\ ~(s[m].kind # "peers" /\ s[m].kind = s[n].kind)
    /\ ~(s[m].kind = "request" /\ s[n].kind = "offer")

QueuesOnce ==
  /\ \A d, p \in Device : FramesOnce(net[d][p])
  /\ \A d \in Device : LookupsOnce(lookups[d])

\* Attempt i is a's to connect to b and has not come to its end.
Offering(i, a, b) ==
  /\ attempts[i].role = "offerer" /\ attempts[i].dev = a /\ attempts[i].peer = b
  /\ UnderWay(i)

\* How far the request of a to b has come.
At(x, a, b) ==
  \/ x = "requested" /\ \E m \in ToSet(net[a][b]) : m.type = "connect-request"
  \/ x = "asked" /\ \E w \in ToSet(lookups[b]) : w.kind = "request" /\ w.peer = a
  \/ x = "shown" /\ a \in ToSet(incoming[b])
  \/ x = "refused" /\ \E m \in ToSet(net[b][a]) : m.type = "connect-rejected"
  \/ x = "granted" /\ \E m \in ToSet(net[b][a]) : m.type = "connect-accepted"
  \/ x = "awaited" /\ \E w \in ToSet(lookups[a]) : w.kind = "accepted" /\ w.peer = b
  \/ x = "offering" /\ \E i \in DOMAIN attempts : Offering(i, a, b)

\* It is in one place at a time, and marked as under way.
OneStep(a, b) ==
  /\ \A x, y : At(x, a, b) /\ At(y, a, b) => x = y
  /\ \A x : At(x, a, b) => b \in autoConnecting[a]
  /\ \A i, j \in DOMAIN attempts : Offering(i, a, b) /\ Offering(j, a, b) => i = j

OfferSent(a, b) == \E m \in ToSet(net[a][b]) : m.type = "webrtc-offer"
OfferWaits(a, b) == \E w \in ToSet(lookups[b]) : w.kind = "offer" /\ w.peer = a
Gathering(a, b) == \E i \in DOMAIN attempts : Offering(i, a, b) /\ attempts[i].stage = "gathering"

\* The offer of an earlier attempt is handled before the next request.
OfferFirst(a, b) ==
  /\ ~(OfferSent(a, b) /\ OfferWaits(a, b))
  /\ At("asked", a, b) => ~OfferSent(a, b)
  /\ OfferSent(a, b) \/ OfferWaits(a, b) =>
       ~At("shown", a, b) /\ ~At("granted", a, b) /\ ~At("awaited", a, b) /\ ~Gathering(a, b)

\* The accept that was given as how is under way to an answer.
Promised(how, a, b) ==
  \/ \E m \in ToSet(net[b][a]) : m.type = "connect-accepted" /\ m.how = how
  \/ \E w \in ToSet(lookups[a]) : w.kind = "accepted" /\ w.peer = b /\ w.how = how
  \/ \E i \in DOMAIN attempts :
       Offering(i, a, b) /\ attempts[i].stage = "gathering" /\ attempts[i].how = how
  \/ \E m \in ToSet(net[a][b]) : m.type = "webrtc-offer" /\ attempts[m.id].how = how
  \/ \E w \in ToSet(lookups[b]) :
       w.kind = "offer" /\ w.peer = a /\ attempts[w.id].how = how

\* The mark of a silent accept is there exactly if one is under way.
MarkTrue(a, b) ==
  /\ a \in autoAccepted[b] => b \in AutoOn /\ a \in trusted[b] /\ ~At("shown", a, b)
  /\ \A how : Promised(how, a, b) => (how = "auto" <=> a \in autoAccepted[b])

PairOK(a, b) == OneStep(a, b) /\ OfferFirst(a, b) /\ MarkTrue(a, b)

PairsOK == \A a, b \in Device : a < b => PairOK(a, b)

QuietInv == FlowOK /\ LowerAsks /\ QueuesOnce /\ PairsOK /\ AutoAcceptIsSilent

-----------------------------------------------------------------------------
(* What is in the queues.                                                  *)

LEMMA InFacts ==
  ASSUME NEW S, NEW s \in Seq(S)
  PROVE  /\ Len(s) \in Nat /\ DOMAIN s = 1..Len(s)
         /\ \A n \in DOMAIN s : n \in Nat /\ s[n] \in S /\ s[n] \in ToSet(s)
         /\ \A x \in ToSet(s) : x \in S /\ \E n \in DOMAIN s : s[n] = x
BY LenProperties, ElementOfSeq DEF ToSet

LEMMA TailFacts ==
  ASSUME NEW S, NEW s \in Seq(S), s # <<>>
  PROVE  /\ Tail(s) \in Seq(S) /\ ToSet(Tail(s)) \subseteq ToSet(s)
         /\ Head(s) = s[1] /\ 1 \in DOMAIN s /\ Head(s) \in ToSet(s)
         /\ \A n \in DOMAIN Tail(s) : /\ n \in Nat /\ n + 1 \in DOMAIN s
                                      /\ Tail(s)[n] = s[n + 1] /\ 1 < n + 1
<1>1. /\ Tail(s) \in Seq(S) /\ Len(Tail(s)) = Len(s) - 1
      /\ \A n \in 1..Len(Tail(s)) : Tail(s)[n] = s[n + 1]
  BY HeadTailProperties
<1>2. Len(s) \in Nat /\ Len(s) # 0 /\ DOMAIN s = 1..Len(s)
  BY LenProperties, EmptySeq
<1>3. DOMAIN Tail(s) = 1..(Len(s) - 1)
  BY <1>1, LenProperties
<1>4. Head(s) = s[1] /\ 1 \in DOMAIN s
  BY <1>2
<1>5. \A n \in DOMAIN Tail(s) : n \in Nat /\ n + 1 \in DOMAIN s /\ Tail(s)[n] = s[n + 1] /\ 1 < n + 1
  BY <1>1, <1>2, <1>3
<1> QED BY <1>1, <1>4, <1>5 DEF ToSet

LEMMA AddFacts ==
  ASSUME NEW S, NEW s \in Seq(S), NEW t \in Seq(S)
  PROVE  /\ s \o t \in Seq(S) /\ ToSet(s \o t) = ToSet(s) \cup ToSet(t)
         /\ \A n \in DOMAIN (s \o t) :
              /\ n \in Nat
              /\ \/ n \in DOMAIN s /\ (s \o t)[n] = s[n]
                 \/ /\ n \notin DOMAIN s /\ n - Len(s) \in DOMAIN t
                    /\ (s \o t)[n] = t[n - Len(s)] /\ \A m \in DOMAIN s : m < n
<1>1. /\ s \o t \in Seq(S) /\ Len(s \o t) = Len(s) + Len(t)
      /\ \A i \in 1..(Len(s) + Len(t)) : (s \o t)[i] = IF i <= Len(s) THEN s[i] ELSE t[i - Len(s)]
  BY ConcatProperties
<1>2. /\ Len(s) \in Nat /\ Len(t) \in Nat /\ DOMAIN s = 1..Len(s) /\ DOMAIN t = 1..Len(t)
      /\ DOMAIN (s \o t) = 1..(Len(s) + Len(t))
  BY <1>1, LenProperties
<1>3. \A n \in DOMAIN (s \o t) :
        /\ n \in Nat
        /\ \/ n \in DOMAIN s /\ (s \o t)[n] = s[n]
           \/ /\ n \notin DOMAIN s /\ n - Len(s) \in DOMAIN t
              /\ (s \o t)[n] = t[n - Len(s)] /\ \A m \in DOMAIN s : m < n
  BY <1>1, <1>2
<1>4. \A n \in DOMAIN s : n \in DOMAIN (s \o t) /\ (s \o t)[n] = s[n]
  BY <1>1, <1>2
<1>5. \A n \in DOMAIN t : n + Len(s) \in DOMAIN (s \o t) /\ (s \o t)[n + Len(s)] = t[n]
  BY <1>1, <1>2
<1> HIDE <1>1, <1>2
<1>6. \A x \in ToSet(s \o t) : x \in ToSet(s) \cup ToSet(t)
  BY <1>3 DEF ToSet
<1>7. \A x \in ToSet(s) \cup ToSet(t) : x \in ToSet(s \o t)
  BY <1>4, <1>5 DEF ToSet
<1> QED BY <1>1, <1>3, <1>6, <1>7

LEMMA AppendFacts ==
  ASSUME NEW S, NEW s \in Seq(S), NEW x \in S
  PROVE  /\ Append(s, x) \in Seq(S) /\ ToSet(Append(s, x)) = ToSet(s) \cup {x}
         /\ \A n \in DOMAIN Append(s, x) :
              /\ n \in Nat
              /\ \/ n \in DOMAIN s /\ Append(s, x)[n] = s[n]
                 \/ /\ n = Len(s) + 1 /\ n \notin DOMAIN s /\ Append(s, x)[n] = x
                    /\ \A m \in DOMAIN s : m < n
<1>1. /\ Append(s, x) \in Seq(S) /\ Len(Append(s, x)) = Len(s) + 1
      /\ \A i \in 1..Len(s) : Append(s, x)[i] = s[i]
      /\ Append(s, x)[Len(s) + 1] = x
  BY AppendProperties
<1>2. /\ Len(s) \in Nat /\ DOMAIN s = 1..Len(s)
      /\ DOMAIN Append(s, x) = 1..(Len(s) + 1)
  BY <1>1, LenProperties
<1>3. \A n \in DOMAIN Append(s, x) :
        /\ n \in Nat
        /\ \/ n \in DOMAIN s /\ Append(s, x)[n] = s[n]
           \/ /\ n = Len(s) + 1 /\ n \notin DOMAIN s /\ Append(s, x)[n] = x
                    /\ \A m \in DOMAIN s : m < n
  BY <1>1, <1>2
<1>4. /\ \A n \in DOMAIN s : n \in DOMAIN Append(s, x) /\ Append(s, x)[n] = s[n]
      /\ \E n \in DOMAIN Append(s, x) : Append(s, x)[n] = x
  BY <1>1, <1>2
<1>5. \A y \in ToSet(Append(s, x)) : y \in ToSet(s) \cup {x}
  BY <1>3 DEF ToSet
<1>6. \A y \in ToSet(s) \cup {x} : y \in ToSet(Append(s, x))
  BY <1>4 DEF ToSet
<1> QED BY <1>1, <1>3, <1>5, <1>6

\* Taking the first frame of a queue.
LEMMA FramesTaken ==
  ASSUME NEW S, NEW s \in Seq(S), s # <<>>, FramesOnce(s)
  PROVE  /\ FramesOnce(Tail(s))
         /\ Head(s).type \in Calls => \A m \in ToSet(Tail(s)) : m.type # Head(s).type
         /\ Head(s).type = "connect-request" =>
              \A m \in ToSet(Tail(s)) : m.type # "webrtc-offer"
<1>1. \A n \in DOMAIN Tail(s) : /\ n \in Nat /\ n + 1 \in DOMAIN s
                                /\ Tail(s)[n] = s[n + 1] /\ 1 < n + 1
  BY TailFacts
<1>2. Head(s) = s[1] /\ 1 \in DOMAIN s
  BY TailFacts
<1>3. FramesOnce(Tail(s))
  <2> SUFFICES ASSUME NEW m \in DOMAIN Tail(s), NEW n \in DOMAIN Tail(s), m < n
               PROVE  /\ ~(Tail(s)[m].type \in Calls /\ Tail(s)[m].type = Tail(s)[n].type)
                      /\ ~(Tail(s)[m].type = "connect-request" /\ Tail(s)[n].type = "webrtc-offer")
    BY DEF FramesOnce
  <2>1. m + 1 < n + 1
    BY <1>1
  <2> QED BY <1>1, <2>1 DEF FramesOnce
<1>4. \A n \in DOMAIN Tail(s) :
        /\ ~(Head(s).type \in Calls /\ Head(s).type = Tail(s)[n].type)
        /\ ~(Head(s).type = "connect-request" /\ Tail(s)[n].type = "webrtc-offer")
  BY <1>1, <1>2 DEF FramesOnce
<1> QED BY <1>3, <1>4 DEF ToSet

\* Adding a frame that is no call or of a kind that is not under way.
LEMMA FramesAdded ==
  ASSUME NEW S, NEW s \in Seq(S), FramesOnce(s), NEW x \in S,
         x.type \in Calls => \A m \in ToSet(s) : m.type # x.type,
         x.type = "webrtc-offer" => \A m \in ToSet(s) : m.type # "connect-request"
  PROVE  FramesOnce(Append(s, x))
<1> DEFINE t == Append(s, x)
<1>1. \A n \in DOMAIN t : /\ n \in Nat
                          /\ \/ n \in DOMAIN s /\ t[n] = s[n]
                             \/ /\ n = Len(s) + 1 /\ n \notin DOMAIN s /\ t[n] = x
                                /\ \A m \in DOMAIN s : m < n
  BY AppendFacts
<1>2. \A n \in DOMAIN s : s[n] \in ToSet(s) /\ n \in Nat
  BY InFacts
<1> HIDE DEF t
<1> SUFFICES ASSUME NEW m \in DOMAIN t, NEW n \in DOMAIN t, m < n
             PROVE  /\ ~(t[m].type \in Calls /\ t[m].type = t[n].type)
                    /\ ~(t[m].type = "connect-request" /\ t[n].type = "webrtc-offer")
  BY DEF FramesOnce, t
<1>3. CASE n \in DOMAIN s
  <2>1. m \in DOMAIN s
    BY <1>1, <1>3
  <2> QED BY <1>1, <1>3, <2>1 DEF FramesOnce
<1>4. CASE n \notin DOMAIN s /\ m \in DOMAIN s
  BY <1>1, <1>2, <1>4
<1>5. CASE n \notin DOMAIN s /\ m \notin DOMAIN s
  BY <1>1, <1>5
<1> QED BY <1>3, <1>4, <1>5

\* The same for lookups.
LEMMA LookupsTaken ==
  ASSUME NEW S, NEW s \in Seq(S), s # <<>>, LookupsOnce(s)
  PROVE  /\ LookupsOnce(Tail(s))
         /\ \A w \in ToSet(Tail(s)) : w.peer = Head(s).peer =>
              /\ Head(s).kind # "peers" => w.kind # Head(s).kind
              /\ Head(s).kind = "request" => w.kind # "offer"
<1>1. \A n \in DOMAIN Tail(s) : /\ n \in Nat /\ n + 1 \in DOMAIN s
                                /\ Tail(s)[n] = s[n + 1] /\ 1 < n + 1
  BY TailFacts
<1>2. Head(s) = s[1] /\ 1 \in DOMAIN s
  BY TailFacts
<1>3. LookupsOnce(Tail(s))
  <2> SUFFICES ASSUME NEW m \in DOMAIN Tail(s), NEW n \in DOMAIN Tail(s), m < n,
                      Tail(s)[m].peer = Tail(s)[n].peer
               PROVE  /\ ~(Tail(s)[m].kind # "peers" /\ Tail(s)[m].kind = Tail(s)[n].kind)
                      /\ ~(Tail(s)[m].kind = "request" /\ Tail(s)[n].kind = "offer")
    BY DEF LookupsOnce
  <2>1. m + 1 < n + 1
    BY <1>1
  <2> QED BY <1>1, <2>1 DEF LookupsOnce
<1>4. \A n \in DOMAIN Tail(s) : Tail(s)[n].peer = Head(s).peer =>
        /\ Head(s).kind # "peers" => Tail(s)[n].kind # Head(s).kind
        /\ Head(s).kind = "request" => Tail(s)[n].kind # "offer"
  BY <1>1, <1>2 DEF LookupsOnce
<1> QED BY <1>3, <1>4 DEF ToSet

LEMMA LookupAdded ==
  ASSUME NEW S, NEW s \in Seq(S), LookupsOnce(s), NEW x \in S,
         \A w \in ToSet(s) : w.peer = x.peer =>
           /\ x.kind # "peers" => w.kind # x.kind
           /\ x.kind = "offer" => w.kind # "request"
  PROVE  LookupsOnce(Append(s, x))
<1> DEFINE t == Append(s, x)
<1>1. \A n \in DOMAIN t : /\ n \in Nat
                          /\ \/ n \in DOMAIN s /\ t[n] = s[n]
                             \/ /\ n = Len(s) + 1 /\ n \notin DOMAIN s /\ t[n] = x
                                /\ \A m \in DOMAIN s : m < n
  BY AppendFacts
<1>2. \A n \in DOMAIN s : s[n] \in ToSet(s) /\ n \in Nat
  BY InFacts
<1> HIDE DEF t
<1> SUFFICES ASSUME NEW m \in DOMAIN t, NEW n \in DOMAIN t, m < n, t[m].peer = t[n].peer
             PROVE  /\ ~(t[m].kind # "peers" /\ t[m].kind = t[n].kind)
                    /\ ~(t[m].kind = "request" /\ t[n].kind = "offer")
  BY DEF LookupsOnce, t
<1>3. CASE n \in DOMAIN s
  <2>1. m \in DOMAIN s
    BY <1>1, <1>3
  <2> QED BY <1>1, <1>3, <2>1 DEF LookupsOnce
<1>4. CASE n \notin DOMAIN s /\ m \in DOMAIN s
  BY <1>1, <1>2, <1>4
<1>5. CASE n \notin DOMAIN s /\ m \notin DOMAIN s
  BY <1>1, <1>5
<1> QED BY <1>3, <1>4, <1>5

LEMMA ListAdded ==
  ASSUME NEW S, NEW s \in Seq(S), LookupsOnce(s), NEW more \in Seq(S),
         \A w \in ToSet(more) : w.kind = "peers"
  PROVE  LookupsOnce(s \o more)
<1> DEFINE t == s \o more
<1>1. \A n \in DOMAIN t :
        /\ n \in Nat
        /\ \/ n \in DOMAIN s /\ t[n] = s[n]
           \/ /\ n \notin DOMAIN s /\ n - Len(s) \in DOMAIN more
              /\ t[n] = more[n - Len(s)] /\ \A m \in DOMAIN s : m < n
  BY AddFacts
<1>2. \A n \in DOMAIN more : more[n].kind = "peers"
  BY InFacts
<1>3. \A n \in DOMAIN s : n \in Nat
  BY InFacts
<1> HIDE DEF t
<1> SUFFICES ASSUME NEW m \in DOMAIN t, NEW n \in DOMAIN t, m < n, t[m].peer = t[n].peer
             PROVE  /\ ~(t[m].kind # "peers" /\ t[m].kind = t[n].kind)
                    /\ ~(t[m].kind = "request" /\ t[n].kind = "offer")
  BY DEF LookupsOnce, t
<1>4. CASE n \in DOMAIN s
  <2>1. m \in DOMAIN s
    BY <1>1, <1>3, <1>4
  <2> QED BY <1>1, <1>4, <2>1 DEF LookupsOnce
<1>5. CASE n \notin DOMAIN s
  <2>1. t[n].kind = "peers"
    BY <1>1, <1>2, <1>5
  <2> QED BY <2>1
<1> QED BY <1>4, <1>5

\* A browser reads a frame.
LEMMA TakeEffect ==
  ASSUME FlowOK, QueuesOnce, NEW d \in Device, NEW p \in Device, NEW type,
         Arrived(d, p, type), Take(d, p)
  PROVE  /\ \A q, r \in Device : /\ ToSet(net'[q][r]) \subseteq ToSet(net[q][r])
                                 /\ FramesOnce(net'[q][r])
         /\ Head(net[p][d]) \in ToSet(net[p][d]) /\ Head(net[p][d]).type = type
         /\ type \in Calls => \A m \in ToSet(net'[p][d]) : m.type # type
         /\ type = "connect-request" => \A m \in ToSet(net'[p][d]) : m.type # "webrtc-offer"
<1>1. /\ net[p][d] \in Seq(Frame(Len(attempts))) /\ net[p][d] # <<>> /\ FramesOnce(net[p][d])
      /\ Head(net[p][d]).type = type
  BY DEF FlowOK, NetOK, QueuesOnce, Arrived
<1>2. \A q, r \in Device : net'[q][r] = IF q = p /\ r = d THEN Tail(net[p][d]) ELSE net[q][r]
  BY DEF Take, FlowOK, NetOK
<1>3. /\ ToSet(Tail(net[p][d])) \subseteq ToSet(net[p][d]) /\ Head(net[p][d]) \in ToSet(net[p][d])
      /\ FramesOnce(Tail(net[p][d]))
      /\ type \in Calls => \A m \in ToSet(Tail(net[p][d])) : m.type # type
      /\ type = "connect-request" => \A m \in ToSet(Tail(net[p][d])) : m.type # "webrtc-offer"
  BY <1>1, TailFacts, FramesTaken
<1> QED BY <1>1, <1>2, <1>3 DEF QueuesOnce

\* No call like m is on its way, and no request that an offer would overtake.
Fresh(s, m) ==
  /\ m.type \in Calls => \A x \in ToSet(s) : x.type # m.type
  /\ m.type = "webrtc-offer" => \A x \in ToSet(s) : x.type # "connect-request"

\* A browser sends one.
LEMMA SendEffect ==
  ASSUME FlowOK, QueuesOnce, NEW d \in Device, NEW p \in Device, NEW m \in Frame(Len(attempts)),
         Send(d, p, m)
  PROVE  /\ \A q, r \in Device : \A x \in ToSet(net'[q][r]) :
              x \in ToSet(net[q][r]) \/ (q = d /\ r = p /\ x = m)
         /\ Fresh(net[d][p], m) => \A q, r \in Device : FramesOnce(net'[q][r])
<1> DEFINE S == Frame(Len(attempts))
<1>1. net[d][p] \in Seq(S) /\ FramesOnce(net[d][p])
  BY DEF FlowOK, NetOK, QueuesOnce
<1>2. \A q, r \in Device : net'[q][r] = IF q = d /\ r = p THEN net[d][p] \o Relayed(d, p, m)
                                                          ELSE net[q][r]
  BY DEF Send, FlowOK, NetOK
<1>3. CASE {d, p} \subseteq online
  <2>1. net[d][p] \o Relayed(d, p, m) = Append(net[d][p], m)
    BY <1>1, <1>3, AppendIsConcat DEF Relayed
  <2>2. ToSet(Append(net[d][p], m)) = ToSet(net[d][p]) \cup {m}
    BY <1>1, AppendFacts
  <2>3. Fresh(net[d][p], m) => FramesOnce(Append(net[d][p], m))
    BY <1>1, FramesAdded DEF Fresh
  <2> QED BY <1>2, <2>1, <2>2, <2>3 DEF QueuesOnce
<1>4. CASE ~({d, p} \subseteq online)
  <2>1. net[d][p] \o Relayed(d, p, m) = net[d][p]
    BY <1>1, <1>4, ConcatEmptySeq DEF Relayed
  <2> QED BY <1>2, <2>1 DEF QueuesOnce
<1> QED BY <1>3, <1>4

\* The frame that is new.
OnlyNew(d, p, m) ==
  \A q, r \in Device : \A x \in ToSet(net'[q][r]) :
    x \in ToSet(net[q][r]) \/ (q = d /\ r = p /\ x = m)

LEMMA SentOnly ==
  ASSUME FlowOK, QueuesOnce, NEW d \in Device, NEW p \in Device, NEW m \in Frame(Len(attempts)),
         Send(d, p, m)
  PROVE  OnlyNew(d, p, m)
BY SendEffect DEF OnlyNew

\* The first lookup is answered.
LEMMA AnsweredEffect ==
  ASSUME FlowOK, QueuesOnce, NEW d \in Device, NEW kind, Answered(d, kind)
  PROVE  /\ \A e \in Device : /\ ToSet(lookups'[e]) \subseteq ToSet(lookups[e])
                              /\ LookupsOnce(lookups'[e])
         /\ Head(lookups[d]) \in ToSet(lookups[d]) /\ Head(lookups[d]).kind = kind
         /\ \A w \in ToSet(lookups'[d]) : w.peer = Found(d) =>
              /\ kind # "peers" => w.kind # kind
              /\ kind = "request" => w.kind # "offer"
<1>1. /\ lookups[d] \in Seq(Waiting(Len(attempts))) /\ lookups[d] # <<>>
      /\ LookupsOnce(lookups[d]) /\ Head(lookups[d]).kind = kind
  BY DEF FlowOK, LookupsOK, QueuesOnce, Answered
<1>2. \A e \in Device : lookups'[e] = IF e = d THEN Tail(lookups[d]) ELSE lookups[e]
  BY DEF Answered, FlowOK, LookupsOK
<1>3. /\ ToSet(Tail(lookups[d])) \subseteq ToSet(lookups[d]) /\ Head(lookups[d]) \in ToSet(lookups[d])
      /\ LookupsOnce(Tail(lookups[d]))
      /\ \A w \in ToSet(Tail(lookups[d])) : w.peer = Found(d) =>
           /\ kind # "peers" => w.kind # kind
           /\ kind = "request" => w.kind # "offer"
  BY <1>1, TailFacts, LookupsTaken DEF Found
<1> QED BY <1>1, <1>2, <1>3 DEF QueuesOnce

\* A handler waits for one.
LEMMA WaitEffect ==
  ASSUME FlowOK, QueuesOnce, NEW d \in Device, NEW w \in Waiting(Len(attempts)),
         lookups' = [lookups EXCEPT ![d] = Append(@, w)]
  PROVE  /\ \A e \in Device : \A x \in ToSet(lookups'[e]) :
              x \in ToSet(lookups[e]) \/ (e = d /\ x = w)
         /\ (\A x \in ToSet(lookups[d]) : x.peer = w.peer =>
               /\ w.kind # "peers" => x.kind # w.kind
               /\ w.kind = "offer" => x.kind # "request")
            => \A e \in Device : LookupsOnce(lookups'[e])
<1> DEFINE S == Waiting(Len(attempts))
<1>1. lookups[d] \in Seq(S) /\ LookupsOnce(lookups[d])
  BY DEF FlowOK, LookupsOK, QueuesOnce
<1>2. \A e \in Device : lookups'[e] = IF e = d THEN Append(lookups[d], w) ELSE lookups[e]
  BY DEF FlowOK, LookupsOK
<1>3. ToSet(Append(lookups[d], w)) = ToSet(lookups[d]) \cup {w}
  BY <1>1, AppendFacts
<1>4. (\A x \in ToSet(lookups[d]) : x.peer = w.peer =>
         /\ w.kind # "peers" => x.kind # w.kind
         /\ w.kind = "offer" => x.kind # "request")
      => LookupsOnce(Append(lookups[d], w))
  BY <1>1, LookupAdded
<1> HIDE DEF S
<1> QED BY <1>2, <1>3, <1>4 DEF QueuesOnce

\* A list of peers is looked up.
LEMMA ListEffect ==
  ASSUME FlowOK, QueuesOnce, NEW d \in Device, NEW list \in SUBSET Device,
         PeersChanged(d, list)
  PROVE  /\ \A e \in Device : LookupsOnce(lookups'[e])
         /\ \A e \in Device : \A x \in ToSet(lookups'[e]) :
              x \in ToSet(lookups[e]) \/ (e = d /\ x.kind = "peers" /\ d < x.peer)
<1> DEFINE asks == [kind : {"peers"}, peer : {q \in Device : Eligible(d, q)}]
<1>1. PICK more \in Seq(asks) : lookups' = [lookups EXCEPT ![d] = @ \o more]
  BY PeersChangedOK
<1>2. asks \subseteq Waiting(Len(attempts))
  BY DEF Waiting
<1>3. \A w \in asks : w.kind = "peers" /\ d < w.peer
  BY DEF Eligible
<1> HIDE DEF asks
<1>4. more \in Seq(Waiting(Len(attempts)))
  BY <1>2, SeqGrows
<1>5. \A w \in ToSet(more) : w.kind = "peers" /\ d < w.peer
  BY <1>3, InFacts
<1>6. lookups[d] \in Seq(Waiting(Len(attempts))) /\ LookupsOnce(lookups[d])
  BY DEF FlowOK, LookupsOK, QueuesOnce
<1>7. /\ ToSet(lookups[d] \o more) = ToSet(lookups[d]) \cup ToSet(more)
      /\ LookupsOnce(lookups[d] \o more)
  BY <1>4, <1>5, <1>6, AddFacts, ListAdded
<1>8. \A e \in Device : lookups'[e] = IF e = d THEN lookups[d] \o more ELSE lookups[e]
  BY <1>1 DEF FlowOK, LookupsOK
<1> QED BY <1>5, <1>7, <1>8 DEF QueuesOnce

\* A browser comes online: the others get one more message of the server.
LEMMA GoOnlineEffect ==
  ASSUME FlowOK, QueuesOnce, NEW d \in Device, GoOnline(d)
  PROVE  \A q, r \in Device :
           /\ FramesOnce(net'[q][r])
           /\ \A x \in ToSet(net'[q][r]) : x \in ToSet(net[q][r]) \/ x.type \notin Calls
<1> TAKE q, r \in Device
<1> DEFINE S == Frame(Len(attempts))
           j == [type |-> "peer-joined"]
<1>1. net[q][r] \in Seq(S) /\ FramesOnce(net[q][r]) /\ j \in S
  BY AttemptFacts, FrameFacts DEF FlowOK, NetOK, QueuesOnce
<1>2. net'[q][r] = net[q][r] \/ net'[q][r] = Append(net[q][r], j)
  BY DEF GoOnline, FlowOK, NetOK
<1>3. j.type \notin Calls
  BY DEF Calls
<1> HIDE DEF S, j
<1>4. /\ ToSet(Append(net[q][r], j)) = ToSet(net[q][r]) \cup {j}
      /\ FramesOnce(Append(net[q][r], j))
  <2>1. j.type # "webrtc-offer"
    BY <1>3 DEF Calls
  <2> QED BY <1>1, <1>3, <2>1, AppendFacts, FramesAdded
<1> QED BY <1>1, <1>2, <1>3, <1>4

\* A socket is lost: frames are lost, and the others get one more message.
LEMMA DropEffect ==
  ASSUME FlowOK, QueuesOnce, NEW d \in Device, Drop(d)
  PROVE  \A q, r \in Device :
           /\ FramesOnce(net'[q][r])
           /\ \A x \in ToSet(net'[q][r]) : x \in ToSet(net[q][r]) \/ x.type \notin Calls
<1> TAKE q, r \in Device
<1> DEFINE S == Frame(Len(attempts))
           l == [type |-> "peer-left"]
           kept == Among(net[q][r], Presence(net[q][r]))
<1>1. net[q][r] \in Seq(S) /\ FramesOnce(net[q][r]) /\ l \in S /\ Len(attempts) \in Nat
  BY AttemptFacts, FrameFacts DEF FlowOK, NetOK, QueuesOnce
<1>2. PICK keep \in BOOLEAN : net' = Lost(d, keep)
  BY DropTypes
<1>3. \/ net'[q][r] = <<>> \/ net'[q][r] = net[q][r]
      \/ net'[q][r] = Append(net[q][r], l) \/ net'[q][r] = Append(kept, l)
  BY <1>2 DEF Lost
<1>4. l.type \notin Calls /\ l.type # "webrtc-offer"
  BY DEF Calls
<1>5. /\ kept \in Seq(S)
      /\ \A n \in DOMAIN kept : kept[n].type \in {"peer-joined", "peer-left"}
  BY <1>1, PresenceFacts
<1> HIDE DEF S, l, kept
<1>6. /\ \A x \in ToSet(kept) : x.type \notin Calls
      /\ FramesOnce(kept)
  BY <1>5 DEF ToSet, Calls, FramesOnce
<1>7. FramesOnce(<<>>) /\ ToSet(<<>>) = {}
  BY DEF FramesOnce, ToSet
<1>8. /\ ToSet(Append(net[q][r], l)) = ToSet(net[q][r]) \cup {l}
      /\ FramesOnce(Append(net[q][r], l))
  BY <1>1, <1>4, AppendFacts, FramesAdded
<1>9. /\ ToSet(Append(kept, l)) = ToSet(kept) \cup {l}
      /\ FramesOnce(Append(kept, l))
  BY <1>1, <1>4, <1>5, <1>6, AppendFacts, FramesAdded
<1> QED BY <1>1, <1>3, <1>4, <1>6, <1>7, <1>8, <1>9

-----------------------------------------------------------------------------
(* Without clicks the lower browser asks.                                  *)

\* Attempts as they were, but for their stages and states.
SameAttempts ==
  /\ DOMAIN attempts' = DOMAIN attempts
  /\ \A i \in DOMAIN attempts :
       /\ attempts'[i].dev = attempts[i].dev /\ attempts'[i].peer = attempts[i].peer
       /\ attempts'[i].role = attempts[i].role /\ attempts'[i].how = attempts[i].how
       /\ attempts'[i].manual = attempts[i].manual
       /\ attempts'[i].navigates = attempts[i].navigates

LEMMA SameOnChange ==
  ASSUME FlowOK
  PROVE  /\ \A i \in DOMAIN attempts : Gathered(i) \/ Timeout(i) \/ Attach(i) => SameAttempts
         /\ \A i \in DOMAIN attempts : \A s : StateChange(i, s) => SameAttempts
         /\ \A d, p \in Device : HandleAnswer(d, p) => SameAttempts
         /\ UNCHANGED attempts => SameAttempts
<1>1. \A i \in DOMAIN attempts : attempts[i] \in AttemptType /\ attempts \in [DOMAIN attempts -> AttemptType]
  <2>1. \A i \in 1..Len(attempts) : attempts[i] \in AttemptType
    BY AttemptFacts DEF FlowOK
  <2>2. DOMAIN attempts = 1..Len(attempts) /\ attempts \in [DOMAIN attempts -> AttemptType]
    BY AttemptFacts DEF FlowOK
  <2> QED BY <2>1, <2>2
<1>2. ASSUME NEW i \in DOMAIN attempts, Gathered(i) PROVE SameAttempts
  <2>1. DOMAIN attempts' = DOMAIN attempts /\ \A l \in DOMAIN attempts :
          \/ attempts'[l] = [attempts[l] EXCEPT !.stage = "listening", !.state = "connecting",
                                                !.after = {}]
          \/ attempts'[l] = [attempts[l] EXCEPT !.stage = "securing", !.state = "connecting",
                                                !.after = Securing(attempts[i].dev)]
          \/ attempts'[l] = attempts[l]
    BY <1>1, <1>2 DEF Gathered, AttemptType
  <2>2. ASSUME NEW l \in DOMAIN attempts
        PROVE  /\ attempts'[l].dev = attempts[l].dev /\ attempts'[l].peer = attempts[l].peer
               /\ attempts'[l].role = attempts[l].role /\ attempts'[l].how = attempts[l].how
               /\ attempts'[l].manual = attempts[l].manual
               /\ attempts'[l].navigates = attempts[l].navigates
    <3>1. attempts[l] \in AttemptType
      BY <1>1
    <3> QED BY <2>1, <3>1 DEF AttemptType
  <2> QED BY <2>1, <2>2 DEF SameAttempts
<1>3. ASSUME NEW i \in DOMAIN attempts, Timeout(i) PROVE SameAttempts
  BY <1>1, <1>3 DEF Timeout, SameAttempts, AttemptType
<1>4. ASSUME NEW i \in DOMAIN attempts, Attach(i) PROVE SameAttempts
  <2>1. DOMAIN attempts' = DOMAIN attempts /\ \A l \in DOMAIN attempts :
          \/ attempts'[l] = [attempts[l] EXCEPT !.stage = "attached"]
          \/ \E s, w : attempts'[l] = [attempts[l] EXCEPT !.state = s, !.after = w]
    BY <1>4 DEF Attach
  <2>2. ASSUME NEW l \in DOMAIN attempts
        PROVE  /\ attempts'[l].dev = attempts[l].dev /\ attempts'[l].peer = attempts[l].peer
               /\ attempts'[l].role = attempts[l].role /\ attempts'[l].how = attempts[l].how
               /\ attempts'[l].manual = attempts[l].manual
               /\ attempts'[l].navigates = attempts[l].navigates
    <3>1. attempts[l] \in AttemptType
      BY <1>1
    <3> QED BY <2>1, <3>1 DEF AttemptType
  <2> QED BY <2>1, <2>2 DEF SameAttempts
<1>5. ASSUME NEW i \in DOMAIN attempts, NEW s, StateChange(i, s) PROVE SameAttempts
  BY <1>1, <1>5 DEF StateChange, SameAttempts, AttemptType
<1>6. ASSUME NEW d \in Device, NEW p \in Device, HandleAnswer(d, p) PROVE SameAttempts
  <2>1. DOMAIN attempts' = DOMAIN attempts /\ \A l \in DOMAIN attempts :
          \/ attempts'[l] = [attempts[l] EXCEPT !.stage = "securing", !.mate = Head(net[p][d]).id,
                                                !.after = Securing(d)]
          \/ attempts'[l] = attempts[l]
    BY <1>6 DEF HandleAnswer
  <2>2. ASSUME NEW l \in DOMAIN attempts
        PROVE  /\ attempts'[l].dev = attempts[l].dev /\ attempts'[l].peer = attempts[l].peer
               /\ attempts'[l].role = attempts[l].role /\ attempts'[l].how = attempts[l].how
               /\ attempts'[l].manual = attempts[l].manual
               /\ attempts'[l].navigates = attempts[l].navigates
    <3>1. attempts[l] \in AttemptType
      BY <1>1
    <3> QED BY <2>1, <3>1 DEF AttemptType
  <2> QED BY <2>1, <2>2 DEF SameAttempts
<1>7. ASSUME UNCHANGED attempts PROVE SameAttempts
  BY <1>7 DEF SameAttempts
<1> QED BY <1>2, <1>3, <1>4, <1>5, <1>6, <1>7

-----------------------------------------------------------------------------
(* What a pair of browsers is up to.                                       *)

\* Nothing new between a and b.
Shrinks(a, b) ==
  /\ \A m \in ToSet(net'[a][b]) : m \in ToSet(net[a][b]) \/ m.type \notin Calls
  /\ \A m \in ToSet(net'[b][a]) : m \in ToSet(net[b][a]) \/ m.type \notin Calls
  /\ \A w \in ToSet(lookups'[a]) : w.peer = b => w \in ToSet(lookups[a]) \/ w.kind = "peers"
  /\ \A w \in ToSet(lookups'[b]) : w.peer = a => w \in ToSet(lookups[b]) \/ w.kind = "peers"
  /\ a \in ToSet(incoming'[b]) => a \in ToSet(incoming[b])
  /\ b \in autoConnecting[a] => b \in autoConnecting'[a]
  /\ a \in autoAccepted'[b] <=> a \in autoAccepted[b]
  /\ a \in trusted[b] => a \in trusted'[b]
  /\ \A i \in DOMAIN attempts' : Offering(i, a, b)' =>
       /\ i \in DOMAIN attempts /\ Offering(i, a, b)
       /\ attempts'[i].stage = "gathering" => attempts[i].stage = "gathering"
  /\ \A i \in DOMAIN attempts : attempts'[i].how = attempts[i].how

\* The attempts that frames and lookups name.
LEMMA NamedAttempts ==
  ASSUME FlowOK
  PROVE  /\ \A p, d \in Device : \A m \in ToSet(net[p][d]) :
              m.type = "webrtc-offer" => m.id \in DOMAIN attempts
         /\ \A d \in Device : \A w \in ToSet(lookups[d]) :
              w.kind = "offer" => w.id \in DOMAIN attempts
<1>1. Len(attempts) \in Nat /\ DOMAIN attempts = 1..Len(attempts)
  BY AttemptFacts DEF FlowOK
<1>2. ASSUME NEW p \in Device, NEW d \in Device, NEW m \in ToSet(net[p][d]),
             m.type = "webrtc-offer"
      PROVE  m.id \in DOMAIN attempts
  <2>1. m \in Frame(Len(attempts))
    BY InFacts DEF FlowOK, NetOK
  <2> QED BY <1>1, <1>2, <2>1, FramesAre
<1>3. ASSUME NEW d \in Device, NEW w \in ToSet(lookups[d]), w.kind = "offer"
      PROVE  w.id \in DOMAIN attempts
  <2>1. w \in Waiting(Len(attempts))
    BY InFacts DEF FlowOK, LookupsOK
  <2> QED BY <1>1, <1>3, <2>1, WaitingFacts
<1> QED BY <1>2, <1>3

LEMMA PairKept ==
  ASSUME FlowOK, NEW a \in Device, NEW b \in Device, PairOK(a, b), Shrinks(a, b)
  PROVE  PairOK(a, b)'
<1>1. ASSUME NEW x, At(x, a, b)'
      PROVE  At(x, a, b)
  <2> USE <1>1 DEF Shrinks, Calls
  <2>1. CASE x = "requested" /\ \E m \in ToSet(net[a][b])' : m.type = "connect-request"
    BY <2>1 DEF At
  <2>2. CASE x = "asked" /\ \E w \in ToSet(lookups[b])' : w.kind = "request" /\ w.peer = a
    BY <2>2 DEF At
  <2>3. CASE x = "shown" /\ a \in ToSet(incoming[b])'
    BY <2>3 DEF At
  <2>4. CASE x = "refused" /\ \E m \in ToSet(net[b][a])' : m.type = "connect-rejected"
    BY <2>4 DEF At
  <2>5. CASE x = "granted" /\ \E m \in ToSet(net[b][a])' : m.type = "connect-accepted"
    BY <2>5 DEF At
  <2>6. CASE x = "awaited" /\ \E w \in ToSet(lookups[a])' : w.kind = "accepted" /\ w.peer = b
    BY <2>6 DEF At
  <2>7. CASE x = "offering" /\ \E i \in DOMAIN attempts' : Offering(i, a, b)'
    BY <2>7 DEF At
  <2> QED BY <2>1, <2>2, <2>3, <2>4, <2>5, <2>6, <2>7 DEF At
<1>2. OneStep(a, b)'
  <2>1. \A x, y : At(x, a, b)' /\ At(y, a, b)' => x = y
    BY <1>1 DEF PairOK, OneStep
  <2>2. \A x : At(x, a, b)' => b \in autoConnecting'[a]
    BY <1>1 DEF PairOK, OneStep, Shrinks
  <2>3. \A i, j \in DOMAIN attempts' : Offering(i, a, b)' /\ Offering(j, a, b)' => i = j
    BY DEF PairOK, OneStep, Shrinks
  <2> QED BY <2>1, <2>2, <2>3 DEF OneStep
<1>3. OfferFirst(a, b)'
  <2>1. OfferSent(a, b)' => OfferSent(a, b)
    BY DEF OfferSent, Shrinks, Calls
  <2>2. OfferWaits(a, b)' => OfferWaits(a, b)
    BY DEF OfferWaits, Shrinks
  <2>3. Gathering(a, b)' => Gathering(a, b)
    BY DEF Gathering, Shrinks
  <2> QED BY <1>1, <2>1, <2>2, <2>3 DEF PairOK, OfferFirst
<1>4. ASSUME NEW how, Promised(how, a, b)'
      PROVE  Promised(how, a, b)
  <2> USE <1>4, NamedAttempts DEF Shrinks, Calls
  <2>1. CASE \E m \in ToSet(net[b][a])' : m.type = "connect-accepted" /\ m.how = how
    BY <2>1 DEF Promised
  <2>2. CASE \E w \in ToSet(lookups[a])' : w.kind = "accepted" /\ w.peer = b /\ w.how = how
    BY <2>2 DEF Promised
  <2>3. CASE \E i \in DOMAIN attempts' :
               Offering(i, a, b)' /\ attempts'[i].stage = "gathering" /\ attempts'[i].how = how
    BY <2>3 DEF Promised
  <2>4. CASE \E m \in ToSet(net[a][b])' : m.type = "webrtc-offer" /\ attempts'[m.id].how = how
    BY <2>4 DEF Promised
  <2>5. CASE \E w \in ToSet(lookups[b])' :
               w.kind = "offer" /\ w.peer = a /\ attempts'[w.id].how = how
    BY <2>5 DEF Promised
  <2> QED BY <2>1, <2>2, <2>3, <2>4, <2>5 DEF Promised
<1>5. MarkTrue(a, b)'
  BY <1>1, <1>4 DEF PairOK, MarkTrue, Shrinks
<1> QED BY <1>2, <1>3, <1>5 DEF PairOK

\* What must be shown of a step beside the types.
Kept == LowerAsks' /\ QueuesOnce' /\ PairsOK' /\ AutoAcceptIsSilent'

\* A step that asks, grants and answers nothing.
QuietStep ==
  /\ \A q, r \in Device :
       /\ FramesOnce(net'[q][r])
       /\ \A x \in ToSet(net'[q][r]) : x \in ToSet(net[q][r]) \/ x.type \notin Calls
  /\ \A e \in Device :
       /\ LookupsOnce(lookups'[e])
       /\ \A x \in ToSet(lookups'[e]) :
            x \in ToSet(lookups[e]) \/ (x.kind = "peers" /\ e < x.peer)
  /\ UNCHANGED <<autoConnecting, autoAccepted, yieldedManual, incoming>>
  /\ \A d \in Device : pending'[d] = 0 /\ pendingRef'[d] = 0
  /\ \A d \in Device : trusted[d] \subseteq trusted'[d]
  /\ SameAttempts
  /\ \A i \in DOMAIN attempts :
       /\ attempts'[i].stage = attempts[i].stage \/ attempts[i].stage = "listening"
            \/ attempts'[i].stage = "attached"
            \/ attempts[i].role = "answerer"
       /\ attempts'[i].stage = "gathering" => attempts[i].stage = "gathering"

LEMMA SilentKept ==
  ASSUME AutoAcceptIsSilent, SameAttempts
  PROVE  AutoAcceptIsSilent'
BY DEF AutoAcceptIsSilent, SameAttempts

LEMMA OffersUpKept ==
  ASSUME OffersUp, SameAttempts
  PROVE  OffersUp'
BY DEF OffersUp, SameAttempts

LEMMA QuietKept ==
  ASSUME QuietInv, QuietStep
  PROVE  Kept
<1> USE DEF QuietInv
<1>1. LowerAsks'
  <2> USE DEF LowerAsks
  <2>1. NothingPending'
    BY DEF NothingPending, QuietStep
  <2>2. AutoUp' /\ PopupsUp'
    BY DEF AutoUp, PopupsUp, QuietStep
  <2>3. FramesUp'
    BY DEF FramesUp, QuietStep, Calls
  <2>4. LookupsUp'
    BY DEF LookupsUp, QuietStep
  <2>5. OffersUp'
    BY OffersUpKept DEF QuietStep
  <2> QED BY <2>1, <2>2, <2>3, <2>4, <2>5
<1>2. QueuesOnce'
  BY DEF QueuesOnce, QuietStep
<1>3. PairsOK'
  <2> SUFFICES ASSUME NEW a \in Device, NEW b \in Device, a < b PROVE PairOK(a, b)'
    BY DEF PairsOK
  <2>1. \A i \in DOMAIN attempts' : Offering(i, a, b)' =>
          /\ i \in DOMAIN attempts /\ Offering(i, a, b)
          /\ attempts'[i].stage = "gathering" => attempts[i].stage = "gathering"
    BY DEF QuietStep, SameAttempts, Offering, UnderWay
  <2>2. \A i \in DOMAIN attempts : attempts'[i].how = attempts[i].how
    BY DEF QuietStep, SameAttempts
  <2>3. /\ \A m \in ToSet(net'[a][b]) : m \in ToSet(net[a][b]) \/ m.type \notin Calls
        /\ \A m \in ToSet(net'[b][a]) : m \in ToSet(net[b][a]) \/ m.type \notin Calls
        /\ \A w \in ToSet(lookups'[a]) : w.peer = b => w \in ToSet(lookups[a]) \/ w.kind = "peers"
        /\ \A w \in ToSet(lookups'[b]) : w.peer = a => w \in ToSet(lookups[b]) \/ w.kind = "peers"
    BY DEF QuietStep
  <2>4. /\ a \in ToSet(incoming'[b]) => a \in ToSet(incoming[b])
        /\ b \in autoConnecting[a] => b \in autoConnecting'[a]
        /\ a \in autoAccepted'[b] <=> a \in autoAccepted[b]
        /\ a \in trusted[b] => a \in trusted'[b]
    BY DEF QuietStep
  <2>5. Shrinks(a, b)
    BY <2>1, <2>2, <2>3, <2>4 DEF Shrinks
  <2> QED BY <2>5, PairKept DEF PairsOK
<1>4. AutoAcceptIsSilent'
  BY SilentKept DEF QuietStep
<1> QED BY <1>1, <1>2, <1>3, <1>4 DEF Kept

\* The parts of a quiet step that most of them have.
LEMMA SameNet ==
  ASSUME QuietInv, UNCHANGED net
  PROVE  \A q, r \in Device :
           /\ FramesOnce(net'[q][r])
           /\ \A x \in ToSet(net'[q][r]) : x \in ToSet(net[q][r]) \/ x.type \notin Calls
BY DEF QuietInv, QueuesOnce

LEMMA SameLookups ==
  ASSUME QuietInv, UNCHANGED lookups
  PROVE  \A e \in Device :
           /\ LookupsOnce(lookups'[e])
           /\ \A x \in ToSet(lookups'[e]) :
                x \in ToSet(lookups[e]) \/ (x.kind = "peers" /\ e < x.peer)
BY DEF QuietInv, QueuesOnce

LEMMA PresenceQuiet ==
  ASSUME QuietInv, NEW d \in Device,
         \/ \E p \in Device : HandleJoined(d, p) \/ HandleLeft(d, p)
         \/ PresenceEvent(d) \/ GoOnline(d) \/ Drop(d)
  PROVE  Kept
<1> USE DEF QuietInv
<1>1. \A q, r \in Device :
        /\ FramesOnce(net'[q][r])
        /\ \A x \in ToSet(net'[q][r]) : x \in ToSet(net[q][r]) \/ x.type \notin Calls
  <2>1. ASSUME NEW p \in Device, HandleJoined(d, p) \/ HandleLeft(d, p)
        PROVE  \A q, r \in Device : ToSet(net'[q][r]) \subseteq ToSet(net[q][r])
                                    /\ FramesOnce(net'[q][r])
    BY <2>1, TakeEffect DEF HandleJoined, HandleLeft
  <2>2. CASE PresenceEvent(d)
    BY <2>2, SameNet DEF PresenceEvent
  <2> QED BY <2>1, <2>2, GoOnlineEffect, DropEffect
<1>2. \A e \in Device :
        /\ LookupsOnce(lookups'[e])
        /\ \A x \in ToSet(lookups'[e]) :
             x \in ToSet(lookups[e]) \/ (x.kind = "peers" /\ e < x.peer)
  <2>1. UNCHANGED lookups \/ \E list \in SUBSET Device : PeersChanged(d, list)
    <3>1. \A p \in Device : {nearby[d], nearby[d] \cup {p}, nearby[d] \ {p}, online, {}}
                              \subseteq SUBSET Device
      BY DEF FlowOK, PresenceOK
    <3> QED BY <3>1 DEF HandleJoined, HandleLeft, PresenceEvent, GoOnline, Drop
  <2> QED BY <2>1, ListEffect, SameLookups
<1>3. /\ UNCHANGED <<autoConnecting, autoAccepted, yieldedManual, incoming, pending, pendingRef>>
      /\ UNCHANGED <<trusted, attempts>>
  BY DEF HandleJoined, HandleLeft, PresenceEvent, GoOnline, Drop, requests, connected
<1>4. SameAttempts
  BY <1>3, SameOnChange
<1>5. QuietStep
  BY <1>1, <1>2, <1>3, <1>4 DEF QuietStep, LowerAsks, NothingPending
<1> QED BY <1>5, QuietKept

LEMMA AnswerQuiet ==
  ASSUME QuietInv, NEW d \in Device, NEW p \in Device, HandleAnswer(d, p)
  PROVE  Kept
<1> USE DEF QuietInv
<1>1. \A q, r \in Device : ToSet(net'[q][r]) \subseteq ToSet(net[q][r]) /\ FramesOnce(net'[q][r])
  BY TakeEffect DEF HandleAnswer
<1>2. /\ UNCHANGED <<autoConnecting, autoAccepted, yieldedManual, incoming, pending, pendingRef>>
      /\ UNCHANGED <<trusted, lookups>>
  BY DEF HandleAnswer, requests
<1>3. SameAttempts
  BY SameOnChange
<1>4. \A i \in DOMAIN attempts :
        /\ attempts'[i].stage = attempts[i].stage \/ attempts[i].stage = "listening"
        /\ attempts'[i].stage = "gathering" => attempts[i].stage = "gathering"
  <2>1. \A i \in DOMAIN attempts :
          \/ attempts'[i] = [attempts[i] EXCEPT !.stage = "securing", !.mate = Head(net[p][d]).id,
                                                !.after = Securing(d)]
             /\ attempts[i].stage = "listening"
          \/ attempts'[i] = attempts[i]
    BY DEF HandleAnswer
  <2>2. \A i \in DOMAIN attempts : attempts[i] \in AttemptType
    BY AttemptFacts DEF FlowOK
  <2> QED BY <2>1, <2>2 DEF AttemptType
<1>5. QuietStep
  BY <1>1, <1>2, <1>3, <1>4, SameLookups DEF QuietStep, LowerAsks, NothingPending
<1> QED BY <1>5, QuietKept

LEMMA StateQuiet ==
  ASSUME QuietInv, NEW i \in DOMAIN attempts, NEW s, StateChange(i, s)
  PROVE  Kept
<1> USE DEF QuietInv
<1>1. /\ UNCHANGED <<autoConnecting, autoAccepted, yieldedManual, incoming, pending, pendingRef>>
      /\ UNCHANGED <<trusted, lookups, net>>
  BY DEF StateChange, requests
<1>2. SameAttempts
  BY SameOnChange
<1>3. \A l \in DOMAIN attempts : attempts'[l].stage = attempts[l].stage
  <2>1. \A l \in DOMAIN attempts : attempts[l] \in AttemptType /\ attempts \in [DOMAIN attempts -> AttemptType]
    BY AttemptFacts DEF FlowOK
  <2> QED BY <2>1 DEF StateChange, AttemptType
<1>4. QuietStep
  BY <1>1, <1>2, <1>3, SameLookups, SameNet DEF QuietStep, LowerAsks, NothingPending
<1> QED BY <1>4, QuietKept

LEMMA RenderQuiet ==
  ASSUME QuietInv, NEW d \in Device, Render(d)
  PROVE  Kept
<1> USE DEF QuietInv
<1>1. /\ UNCHANGED <<autoConnecting, autoAccepted, yieldedManual, incoming, pending>>
      /\ UNCHANGED <<trusted, lookups, net, attempts>>
      /\ \A e \in Device : pendingRef'[e] = pendingRef[e] \/ pendingRef'[e] = pending[e]
  BY DEF Render, FlowOK, PendingOK
<1>2. SameAttempts
  BY <1>1, SameOnChange
<1>3. QuietStep
  BY <1>1, <1>2, SameLookups, SameNet DEF QuietStep, LowerAsks, NothingPending
<1> QED BY <1>3, QuietKept

LEMMA AnswererQuiet ==
  ASSUME QuietInv, NEW i \in DOMAIN attempts, attempts[i].role = "answerer",
         Gathered(i) \/ Attach(i)
  PROVE  Kept
<1> USE DEF QuietInv
<1> DEFINE a == attempts[i]
<1>1. /\ \A l \in DOMAIN attempts : attempts[l] \in AttemptType
      /\ attempts \in [DOMAIN attempts -> AttemptType]
      /\ Len(attempts) \in Nat /\ i \in 1..Len(attempts)
  BY AttemptFacts DEF FlowOK
<1>2. a.dev \in Device /\ a.peer \in Device
  BY <1>1 DEF AttemptType
<1>3. \A q, r \in Device :
        /\ FramesOnce(net'[q][r])
        /\ \A x \in ToSet(net'[q][r]) : x \in ToSet(net[q][r]) \/ x.type \notin Calls
  <2>1. CASE Gathered(i)
    <3>1. Answer(i) \in Frame(Len(attempts))
      BY <1>1, FrameFacts
    <3>2. Answer(i).type \notin Calls /\ Answer(i).type # "webrtc-offer"
      BY DEF Answer, Calls
    <3>3. Send(a.dev, a.peer, Answer(i))
      BY <2>1 DEF Gathered
    <3> HIDE DEF a
    <3>4. Fresh(net[a.dev][a.peer], Answer(i))
      BY <3>2 DEF Fresh
    <3>5. \A q, r \in Device : FramesOnce(net'[q][r])
      BY <1>2, <3>1, <3>3, <3>4, SendEffect
    <3>6. \A q, r \in Device : \A x \in ToSet(net'[q][r]) :
            x \in ToSet(net[q][r]) \/ (q = a.dev /\ r = a.peer /\ x = Answer(i))
      BY <1>2, <3>1, <3>3, SendEffect
    <3>7. \A q, r \in Device : \A x \in ToSet(net'[q][r]) :
            x \in ToSet(net[q][r]) \/ x.type \notin Calls
      <4> SUFFICES ASSUME NEW q \in Device, NEW r \in Device, NEW x \in ToSet(net'[q][r]),
                          x \notin ToSet(net[q][r])
                   PROVE  x.type \notin Calls
        OBVIOUS
      <4>1. x = Answer(i)
        BY <3>6
      <4> QED BY <3>2, <4>1
    <3> QED BY <3>5, <3>7
  <2>2. CASE Attach(i)
    BY <2>2, SameNet DEF Attach
  <2> QED BY <2>1, <2>2
<1>4. UNCHANGED <<autoConnecting, autoAccepted, yieldedManual, incoming, pending, pendingRef,
                  lookups>>
  BY DEF Gathered, Attach, requests
<1>5. \A d \in Device : trusted[d] \subseteq trusted'[d]
  <2>1. trusted' = trusted \/ trusted' = [trusted EXCEPT ![a.dev] = @ \cup {a.peer}]
    BY DEF Gathered, Attach
  <2>2. trusted \in [Device -> SUBSET Device]
    BY DEF FlowOK, AttemptsOK
  <2> HIDE DEF a
  <2> QED BY <1>2, <2>1, <2>2
<1>6. SameAttempts
  BY SameOnChange
<1>7. \A l \in DOMAIN attempts :
        /\ \/ attempts'[l].stage = attempts[l].stage
           \/ attempts'[l].stage = "attached"
           \/ attempts[l].role = "answerer"
        /\ attempts'[l].stage = "gathering" => attempts[l].stage = "gathering"
  <2>1. CASE Gathered(i)
    <3>1. \A l \in DOMAIN attempts :
            \/ attempts'[l] = [attempts[l] EXCEPT !.stage = "securing", !.state = "connecting",
                                                  !.after = Securing(a.dev)]
               /\ attempts[l].role = "answerer"
            \/ attempts'[l] = attempts[l]
      BY <1>1, <2>1 DEF Gathered, AttemptType
    <3> QED BY <1>1, <3>1 DEF AttemptType
  <2>2. CASE Attach(i)
    <3>1. \A l \in DOMAIN attempts :
            \/ attempts'[l] = [attempts[l] EXCEPT !.stage = "attached"]
            \/ \E s, w : attempts'[l] = [attempts[l] EXCEPT !.state = s, !.after = w]
      BY <2>2 DEF Attach
    <3> QED BY <1>1, <3>1 DEF AttemptType
  <2> QED BY <2>1, <2>2
<1>8. QuietStep
  BY <1>3, <1>4, <1>5, <1>6, <1>7, SameLookups DEF QuietStep, LowerAsks, NothingPending
<1> QED BY <1>8, QuietKept

-----------------------------------------------------------------------------
(* The steps of a request.                                                 *)

\* A step of the request of a to b, which leaves the other pairs alone.
LEMMA MoveKept ==
  ASSUME QuietInv, NEW a \in Device, NEW b \in Device,
         LowerAsks', QueuesOnce', AutoAcceptIsSilent', PairOK(a, b)',
         \A c, d \in Device : c < d /\ ~(c = a /\ d = b) => Shrinks(c, d)
  PROVE  Kept
<1>1. PairsOK'
  <2> SUFFICES ASSUME NEW c \in Device, NEW d \in Device, c < d PROVE PairOK(c, d)'
    BY DEF PairsOK
  <2>1. CASE c = a /\ d = b
    BY <2>1
  <2>2. CASE ~(c = a /\ d = b)
    BY <2>2, PairKept DEF QuietInv, PairsOK
  <2> QED BY <2>1, <2>2
<1> QED BY <1>1 DEF Kept

\* onPeersChanged after the lookup: a request goes out, or nothing.
LEMMA AutoConnectKeeps ==
  ASSUME QuietInv, NEW a \in Device, NEW b \in Device, b = Found(a), AutoConnect(a)
  PROVE  Kept
<1> USE DEF QuietInv
<1>1. Answered(a, "peers")
  BY DEF AutoConnect
<1>2. a < b /\ a # b /\ ~(b < a)
  <2>1. Head(lookups[a]) \in ToSet(lookups[a]) /\ Head(lookups[a]).kind = "peers"
    BY <1>1, AnsweredEffect
  <2>2. a < b /\ a \in Nat /\ b \in Nat
    BY <2>1, FlowAssumption DEF LowerAsks, LookupsUp, Found
  <2> QED BY <2>2
<1>3. \A e \in Device : ToSet(lookups'[e]) \subseteq ToSet(lookups[e]) /\ LookupsOnce(lookups'[e])
  BY <1>1, AnsweredEffect
<1>4. /\ UNCHANGED <<pending, pendingRef, autoAccepted, yieldedManual, incoming>>
      /\ UNCHANGED <<trusted, attempts>>
  BY DEF AutoConnect, connected
<1>5. SameAttempts
  BY <1>4, SameOnChange
<1>6. CASE UNCHANGED <<autoConnecting, net>>
  <2>1. QuietStep
    BY <1>3, <1>4, <1>5, <1>6, SameNet DEF QuietStep, LowerAsks, NothingPending
  <2> QED BY <2>1, QuietKept
<1>7. CASE ~UNCHANGED <<autoConnecting, net>>
  <2>1. /\ b \notin autoConnecting[a]
        /\ autoConnecting' = [autoConnecting EXCEPT ![a] = @ \cup {b}]
        /\ Send(a, b, Request)
    BY <1>7 DEF AutoConnect, MayAutoConnect
  <2>2. Request \in Frame(Len(attempts)) /\ Request.type = "connect-request"
    BY AttemptFacts, FrameFacts DEF FlowOK, Request
  <2>3. PairOK(a, b)
    BY <1>2 DEF PairsOK
  <2>4. \A x : ~At(x, a, b)
    BY <2>1, <2>3 DEF PairOK, OneStep
  <2>5. /\ \A q, r \in Device : FramesOnce(net'[q][r])
        /\ \A q, r \in Device : \A x \in ToSet(net'[q][r]) :
             x \in ToSet(net[q][r]) \/ (q = a /\ r = b /\ x = Request)
    <3>1. Fresh(net[a][b], Request)
      <4>1. \A m \in ToSet(net[a][b]) : m.type # "connect-request"
        BY <2>4 DEF At
      <4> QED BY <2>2, <4>1 DEF Fresh
    <3>2. \A q, r \in Device : \A x \in ToSet(net'[q][r]) :
            x \in ToSet(net[q][r]) \/ (q = a /\ r = b /\ x = Request)
      BY <2>1, <2>2, SendEffect
    <3>3. \A q, r \in Device : FramesOnce(net'[q][r])
      BY <2>1, <2>2, <3>1, SendEffect
    <3> QED BY <3>2, <3>3
  <2>6. \A q \in Device : autoConnecting'[q] = IF q = a THEN autoConnecting[a] \cup {b}
                                                        ELSE autoConnecting[q]
    BY <2>1 DEF FlowOK, MarksOK
  <2>7. LowerAsks'
    <3> USE DEF LowerAsks
    <3>1. NothingPending' /\ PopupsUp'
      BY <1>4 DEF NothingPending, PopupsUp
    <3>2. AutoUp'
      BY <1>2, <2>6 DEF AutoUp
    <3>3. FramesUp'
      BY <1>2, <2>2, <2>5 DEF FramesUp
    <3>4. LookupsUp'
      BY <1>3 DEF LookupsUp
    <3> QED BY <1>5, <3>1, <3>2, <3>3, <3>4, OffersUpKept
  <2>8. QueuesOnce'
    BY <1>3, <2>5 DEF QueuesOnce
  <2>9. PairOK(a, b)'
    <3>1. \A x : At(x, a, b)' => x = "requested"
      <4> SUFFICES ASSUME NEW x, At(x, a, b)', x # "requested" PROVE FALSE
        OBVIOUS
      <4>1. At(x, a, b)
        BY <1>2, <1>3, <1>4, <2>2, <2>5 DEF At, Offering, UnderWay
      <4> QED BY <2>4, <4>1
    <3>2. \A i \in DOMAIN attempts : ~Offering(i, a, b)
      BY <2>4 DEF At
    <3>3. OneStep(a, b)'
      BY <1>4, <2>6, <3>1, <3>2 DEF OneStep, Offering, UnderWay
    <3>4. /\ OfferSent(a, b)' => OfferSent(a, b)
          /\ OfferWaits(a, b)' => OfferWaits(a, b)
      BY <1>3, <2>2, <2>5 DEF OfferSent, OfferWaits
    <3>5. ~Gathering(a, b)'
      BY <1>4, <3>2 DEF Gathering, Offering, UnderWay
    <3>6. OfferFirst(a, b)'
      BY <2>3, <3>1, <3>4, <3>5 DEF PairOK, OfferFirst
    <3>7. \A how : Promised(how, a, b)' => Promised(how, a, b)
      BY <1>2, <1>3, <1>4, <2>2, <2>5 DEF Promised, Offering, UnderWay
    <3>8. MarkTrue(a, b)'
      BY <1>4, <2>3, <3>1, <3>7 DEF PairOK, MarkTrue
    <3> QED BY <3>3, <3>6, <3>8 DEF PairOK
  <2>10. ASSUME NEW c \in Device, NEW d \in Device, c < d, ~(c = a /\ d = b)
         PROVE  Shrinks(c, d)
    <3>1. ~(d = a /\ c = b)
      BY <1>2, <2>10
    <3>2. /\ \A m \in ToSet(net'[c][d]) : m \in ToSet(net[c][d])
          /\ \A m \in ToSet(net'[d][c]) : m \in ToSet(net[d][c])
      BY <2>5, <2>10, <3>1
    <3> QED BY <1>3, <1>4, <2>6, <3>2 DEF Shrinks, Offering, UnderWay
  <2> QED BY <1>5, <2>7, <2>8, <2>9, <2>10, SilentKept, MoveKept
<1> QED BY <1>6, <1>7

LEMMA Higher ==
  ASSUME NEW a \in Device, NEW b \in Device, a < b
  PROVE  a # b /\ ~(b < a)
<1>1. a \in Nat /\ b \in Nat
  BY FlowAssumption
<1> QED BY <1>1

\* Where the request of a to b is after a step: at x, or nowhere.
LEMMA PairMoved ==
  ASSUME NEW a \in Device, NEW b \in Device, NEW x,
         \A y : At(y, a, b)' => y = x,
         x # "offering", x # "none" => b \in autoConnecting'[a], ~At("none", a, b)',
         ~(OfferSent(a, b)' /\ OfferWaits(a, b)'),
         x = "asked" => ~OfferSent(a, b)',
         x \in {"shown", "granted", "awaited"} => ~OfferSent(a, b)' /\ ~OfferWaits(a, b)',
         a \in autoAccepted'[b] => b \in AutoOn /\ a \in trusted'[b] /\ x # "shown",
         \A how : Promised(how, a, b)' => (how = "auto" <=> a \in autoAccepted'[b])
  PROVE  PairOK(a, b)'
<1>1. \A i \in DOMAIN attempts' : ~Offering(i, a, b)'
  <2>1. ~At("offering", a, b)'
    OBVIOUS
  <2> QED BY <2>1 DEF At
<1>2. OneStep(a, b)'
  BY <1>1 DEF OneStep
<1>3. ~Gathering(a, b)'
  BY <1>1 DEF Gathering
<1>4. OfferFirst(a, b)'
  BY <1>3 DEF OfferFirst
<1>5. MarkTrue(a, b)'
  BY DEF MarkTrue
<1> QED BY <1>2, <1>4, <1>5 DEF PairOK

\* onConnectionRequest up to its await: the request waits for the lookup.
LEMMA HandleRequestKeeps ==
  ASSUME QuietInv, NEW a \in Device, NEW b \in Device, HandleRequest(b, a)
  PROVE  Kept
<1> USE DEF QuietInv
<1>1. Take(b, a) /\ Arrived(b, a, "connect-request")
  <2>1. Arrived(b, a, "connect-request")
    BY DEF HandleRequest
  <2>2. Head(net[a][b]) \in ToSet(net[a][b]) /\ Head(net[a][b]).type = "connect-request"
    <3>1. net[a][b] \in Seq(Frame(Len(attempts))) /\ net[a][b] # <<>>
      BY <2>1 DEF FlowOK, NetOK, Arrived
    <3> QED BY <2>1, <3>1, TailFacts DEF Arrived
  <2>3. a < b
    BY <2>2 DEF LowerAsks, FramesUp
  <2>4. pendingRef[b] # a
    BY FlowAssumption DEF LowerAsks, NothingPending
  <2>5. a \notin autoConnecting[b]
    BY <2>3, Higher DEF LowerAsks, AutoUp
  <2> QED BY <2>1, <2>4, <2>5 DEF HandleRequest
<1>2. /\ \A q, r \in Device : /\ ToSet(net'[q][r]) \subseteq ToSet(net[q][r])
                              /\ FramesOnce(net'[q][r])
      /\ Head(net[a][b]) \in ToSet(net[a][b]) /\ Head(net[a][b]).type = "connect-request"
      /\ \A m \in ToSet(net'[a][b]) : m.type # "connect-request" /\ m.type # "webrtc-offer"
  BY <1>1, TakeEffect DEF Calls
<1>3. a < b /\ a # b /\ ~(b < a)
  BY <1>2, Higher DEF LowerAsks, FramesUp
<1>4. pendingRef[b] # a /\ a \notin autoConnecting[b]
  BY <1>3, FlowAssumption DEF LowerAsks, NothingPending, AutoUp
<1>5. /\ UNCHANGED <<pending, pendingRef, autoConnecting, autoAccepted, yieldedManual, incoming>>
      /\ UNCHANGED <<trusted, attempts>>
      /\ lookups' = [lookups EXCEPT ![b] = Append(@, Lookup("request", a))]
  <2>1. /\ autoConnecting' = [autoConnecting EXCEPT ![b] = @ \ {a}]
        /\ lookups' = [lookups EXCEPT ![b] = Append(@, Lookup("request", a))]
        /\ UNCHANGED <<pending, pendingRef, autoAccepted, yieldedManual, incoming, trusted, attempts>>
    BY <1>4 DEF HandleRequest, connected
  <2>2. autoConnecting[b] \ {a} = autoConnecting[b]
    BY <1>4
  <2>3. autoConnecting' = autoConnecting
    BY <2>1, <2>2 DEF FlowOK, MarksOK
  <2> QED BY <2>1, <2>3
<1>6. SameAttempts
  BY <1>5, SameOnChange
<1>7. At("requested", a, b) /\ PairOK(a, b)
  BY <1>2, <1>3 DEF At, PairsOK
<1>8. ~At("asked", a, b) /\ \A y : At(y, a, b) => y = "requested"
  BY <1>7 DEF PairOK, OneStep
<1>9. Lookup("request", a) \in Waiting(Len(attempts))
      /\ Lookup("request", a).kind = "request" /\ Lookup("request", a).peer = a
  BY DEF Lookup, Waiting
<1>10. /\ \A e \in Device : \A w \in ToSet(lookups'[e]) :
            w \in ToSet(lookups[e]) \/ (e = b /\ w = Lookup("request", a))
       /\ \A e \in Device : LookupsOnce(lookups'[e])
  <2>1. PICK w \in Waiting(Len(attempts)) : w = Lookup("request", a)
    BY <1>9
  <2>2. \A x \in ToSet(lookups[b]) : x.peer = w.peer =>
          /\ w.kind # "peers" => x.kind # w.kind
          /\ w.kind = "offer" => x.kind # "request"
    BY <1>8, <1>9, <2>1 DEF At
  <2>3. lookups' = [lookups EXCEPT ![b] = Append(@, w)]
    BY <1>5, <2>1
  <2>4. \A e \in Device : LookupsOnce(lookups'[e])
    BY <2>2, <2>3, WaitEffect
  <2>5. \A e \in Device : \A y \in ToSet(lookups'[e]) :
            y \in ToSet(lookups[e]) \/ (e = b /\ y = w)
    BY <2>3, WaitEffect
  <2> QED BY <2>1, <2>4, <2>5
<1>11. LowerAsks'
  <2> USE DEF LowerAsks
  <2>1. NothingPending' /\ PopupsUp' /\ AutoUp'
    BY <1>5 DEF NothingPending, PopupsUp, AutoUp
  <2>2. FramesUp'
    BY <1>2 DEF FramesUp
  <2>3. LookupsUp'
    BY <1>3, <1>9, <1>10 DEF LookupsUp
  <2> QED BY <1>6, <2>1, <2>2, <2>3, OffersUpKept
<1>12. QueuesOnce'
  BY <1>2, <1>10 DEF QueuesOnce
<1>13. PairOK(a, b)'
  <2>1. ASSUME NEW y, At(y, a, b)' PROVE y = "asked"
    <3> SUFFICES ASSUME y # "asked" PROVE FALSE
      OBVIOUS
    <3>1. At(y, a, b)
      BY <1>2, <1>3, <1>5, <1>10, <2>1 DEF At, Offering, UnderWay
    <3>2. y = "requested"
      BY <1>8, <3>1
    <3> QED BY <1>2, <2>1, <3>2 DEF At
  <2>2. b \in autoConnecting'[a]
    BY <1>5, <1>7 DEF PairOK, OneStep
  <2>3. ~OfferSent(a, b)'
    BY <1>2 DEF OfferSent
  <2>4. \A how : Promised(how, a, b)' => Promised(how, a, b)
    BY <1>2, <1>3, <1>5, <1>9, <1>10 DEF Promised, Offering, UnderWay
  <2>5. ~At("none", a, b)'
    BY DEF At
  <2> QED BY <1>5, <1>7, <2>1, <2>2, <2>3, <2>4, <2>5, PairMoved DEF PairOK, MarkTrue
<1>14. ASSUME NEW c \in Device, NEW d \in Device, c < d, ~(c = a /\ d = b)
       PROVE  Shrinks(c, d)
  <2>1. ~(d = a /\ c = b)
    BY <1>3, <1>14
  <2> QED BY <1>2, <1>5, <1>9, <1>10, <1>14, <2>1 DEF Shrinks, Offering, UnderWay
<1> QED BY <1>6, <1>11, <1>12, <1>13, <1>14, SilentKept, MoveKept

\* The rest of onConnectionRequest: accepted silently, or shown.
LEMMA DecideRequestKeeps ==
  ASSUME QuietInv, NEW a \in Device, NEW b \in Device, a = Found(b), DecideRequest(b)
  PROVE  Kept
<1> USE DEF QuietInv
<1>1. Answered(b, "request")
  BY DEF DecideRequest
<1>2. /\ \A e \in Device : /\ ToSet(lookups'[e]) \subseteq ToSet(lookups[e])
                           /\ LookupsOnce(lookups'[e])
      /\ Head(lookups[b]) \in ToSet(lookups[b]) /\ Head(lookups[b]).kind = "request"
      /\ Head(lookups[b]).peer = a
      /\ \A w \in ToSet(lookups'[b]) : w.peer = a => w.kind # "request" /\ w.kind # "offer"
  BY <1>1, AnsweredEffect DEF Found
<1>3. a < b /\ a # b /\ ~(b < a)
  BY <1>2, Higher DEF LowerAsks, LookupsUp
<1>4. At("asked", a, b) /\ PairOK(a, b)
  BY <1>2, <1>3 DEF At, PairsOK
<1>5. /\ \A y : At(y, a, b) => y = "asked"
      /\ ~OfferSent(a, b) /\ b \in autoConnecting[a]
  BY <1>4 DEF PairOK, OneStep, OfferFirst
<1>6. /\ UNCHANGED <<pending, pendingRef, autoConnecting, yieldedManual>>
      /\ UNCHANGED <<trusted, attempts>>
  BY DEF DecideRequest, connected
<1>7. SameAttempts
  BY <1>6, SameOnChange
<1>8. \A i \in DOMAIN attempts : ~Offering(i, a, b)
  BY <1>5 DEF At
<1>9. ASSUME NEW how, Promised(how, a, b)'
      PROVE  \/ \E m \in ToSet(net'[b][a]) :
                   m \notin ToSet(net[b][a]) /\ m.type = "connect-accepted" /\ m.how = how
             \/ \E m \in ToSet(net'[a][b]) : m \notin ToSet(net[a][b]) /\ m.type = "webrtc-offer"
  <2>1. /\ \A m \in ToSet(net[b][a]) : m.type # "connect-accepted"
        /\ \A m \in ToSet(net[a][b]) : m.type # "webrtc-offer"
        /\ \A w \in ToSet(lookups[a]) : ~(w.kind = "accepted" /\ w.peer = b)
    BY <1>5 DEF At, OfferSent
  <2>2. \A i \in DOMAIN attempts' : ~Offering(i, a, b)'
    BY <1>6, <1>8 DEF Offering, UnderWay
  <2> QED BY <1>2, <1>9, <2>1, <2>2 DEF Promised
<1>10. CASE b \in AutoOn /\ a \in trusted[b]
  <2>1. /\ autoAccepted' = [autoAccepted EXCEPT ![b] = @ \cup {a}]
        /\ Send(b, a, Accepted("auto")) /\ UNCHANGED incoming
    BY <1>10 DEF DecideRequest
  <2>2. PICK m \in Frame(Len(attempts)) : m = Accepted("auto")
    BY <1>10, AttemptFacts, FrameFacts DEF FlowOK, Hows, AnyHow
  <2>3. m.type = "connect-accepted" /\ m.how = "auto"
    BY <2>2 DEF Accepted
  <2>4. Fresh(net[b][a], m)
    BY <1>5, <2>3 DEF Fresh, At
  <2>5. Send(b, a, m)
    BY <2>1, <2>2
  <2>6. /\ \A q, r \in Device : FramesOnce(net'[q][r])
        /\ \A q, r \in Device : \A x \in ToSet(net'[q][r]) :
             x \in ToSet(net[q][r]) \/ (q = b /\ r = a /\ x = m)
    <3>1. \A q, r \in Device : \A x \in ToSet(net'[q][r]) :
            x \in ToSet(net[q][r]) \/ (q = b /\ r = a /\ x = m)
      BY <2>5, SendEffect
    <3>2. \A q, r \in Device : FramesOnce(net'[q][r])
      BY <2>4, <2>5, SendEffect
    <3> QED BY <3>1, <3>2
  <2>7. \A q \in Device : autoAccepted'[q] = IF q = b THEN autoAccepted[b] \cup {a}
                                                      ELSE autoAccepted[q]
    <3>1. autoAccepted \in [Device -> SUBSET Device]
      BY DEF FlowOK, MarksOK
    <3> QED BY <2>1, <3>1
  <2>8. LowerAsks'
    <3> USE DEF LowerAsks
    <3>1. NothingPending' /\ PopupsUp' /\ AutoUp'
      BY <1>6, <2>1 DEF NothingPending, PopupsUp, AutoUp
    <3>2. FramesUp'
      BY <1>3, <2>3, <2>6 DEF FramesUp
    <3>3. LookupsUp'
      BY <1>2 DEF LookupsUp
    <3> QED BY <1>7, <3>1, <3>2, <3>3, OffersUpKept
  <2>9. QueuesOnce'
    BY <1>2, <2>6 DEF QueuesOnce
  <2>10. PairOK(a, b)'
    <3>1. ASSUME NEW y, At(y, a, b)' PROVE y = "granted"
      <4> SUFFICES ASSUME y # "granted" PROVE FALSE
        OBVIOUS
      <4>1. At(y, a, b)
        BY <1>2, <1>3, <1>6, <2>1, <2>3, <2>6, <3>1 DEF At, Offering, UnderWay
      <4>2. y = "asked"
        BY <1>5, <4>1
      <4> QED BY <1>2, <3>1, <4>2 DEF At
    <3>2. b \in autoConnecting'[a]
      BY <1>5, <1>6
    <3>3. ~OfferSent(a, b)' /\ ~OfferWaits(a, b)'
      BY <1>2, <1>3, <1>5, <2>6 DEF OfferSent, OfferWaits
    <3>4. ~At("none", a, b)'
      BY DEF At
    <3>5. a \in autoAccepted'[b] /\ b \in AutoOn /\ a \in trusted'[b]
      BY <1>6, <1>10, <2>7
    <3>6. \A how : Promised(how, a, b)' => how = "auto"
      BY <1>3, <1>9, <2>3, <2>6
    <3> QED BY <3>1, <3>2, <3>3, <3>4, <3>5, <3>6, PairMoved
  <2>11. ASSUME NEW c \in Device, NEW d \in Device, c < d, ~(c = a /\ d = b)
         PROVE  Shrinks(c, d)
    <3>1. ~(d = a /\ c = b)
      BY <1>3, <2>11
    <3>2. /\ \A f \in ToSet(net'[c][d]) : f \in ToSet(net[c][d])
          /\ \A f \in ToSet(net'[d][c]) : f \in ToSet(net[d][c])
      BY <2>6, <2>11, <3>1
    <3>3. c \in autoAccepted'[d] <=> c \in autoAccepted[d]
      BY <2>7, <2>11
    <3> QED BY <1>2, <1>6, <2>1, <3>2, <3>3 DEF Shrinks, Offering, UnderWay
  <2> QED BY <1>7, <2>8, <2>9, <2>10, <2>11, SilentKept, MoveKept
<1>11. CASE ~(b \in AutoOn /\ a \in trusted[b])
  <2>1. UNCHANGED <<autoAccepted, net>>
    BY <1>11 DEF DecideRequest
  <2>2. \A q \in Device : \A c \in ToSet(incoming'[q]) :
          c \in ToSet(incoming[q]) \/ (q = b /\ c = a)
    <3> DEFINE t == Append(Among(incoming[b], {n \in DOMAIN incoming[b] : incoming[b][n] # a}), a)
    <3>1. incoming' = [incoming EXCEPT ![b] = t]
      BY <1>11 DEF DecideRequest
    <3>2. incoming[b] \in Seq(Device) /\ IsInjective(incoming[b])
      BY DEF FlowOK, IncomingOK
    <3>3. \A n \in DOMAIN t : t[n] = a \/ t[n] \in ToSet(incoming[b])
      BY <3>2, PopupFacts
    <3> HIDE DEF t
    <3>4. \A c \in ToSet(t) : c = a \/ c \in ToSet(incoming[b])
      BY <3>3 DEF ToSet
    <3> QED BY <3>1, <3>4 DEF FlowOK, IncomingOK
  <2>3. LowerAsks'
    <3> USE DEF LowerAsks
    <3>1. NothingPending' /\ AutoUp' /\ FramesUp'
      BY <1>6, <2>1 DEF NothingPending, AutoUp, FramesUp
    <3>2. PopupsUp'
      BY <1>3, <2>2 DEF PopupsUp
    <3>3. LookupsUp'
      BY <1>2 DEF LookupsUp
    <3> QED BY <1>7, <3>1, <3>2, <3>3, OffersUpKept
  <2>4. QueuesOnce'
    BY <1>2, <2>1 DEF QueuesOnce
  <2>5. PairOK(a, b)'
    <3>1. ASSUME NEW y, At(y, a, b)' PROVE y = "shown"
      <4> SUFFICES ASSUME y # "shown" PROVE FALSE
        OBVIOUS
      <4>1. At(y, a, b)
        BY <1>2, <1>3, <1>6, <2>1, <3>1 DEF At, Offering, UnderWay
      <4>2. y = "asked"
        BY <1>5, <4>1
      <4> QED BY <1>2, <3>1, <4>2 DEF At
    <3>2. b \in autoConnecting'[a]
      BY <1>5, <1>6
    <3>3. ~OfferSent(a, b)' /\ ~OfferWaits(a, b)'
      BY <1>2, <1>5, <2>1 DEF OfferSent, OfferWaits
    <3>4. ~At("none", a, b)'
      BY DEF At
    <3>5. a \notin autoAccepted'[b]
      BY <1>4, <1>11, <2>1 DEF PairOK, MarkTrue
    <3>6. \A how : ~Promised(how, a, b)'
      BY <1>9, <2>1
    <3> QED BY <3>1, <3>2, <3>3, <3>4, <3>5, <3>6, PairMoved
  <2>6. ASSUME NEW c \in Device, NEW d \in Device, c < d, ~(c = a /\ d = b)
        PROVE  Shrinks(c, d)
    BY <1>2, <1>6, <2>1, <2>2, <2>6 DEF Shrinks, Offering, UnderWay
  <2> QED BY <1>7, <2>3, <2>4, <2>5, <2>6, SilentKept, MoveKept
<1> QED BY <1>10, <1>11

\* The first request leaves the popup.
LEMMA PopupTaken ==
  ASSUME FlowOK, NEW b \in Device, incoming[b] # <<>>,
         incoming' = [incoming EXCEPT ![b] = Tail(@)]
  PROVE  /\ \A q \in Device : ToSet(incoming'[q]) \subseteq ToSet(incoming[q])
         /\ Head(incoming[b]) \in ToSet(incoming[b])
         /\ Head(incoming[b]) \notin ToSet(incoming'[b])
<1> DEFINE s == incoming[b]
<1>1. s \in Seq(Device) /\ s # <<>> /\ IsInjective(s)
  BY DEF FlowOK, IncomingOK
<1>2. \A q \in Device : incoming'[q] = IF q = b THEN Tail(s) ELSE incoming[q]
  BY DEF FlowOK, IncomingOK
<1> HIDE DEF s
<1>3. /\ ToSet(Tail(s)) \subseteq ToSet(s) /\ Head(s) = s[1] /\ 1 \in DOMAIN s
      /\ Head(s) \in ToSet(s)
      /\ \A n \in DOMAIN Tail(s) : n + 1 \in DOMAIN s /\ Tail(s)[n] = s[n + 1] /\ 1 < n + 1
  BY <1>1, TailFacts
<1>4. Head(s) \notin ToSet(Tail(s))
  <2> SUFFICES ASSUME NEW n \in DOMAIN Tail(s), Tail(s)[n] = Head(s) PROVE FALSE
    BY DEF ToSet
  <2>1. s[n + 1] = s[1] /\ n + 1 \in DOMAIN s /\ 1 < n + 1
    BY <1>3
  <2>2. n + 1 = 1
    BY <1>1, <1>3, <2>1 DEF IsInjective
  <2> QED BY <2>1, <2>2
<1> QED BY <1>2, <1>3, <1>4 DEF s

\* The user of b accepts or rejects the request that is shown.
LEMMA AnswerPopupKeeps ==
  ASSUME QuietInv, NEW a \in Device, NEW b \in Device, a = Head(incoming[b]),
         AcceptRequest(b) \/ RejectRequest(b)
  PROVE  Kept
<1> USE DEF QuietInv
<1>1. PICK m \in Frame(Len(attempts)) :
        /\ AnswerPopup(b, m)
        /\ \/ m.type = "connect-accepted" /\ m.how = "popup"
           \/ m.type = "connect-rejected"
  <2>1. /\ Accepted("popup") \in Frame(Len(attempts)) /\ Rejected \in Frame(Len(attempts))
        /\ Accepted("popup").type = "connect-accepted" /\ Accepted("popup").how = "popup"
        /\ Rejected.type = "connect-rejected"
    BY AttemptFacts, FrameFacts DEF FlowOK, Hows, AnyHow, Accepted, Rejected
  <2> QED BY <2>1 DEF AcceptRequest, RejectRequest
<1>2. /\ \A q \in Device : ToSet(incoming'[q]) \subseteq ToSet(incoming[q])
      /\ a \in ToSet(incoming[b]) /\ a \notin ToSet(incoming'[b])
  BY <1>1, PopupTaken DEF AnswerPopup
<1>3. a < b /\ a # b /\ ~(b < a)
  BY <1>2, Higher DEF LowerAsks, PopupsUp
<1>4. At("shown", a, b) /\ PairOK(a, b)
  BY <1>2, <1>3 DEF At, PairsOK
<1>5. /\ \A y : At(y, a, b) => y = "shown"
      /\ ~OfferSent(a, b) /\ ~OfferWaits(a, b) /\ b \in autoConnecting[a]
      /\ a \notin autoAccepted[b]
  BY <1>4 DEF PairOK, OneStep, OfferFirst, MarkTrue
<1>6. /\ UNCHANGED <<pending, pendingRef, autoConnecting, autoAccepted, yieldedManual>>
      /\ UNCHANGED <<trusted, attempts, lookups>>
  BY <1>1 DEF AnswerPopup, connected
<1>7. SameAttempts
  BY <1>6, SameOnChange
<1>8. \A i \in DOMAIN attempts : ~Offering(i, a, b)
  BY <1>5 DEF At
<1>9. Fresh(net[b][a], m)
  BY <1>1, <1>5 DEF Fresh, At
<1>10. /\ \A q, r \in Device : FramesOnce(net'[q][r])
       /\ \A q, r \in Device : \A x \in ToSet(net'[q][r]) :
            x \in ToSet(net[q][r]) \/ (q = b /\ r = a /\ x = m)
  <2>1. Send(b, a, m)
    BY <1>1 DEF AnswerPopup
  <2>2. OnlyNew(b, a, m)
    BY <2>1, SentOnly
  <2>3. \A q, r \in Device : FramesOnce(net'[q][r])
    BY <1>9, <2>1, SendEffect
  <2> QED BY <2>2, <2>3 DEF OnlyNew
<1>11. LowerAsks'
  <2> USE DEF LowerAsks
  <2>1. NothingPending' /\ AutoUp'
    BY <1>6 DEF NothingPending, AutoUp
  <2>2. PopupsUp'
    BY <1>2 DEF PopupsUp
  <2>3. FramesUp'
    BY <1>1, <1>3, <1>10 DEF FramesUp
  <2>4. LookupsUp'
    BY <1>6 DEF LookupsUp
  <2> QED BY <1>7, <2>1, <2>2, <2>3, <2>4, OffersUpKept
<1>12. QueuesOnce'
  BY <1>6, <1>10 DEF QueuesOnce
<1>13. PairOK(a, b)'
  <2>1. PICK x : \/ x = "granted" /\ m.type = "connect-accepted"
                 \/ x = "refused" /\ m.type = "connect-rejected"
    BY <1>1
  <2>2. ASSUME NEW y, At(y, a, b)' PROVE y = x
    <3> SUFFICES ASSUME y # x PROVE FALSE
      OBVIOUS
    <3>1. At(y, a, b)
      BY <1>2, <1>3, <1>6, <1>10, <2>1, <2>2 DEF At, Offering, UnderWay
    <3>2. y = "shown"
      BY <1>5, <3>1
    <3> QED BY <1>2, <2>2, <3>2 DEF At
  <2>3. b \in autoConnecting'[a] /\ a \notin autoAccepted'[b]
    BY <1>5, <1>6
  <2>4. ~OfferSent(a, b)' /\ ~OfferWaits(a, b)'
    BY <1>3, <1>5, <1>6, <1>10 DEF OfferSent, OfferWaits
  <2>5. ~At("none", a, b)'
    BY DEF At
  <2>6. ASSUME NEW how, Promised(how, a, b)' PROVE how # "auto"
    <3>1. /\ \A n \in ToSet(net[b][a]) : n.type # "connect-accepted"
          /\ \A w \in ToSet(lookups[a]) : ~(w.kind = "accepted" /\ w.peer = b)
      BY <1>5 DEF At
    <3>2. \A i \in DOMAIN attempts' : ~Offering(i, a, b)'
      BY <1>6, <1>8 DEF Offering, UnderWay
    <3>3. \E n \in ToSet(net'[b][a]) : n.type = "connect-accepted" /\ n.how = how
      BY <1>6, <2>4, <2>6, <3>1, <3>2 DEF Promised, OfferSent, OfferWaits
    <3> QED BY <1>1, <1>10, <3>1, <3>3
  <2> QED BY <2>1, <2>2, <2>3, <2>4, <2>5, <2>6, PairMoved
<1>14. ASSUME NEW c \in Device, NEW d \in Device, c < d, ~(c = a /\ d = b)
       PROVE  Shrinks(c, d)
  <2>1. ~(d = a /\ c = b)
    BY <1>3, <1>14
  <2>2. /\ \A n \in ToSet(net'[c][d]) : n \in ToSet(net[c][d])
        /\ \A n \in ToSet(net'[d][c]) : n \in ToSet(net[d][c])
    BY <1>10, <1>14, <2>1
  <2> QED BY <1>2, <1>6, <2>2 DEF Shrinks, Offering, UnderWay
<1> QED BY <1>7, <1>11, <1>12, <1>13, <1>14, SilentKept, MoveKept

\* onConnectionRejected: the request is over.
LEMMA HandleRejectedKeeps ==
  ASSUME QuietInv, NEW a \in Device, NEW b \in Device, HandleRejected(a, b)
  PROVE  Kept
<1> USE DEF QuietInv
<1>1. /\ \A q, r \in Device : /\ ToSet(net'[q][r]) \subseteq ToSet(net[q][r])
                              /\ FramesOnce(net'[q][r])
      /\ Head(net[b][a]) \in ToSet(net[b][a]) /\ Head(net[b][a]).type = "connect-rejected"
      /\ \A m \in ToSet(net'[b][a]) : m.type # "connect-rejected"
  BY TakeEffect DEF HandleRejected, Calls
<1>2. a < b /\ a # b /\ ~(b < a)
  BY <1>1, Higher DEF LowerAsks, FramesUp
<1>3. At("refused", a, b) /\ PairOK(a, b)
  BY <1>1, <1>2 DEF At, PairsOK
<1>4. \A y : At(y, a, b) => y = "refused"
  BY <1>3 DEF PairOK, OneStep
<1>5. /\ UNCHANGED <<pending, pendingRef, autoAccepted, yieldedManual, incoming>>
      /\ UNCHANGED <<trusted, attempts, lookups>>
      /\ autoConnecting' = [autoConnecting EXCEPT ![a] = @ \ {b}]
  BY FlowAssumption DEF HandleRejected, connected, LowerAsks, NothingPending
<1>6. \A q \in Device : autoConnecting'[q] = IF q = a THEN autoConnecting[a] \ {b}
                                                      ELSE autoConnecting[q]
  BY <1>5 DEF FlowOK, MarksOK
<1>7. SameAttempts
  BY <1>5, SameOnChange
<1>8. LowerAsks'
  <2> USE DEF LowerAsks
  <2>1. NothingPending' /\ PopupsUp' /\ LookupsUp'
    BY <1>5 DEF NothingPending, PopupsUp, LookupsUp
  <2>2. AutoUp'
    BY <1>6 DEF AutoUp
  <2>3. FramesUp'
    BY <1>1 DEF FramesUp
  <2> QED BY <1>7, <2>1, <2>2, <2>3, OffersUpKept
<1>9. QueuesOnce'
  BY <1>1, <1>5 DEF QueuesOnce
<1>10. PairOK(a, b)'
  <2>1. ASSUME NEW y, At(y, a, b)' PROVE FALSE
    <3>1. At(y, a, b)
      BY <1>1, <1>5, <2>1 DEF At, Offering, UnderWay
    <3>2. y = "refused"
      BY <1>4, <3>1
    <3> QED BY <1>1, <2>1, <3>2 DEF At
  <2>2. /\ OfferSent(a, b)' => OfferSent(a, b)
        /\ OfferWaits(a, b)' => OfferWaits(a, b)
    BY <1>1, <1>5 DEF OfferSent, OfferWaits
  <2>3. ~(OfferSent(a, b)' /\ OfferWaits(a, b)')
    BY <1>3, <2>2 DEF PairOK, OfferFirst
  <2>4. ~At("none", a, b)'
    BY DEF At
  <2>5. \A how : Promised(how, a, b)' => Promised(how, a, b)
    BY <1>1, <1>5 DEF Promised, Offering, UnderWay
  <2> QED BY <1>3, <1>5, <2>1, <2>3, <2>4, <2>5, PairMoved DEF PairOK, MarkTrue
<1>11. ASSUME NEW c \in Device, NEW d \in Device, c < d, ~(c = a /\ d = b)
       PROVE  Shrinks(c, d)
  <2>1. d \in autoConnecting[c] => d \in autoConnecting'[c]
    BY <1>6, <1>11
  <2> QED BY <1>1, <1>5, <2>1 DEF Shrinks, Offering, UnderWay
<1> QED BY <1>7, <1>8, <1>9, <1>10, <1>11, SilentKept, MoveKept

\* The request of a to b has led to an attempt that is under way.
LEMMA OfferMoved ==
  ASSUME NEW a \in Device, NEW b \in Device,
         \A y : At(y, a, b)' => y = "offering",
         b \in autoConnecting'[a],
         \A i, j \in DOMAIN attempts' : Offering(i, a, b)' /\ Offering(j, a, b)' => i = j,
         ~(OfferSent(a, b)' /\ OfferWaits(a, b)'),
         Gathering(a, b)' => ~OfferSent(a, b)' /\ ~OfferWaits(a, b)',
         a \in autoAccepted'[b] => b \in AutoOn /\ a \in trusted'[b],
         \A how : Promised(how, a, b)' => (how = "auto" <=> a \in autoAccepted'[b])
  PROVE  PairOK(a, b)'
<1>1. OneStep(a, b)'
  BY DEF OneStep
<1>2. OfferFirst(a, b)'
  BY DEF OfferFirst
<1>3. MarkTrue(a, b)'
  BY DEF MarkTrue
<1> QED BY <1>1, <1>2, <1>3 DEF PairOK

\* A new attempt leaves the others as they are.
LEMMA AttemptMade ==
  ASSUME FlowOK, NEW r, attempts' = Append(attempts, r)
  PROVE  /\ \A i \in DOMAIN attempts : i \in DOMAIN attempts' /\ attempts'[i] = attempts[i]
         /\ \A i \in DOMAIN attempts' :
              i \in DOMAIN attempts \/ (i = Len(attempts) + 1 /\ attempts'[i] = r)
         /\ Len(attempts) + 1 \notin DOMAIN attempts
<1>1. /\ Len(attempts) \in Nat /\ DOMAIN attempts = 1..Len(attempts)
      /\ attempts \in Seq(AttemptType \cup {r}) /\ r \in AttemptType \cup {r}
  BY AttemptFacts, SeqGrows DEF FlowOK, AttemptsOK
<1>2. /\ Append(attempts, r) \in Seq(AttemptType \cup {r})
      /\ Len(Append(attempts, r)) = Len(attempts) + 1
      /\ \A i \in 1..Len(attempts) : Append(attempts, r)[i] = attempts[i]
      /\ Append(attempts, r)[Len(attempts) + 1] = r
  BY <1>1, AppendProperties
<1>3. DOMAIN attempts' = 1..(Len(attempts) + 1)
  BY <1>2, LenProperties
<1> QED BY <1>1, <1>2, <1>3

\* The attempt to make an offer that is new.
OnlyOffer(a, b, how) ==
  \A c, d \in Device : \A i \in DOMAIN attempts' : Offering(i, c, d)' =>
    \/ i \in DOMAIN attempts /\ Offering(i, c, d)
    \/ c = a /\ d = b /\ i = Len(attempts) + 1 /\ attempts'[i].how = how

\* a begins to make an offer to b that nobody clicked for.
LEMMA OfferStarted ==
  ASSUME FlowOK, NEW a \in Device, NEW b \in Device, a < b, NEW how,
         StartOffer(a, b, FALSE, how)
  PROVE  /\ OffersUp => OffersUp'
         /\ AutoAcceptIsSilent => AutoAcceptIsSilent'
         /\ \A i \in DOMAIN attempts : i \in DOMAIN attempts' /\ attempts'[i] = attempts[i]
         /\ OnlyOffer(a, b, how)
<1> DEFINE r == Attempt(a, b, "offerer", 0, FALSE, how, FALSE)
<1>1. /\ r.dev = a /\ r.peer = b /\ r.role = "offerer" /\ r.manual = FALSE /\ r.how = how
  BY DEF Attempt
<1>2. attempts' = Append(attempts, r)
  BY DEF StartOffer
<1> HIDE DEF r
<1>3. /\ \A i \in DOMAIN attempts : i \in DOMAIN attempts' /\ attempts'[i] = attempts[i]
      /\ \A i \in DOMAIN attempts' :
           i \in DOMAIN attempts \/ (i = Len(attempts) + 1 /\ attempts'[i] = r)
  BY <1>2, AttemptMade
<1>4. OffersUp => OffersUp'
  BY <1>1, <1>3 DEF OffersUp
<1>5. AutoAcceptIsSilent => AutoAcceptIsSilent'
  BY <1>1, <1>3 DEF AutoAcceptIsSilent
<1>6. ASSUME NEW c \in Device, NEW d \in Device, NEW i \in DOMAIN attempts', Offering(i, c, d)'
      PROVE  \/ i \in DOMAIN attempts /\ Offering(i, c, d)
             \/ c = a /\ d = b /\ i = Len(attempts) + 1 /\ attempts'[i].how = how
  BY <1>1, <1>3, <1>6 DEF Offering, UnderWay
<1> QED BY <1>3, <1>4, <1>5, <1>6 DEF OnlyOffer

\* An accept leads to an attempt whether it was just handled or looked up.
LEMMA OfferBegins ==
  ASSUME QuietInv, NEW a \in Device, NEW b \in Device, a < b, NEW how, NEW x,
         At(x, a, b), x \in {"granted", "awaited"}, Promised(how, a, b),
         StartOffer(a, b, FALSE, how),
         \A q, r \in Device : ToSet(net'[q][r]) \subseteq ToSet(net[q][r]) /\ FramesOnce(net'[q][r]),
         \A e \in Device : ToSet(lookups'[e]) \subseteq ToSet(lookups[e]) /\ LookupsOnce(lookups'[e]),
         ~At(x, a, b)',
         UNCHANGED <<pending, pendingRef, autoConnecting, autoAccepted, yieldedManual, incoming>>,
         UNCHANGED trusted
  PROVE  Kept
<1> USE DEF QuietInv
<1>1. PairOK(a, b)
  BY DEF PairsOK
<1>2. /\ \A y : At(y, a, b) => y = x
      /\ ~OfferSent(a, b) /\ ~OfferWaits(a, b) /\ b \in autoConnecting[a]
  BY <1>1 DEF PairOK, OneStep, OfferFirst
<1>3. \A i \in DOMAIN attempts : ~Offering(i, a, b)
  BY <1>2 DEF At
<1>4. /\ OffersUp' /\ AutoAcceptIsSilent'
      /\ \A i \in DOMAIN attempts : i \in DOMAIN attempts' /\ attempts'[i] = attempts[i]
      /\ \A c, d \in Device : \A i \in DOMAIN attempts' : Offering(i, c, d)' =>
           \/ i \in DOMAIN attempts /\ Offering(i, c, d)
           \/ c = a /\ d = b /\ i = Len(attempts) + 1 /\ attempts'[i].how = how
  <2>1. OffersUp
    BY DEF LowerAsks
  <2>2. OffersUp' /\ AutoAcceptIsSilent'
    BY <2>1, OfferStarted
  <2>3. \A i \in DOMAIN attempts : i \in DOMAIN attempts' /\ attempts'[i] = attempts[i]
    BY OfferStarted
  <2>4. OnlyOffer(a, b, how)
    BY OfferStarted
  <2> QED BY <2>2, <2>3, <2>4 DEF OnlyOffer
<1>5. LowerAsks'
  <2> USE DEF LowerAsks
  <2>1. NothingPending' /\ AutoUp' /\ PopupsUp'
    BY DEF NothingPending, AutoUp, PopupsUp
  <2>2. FramesUp' /\ LookupsUp'
    BY DEF FramesUp, LookupsUp
  <2> QED BY <1>4, <2>1, <2>2
<1>6. QueuesOnce'
  BY DEF QueuesOnce
<1>7. PairOK(a, b)'
  <2>1. ASSUME NEW y, At(y, a, b)' PROVE y = "offering"
    <3> SUFFICES ASSUME y # "offering" PROVE FALSE
      OBVIOUS
    <3>1. At(y, a, b)
      BY <2>1 DEF At
    <3> QED BY <1>2, <2>1, <3>1
  <2>2. ~OfferSent(a, b)' /\ ~OfferWaits(a, b)'
    BY <1>2 DEF OfferSent, OfferWaits
  <2>3. \A i, j \in DOMAIN attempts' : Offering(i, a, b)' /\ Offering(j, a, b)' => i = j
    BY <1>3, <1>4
  <2>4. ASSUME NEW h, Promised(h, a, b)' PROVE Promised(h, a, b)
    <3>1. CASE \E m \in ToSet(net'[b][a]) : m.type = "connect-accepted" /\ m.how = h
      BY <3>1 DEF Promised
    <3>2. CASE \E w \in ToSet(lookups'[a]) : w.kind = "accepted" /\ w.peer = b /\ w.how = h
      BY <3>2 DEF Promised
    <3>3. CASE \E i \in DOMAIN attempts' : Offering(i, a, b)' /\ attempts'[i].how = h
      BY <1>3, <1>4, <3>3
    <3> QED BY <2>2, <2>4, <3>1, <3>2, <3>3 DEF Promised, OfferSent, OfferWaits
  <2>5. b \in autoConnecting'[a]
    BY <1>2
  <2> QED BY <1>1, <2>1, <2>2, <2>3, <2>4, <2>5, OfferMoved DEF PairOK, MarkTrue
<1>8. ASSUME NEW c \in Device, NEW d \in Device, c < d, ~(c = a /\ d = b)
      PROVE  Shrinks(c, d)
  <2>1. \A i \in DOMAIN attempts' : Offering(i, c, d)' =>
          i \in DOMAIN attempts /\ Offering(i, c, d) /\ attempts'[i] = attempts[i]
    BY <1>4, <1>8
  <2> QED BY <1>4, <2>1 DEF Shrinks
<1> QED BY <1>4, <1>5, <1>6, <1>7, <1>8, MoveKept

\* onConnectionAccepted up to its await.
LEMMA HandleAcceptedKeeps ==
  ASSUME QuietInv, NEW a \in Device, NEW b \in Device, HandleAccepted(a, b)
  PROVE  Kept
<1> USE DEF QuietInv
<1> DEFINE manual == pendingRef[a] = b
           how == Head(net[b][a]).how
           w == [kind |-> "accepted", peer |-> b, manual |-> FALSE, how |-> how]
<1>1. Arrived(a, b, "connect-accepted") /\ Take(a, b)
  BY DEF HandleAccepted
<1>2. /\ \A q, r \in Device : /\ ToSet(net'[q][r]) \subseteq ToSet(net[q][r])
                              /\ FramesOnce(net'[q][r])
      /\ Head(net[b][a]) \in ToSet(net[b][a]) /\ Head(net[b][a]).type = "connect-accepted"
      /\ \A m \in ToSet(net'[b][a]) : m.type # "connect-accepted"
  BY <1>1, TakeEffect DEF Calls
<1>3. a < b /\ a # b /\ ~(b < a)
  BY <1>2, Higher DEF LowerAsks, FramesUp
<1>4. At("granted", a, b) /\ PairOK(a, b) /\ Promised(how, a, b)
  BY <1>2, <1>3 DEF At, PairsOK, Promised
<1>5. /\ \A y : At(y, a, b) => y = "granted"
      /\ ~OfferSent(a, b) /\ ~OfferWaits(a, b) /\ b \in autoConnecting[a]
  BY <1>4 DEF PairOK, OneStep, OfferFirst
<1>6. ~At("granted", a, b)'
  BY <1>2 DEF At
<1>7. manual = FALSE
  BY FlowAssumption DEF LowerAsks, NothingPending
<1>8. UNCHANGED <<pending, pendingRef, autoConnecting, autoAccepted, yieldedManual, incoming, trusted>>
  BY DEF HandleAccepted, requests
<1>9. \/ StartOffer(a, b, FALSE, how) /\ UNCHANGED lookups
      \/ lookups' = [lookups EXCEPT ![a] = Append(@, w)] /\ UNCHANGED attempts
  <2>1. \/ StartOffer(a, b, manual, how) /\ UNCHANGED lookups
        \/ lookups' = [lookups EXCEPT ![a] = Append(@,
                         [kind |-> "accepted", peer |-> b, manual |-> manual, how |-> how])]
           /\ UNCHANGED attempts
    BY <1>5 DEF HandleAccepted
  <2> HIDE DEF manual
  <2> QED BY <1>7, <2>1
<1>10. CASE StartOffer(a, b, FALSE, how) /\ UNCHANGED lookups
  <2>1. \A e \in Device : ToSet(lookups'[e]) \subseteq ToSet(lookups[e]) /\ LookupsOnce(lookups'[e])
    BY <1>10 DEF QueuesOnce
  <2> HIDE DEF how
  <2> QED BY <1>2, <1>3, <1>4, <1>6, <1>8, <1>10, <2>1, OfferBegins
<1>11. CASE lookups' = [lookups EXCEPT ![a] = Append(@, w)] /\ UNCHANGED attempts
  <2>1. how \in Hows
    <3>1. Head(net[b][a]) \in Frame(Len(attempts))
      BY <1>2, InFacts DEF FlowOK, NetOK
    <3> QED BY <1>2, <3>1, AttemptFacts, FramesAre DEF FlowOK
  <2> HIDE DEF how
  <2>2. /\ w \in Waiting(Len(attempts)) /\ w.kind = "accepted" /\ w.peer = b
        /\ w.manual = FALSE /\ w.how = how
    BY <2>1 DEF Waiting
  <2> HIDE DEF w
  <2>3. /\ \A e \in Device : \A x \in ToSet(lookups'[e]) :
             x \in ToSet(lookups[e]) \/ (e = a /\ x = w)
        /\ \A e \in Device : LookupsOnce(lookups'[e])
    <3>1. \A x \in ToSet(lookups[a]) : x.peer = w.peer =>
            /\ w.kind # "peers" => x.kind # w.kind
            /\ w.kind = "offer" => x.kind # "request"
      BY <1>5, <2>2 DEF At
    <3> QED BY <1>11, <2>2, <3>1, WaitEffect
  <2>4. SameAttempts
    BY <1>11, SameOnChange
  <2>5. LowerAsks'
    <3> USE DEF LowerAsks
    <3>1. NothingPending' /\ AutoUp' /\ PopupsUp'
      BY <1>8 DEF NothingPending, AutoUp, PopupsUp
    <3>2. FramesUp'
      BY <1>2 DEF FramesUp
    <3>3. LookupsUp'
      BY <1>3, <2>2, <2>3 DEF LookupsUp
    <3> QED BY <2>4, <3>1, <3>2, <3>3, OffersUpKept
  <2>6. QueuesOnce'
    BY <1>2, <2>3 DEF QueuesOnce
  <2>7. PairOK(a, b)'
    <3>1. ASSUME NEW y, At(y, a, b)' PROVE y = "awaited"
      <4> SUFFICES ASSUME y # "awaited" PROVE FALSE
        OBVIOUS
      <4>1. At(y, a, b)
        BY <1>2, <1>3, <1>8, <1>11, <2>2, <2>3, <3>1 DEF At, Offering, UnderWay
      <4> QED BY <1>5, <1>6, <3>1, <4>1
    <3>2. ~OfferSent(a, b)' /\ ~OfferWaits(a, b)'
      BY <1>2, <1>3, <1>5, <2>3 DEF OfferSent, OfferWaits
    <3>3. ~At("none", a, b)'
      BY DEF At
    <3>4. ASSUME NEW h, Promised(h, a, b)' PROVE Promised(h, a, b)
      <4>1. CASE \E m \in ToSet(net'[b][a]) : m.type = "connect-accepted" /\ m.how = h
        BY <1>2, <4>1
      <4>2. CASE \E x \in ToSet(lookups'[a]) : x.kind = "accepted" /\ x.peer = b /\ x.how = h
        BY <1>4, <2>2, <2>3, <4>2 DEF Promised
      <4>3. CASE \E i \in DOMAIN attempts' : Offering(i, a, b)' /\ attempts'[i].how = h
        <5>1. ~At("offering", a, b)
          BY <1>5
        <5> QED BY <1>11, <4>3, <5>1 DEF At, Offering, UnderWay
      <4> QED BY <3>2, <3>4, <4>1, <4>2, <4>3 DEF Promised, OfferSent, OfferWaits
    <3> QED BY <1>4, <1>5, <1>8, <3>1, <3>2, <3>3, <3>4, PairMoved DEF PairOK, MarkTrue
  <2>8. ASSUME NEW c \in Device, NEW d \in Device, c < d, ~(c = a /\ d = b)
        PROVE  Shrinks(c, d)
    <3>1. ~(d = a /\ c = b)
      BY <1>3, <2>8
    <3> QED BY <1>2, <1>8, <1>11, <2>2, <2>3, <2>8, <3>1 DEF Shrinks, Offering, UnderWay
  <2> QED BY <2>4, <2>5, <2>6, <2>7, <2>8, SilentKept, MoveKept
<1> QED BY <1>9, <1>10, <1>11

\* A request ends without an attempt that is under way: the mark on a goes.
LEMMA OfferEnds ==
  ASSUME QuietInv, NEW a \in Device, NEW b \in Device, a < b, NEW x,
         At(x, a, b), x \in {"awaited", "offering"}, ~At(x, a, b)',
         SameAttempts,
         \A i \in DOMAIN attempts :
           attempts'[i].stage = attempts[i].stage \/ attempts'[i].stage \in {"attached", "abandoned"},
         \A e \in Device : ToSet(lookups'[e]) \subseteq ToSet(lookups[e]) /\ LookupsOnce(lookups'[e]),
         autoConnecting' = [autoConnecting EXCEPT ![a] = @ \ {b}],
         UNCHANGED <<net, pending, pendingRef, autoAccepted, yieldedManual, incoming>>,
         \A d \in Device : trusted[d] \subseteq trusted'[d]
  PROVE  Kept
<1> USE DEF QuietInv
<1>1. PairOK(a, b)
  BY DEF PairsOK
<1>2. \A y : At(y, a, b) => y = x
  BY <1>1 DEF PairOK, OneStep
<1>3. \A q \in Device : autoConnecting'[q] = IF q = a THEN autoConnecting[a] \ {b}
                                                      ELSE autoConnecting[q]
  BY DEF FlowOK, MarksOK
<1>4. \A i \in DOMAIN attempts' : i \in DOMAIN attempts /\ attempts'[i].how = attempts[i].how
  BY DEF SameAttempts
<1>5. \A c, d \in Device : \A i \in DOMAIN attempts' : Offering(i, c, d)' =>
        Offering(i, c, d) /\ (attempts'[i].stage = "gathering" => attempts[i].stage = "gathering")
  BY DEF SameAttempts, Offering, UnderWay
<1>6. LowerAsks'
  <2> USE DEF LowerAsks
  <2>1. NothingPending' /\ PopupsUp' /\ FramesUp'
    BY DEF NothingPending, PopupsUp, FramesUp
  <2>2. AutoUp'
    BY <1>3 DEF AutoUp
  <2>3. LookupsUp'
    BY DEF LookupsUp
  <2> QED BY <2>1, <2>2, <2>3, OffersUpKept
<1>7. QueuesOnce'
  BY DEF QueuesOnce
<1>8. PairOK(a, b)'
  <2>1. ASSUME NEW y, At(y, a, b)' PROVE FALSE
    <3>1. At(y, a, b)
      BY <1>4, <1>5, <2>1 DEF At
    <3> QED BY <1>2, <2>1, <3>1
  <2>2. /\ OfferSent(a, b)' => OfferSent(a, b)
        /\ OfferWaits(a, b)' => OfferWaits(a, b)
    BY DEF OfferSent, OfferWaits
  <2>3. ~(OfferSent(a, b)' /\ OfferWaits(a, b)')
    BY <1>1, <2>2 DEF PairOK, OfferFirst
  <2>4. ~At("none", a, b)'
    BY DEF At
  <2>5. ASSUME NEW how, Promised(how, a, b)' PROVE Promised(how, a, b)
    <3>1. CASE \E m \in ToSet(net[b][a]) : m.type = "connect-accepted" /\ m.how = how
      BY <3>1 DEF Promised
    <3>2. CASE \E w \in ToSet(lookups'[a]) : w.kind = "accepted" /\ w.peer = b /\ w.how = how
      BY <3>2 DEF Promised
    <3>3. CASE \E i \in DOMAIN attempts' :
                 Offering(i, a, b)' /\ attempts'[i].stage = "gathering" /\ attempts'[i].how = how
      BY <1>4, <1>5, <3>3 DEF Promised
    <3>4. CASE \E m \in ToSet(net[a][b]) : m.type = "webrtc-offer" /\ attempts'[m.id].how = how
      BY <3>4, NamedAttempts DEF Promised, SameAttempts
    <3>5. CASE \E w \in ToSet(lookups'[b]) :
                 w.kind = "offer" /\ w.peer = a /\ attempts'[w.id].how = how
      BY <3>5, NamedAttempts DEF Promised, SameAttempts
    <3> QED BY <2>5, <3>1, <3>2, <3>3, <3>4, <3>5 DEF Promised
  <2>6. a \in trusted[b] => a \in trusted'[b]
    OBVIOUS
  <2> QED BY <1>1, <2>1, <2>3, <2>4, <2>5, <2>6, PairMoved DEF PairOK, MarkTrue
<1>9. ASSUME NEW c \in Device, NEW d \in Device, c < d, ~(c = a /\ d = b)
      PROVE  Shrinks(c, d)
  <2>1. d \in autoConnecting[c] => d \in autoConnecting'[c]
    BY <1>3, <1>9
  <2>2. \A i \in DOMAIN attempts : attempts'[i].how = attempts[i].how
    BY DEF SameAttempts
  <2> QED BY <1>4, <1>5, <2>1, <2>2 DEF Shrinks
<1> QED BY <1>6, <1>7, <1>8, <1>9, SilentKept, MoveKept

\* The rest of onConnectionAccepted.
LEMMA ResolveAcceptedKeeps ==
  ASSUME QuietInv, NEW a \in Device, NEW b \in Device, b = Found(a), ResolveAccepted(a)
  PROVE  Kept
<1> USE DEF QuietInv
<1> DEFINE w == Head(lookups[a])
<1>1. Answered(a, "accepted")
  BY DEF ResolveAccepted
<1>2. /\ \A e \in Device : /\ ToSet(lookups'[e]) \subseteq ToSet(lookups[e])
                           /\ LookupsOnce(lookups'[e])
      /\ w \in ToSet(lookups[a]) /\ w.kind = "accepted" /\ w.peer = b
      /\ \A x \in ToSet(lookups'[a]) : x.peer = b => x.kind # "accepted"
  BY <1>1, AnsweredEffect DEF Found
<1>3. a < b /\ w.manual = FALSE
  BY <1>2 DEF LowerAsks, LookupsUp
<1>4. At("awaited", a, b) /\ Promised(w.how, a, b)
  BY <1>2 DEF At, Promised
<1>5. ~At("awaited", a, b)'
  BY <1>2 DEF At
<1>6. UNCHANGED <<net, pendingRef, autoAccepted, yieldedManual, incoming, trusted>>
  BY DEF ResolveAccepted
<1>7. \/ StartOffer(a, b, FALSE, w.how) /\ UNCHANGED <<pending, autoConnecting>>
      \/ UNCHANGED <<attempts, pending>> /\ autoConnecting' = [autoConnecting EXCEPT ![a] = @ \ {b}]
  <2>1. \/ StartOffer(a, b, w.manual, w.how) /\ UNCHANGED <<pending, autoConnecting>>
        \/ UNCHANGED attempts /\ Finally(a, b, w.manual)
    BY <1>2 DEF ResolveAccepted
  <2> HIDE DEF w
  <2> QED BY <1>3, <2>1 DEF Finally
<1> HIDE DEF w
<1>8. CASE StartOffer(a, b, FALSE, w.how) /\ UNCHANGED <<pending, autoConnecting>>
  <2>1. \A q, r \in Device : ToSet(net'[q][r]) \subseteq ToSet(net[q][r]) /\ FramesOnce(net'[q][r])
    BY <1>6 DEF QueuesOnce
  <2> QED BY <1>2, <1>3, <1>4, <1>5, <1>6, <1>8, <2>1, OfferBegins
<1>9. CASE /\ UNCHANGED <<attempts, pending>>
           /\ autoConnecting' = [autoConnecting EXCEPT ![a] = @ \ {b}]
  <2>1. SameAttempts
    BY <1>9, SameOnChange
  <2> QED BY <1>2, <1>3, <1>4, <1>5, <1>6, <1>9, <2>1, OfferEnds
<1> QED BY <1>7, <1>8, <1>9

\* The candidates of a's attempt i are gathered and the offer goes out.
LEMMA OfferGoesOut ==
  ASSUME QuietInv, NEW i \in DOMAIN attempts, NEW a \in Device, NEW b \in Device,
         attempts[i].dev = a, attempts[i].peer = b, attempts[i].role = "offerer", Gathered(i)
  PROVE  Kept
<1> USE DEF QuietInv
<1>1. /\ \A l \in DOMAIN attempts : attempts[l] \in AttemptType
      /\ attempts \in [DOMAIN attempts -> AttemptType]
      /\ Len(attempts) \in Nat /\ i \in 1..Len(attempts)
  BY AttemptFacts DEF FlowOK
<1>2. a < b /\ a # b /\ ~(b < a)
  BY Higher DEF LowerAsks, OffersUp
<1>3. Offering(i, a, b) /\ attempts[i].stage = "gathering"
  BY DEF Offering, UnderWay, Gathered
<1>4. At("offering", a, b) /\ Gathering(a, b) /\ PairOK(a, b)
  BY <1>2, <1>3 DEF At, Gathering, PairsOK
<1>5. /\ \A y : At(y, a, b) => y = "offering"
      /\ ~OfferSent(a, b) /\ ~OfferWaits(a, b) /\ b \in autoConnecting[a]
      /\ \A j \in DOMAIN attempts : Offering(j, a, b) => j = i
  BY <1>3, <1>4 DEF PairOK, OneStep, OfferFirst
<1>6. SameAttempts
  BY SameOnChange
<1>7. /\ attempts'[i].stage = "listening"
      /\ \A l \in DOMAIN attempts : l # i => attempts'[l] = attempts[l]
  BY <1>1 DEF Gathered, AttemptType
<1>8. PICK m \in Frame(Len(attempts)) : m = Offer(i)
  BY <1>1, FrameFacts
<1>9. m.type = "webrtc-offer" /\ m.id = i
  BY <1>8 DEF Offer
<1>10. Send(a, b, m)
  BY <1>8 DEF Gathered
<1>11. Fresh(net[a][b], m)
  BY <1>5, <1>9 DEF Fresh, At, OfferSent
<1>12. /\ \A q, r \in Device : FramesOnce(net'[q][r])
       /\ \A q, r \in Device : \A x \in ToSet(net'[q][r]) :
            x \in ToSet(net[q][r]) \/ (q = a /\ r = b /\ x = m)
  <2>1. OnlyNew(a, b, m)
    BY <1>10, SentOnly
  <2>2. \A q, r \in Device : FramesOnce(net'[q][r])
    BY <1>10, <1>11, SendEffect
  <2> QED BY <2>1, <2>2 DEF OnlyNew
<1>13. UNCHANGED <<lookups, trusted, pending, pendingRef, autoConnecting, autoAccepted,
                   yieldedManual, incoming>>
  BY DEF Gathered, requests
<1>14. \A c, d \in Device : \A j \in DOMAIN attempts' : Offering(j, c, d)' =>
         /\ j \in DOMAIN attempts /\ Offering(j, c, d)
         /\ attempts'[j].stage = "gathering" => j # i /\ attempts[j].stage = "gathering"
  <2> SUFFICES ASSUME NEW c \in Device, NEW d \in Device, NEW j \in DOMAIN attempts',
                      Offering(j, c, d)'
               PROVE  /\ j \in DOMAIN attempts /\ Offering(j, c, d)
                      /\ attempts'[j].stage = "gathering" => j # i /\ attempts[j].stage = "gathering"
    OBVIOUS
  <2>1. /\ j \in DOMAIN attempts
        /\ attempts[j].role = "offerer" /\ attempts[j].dev = c /\ attempts[j].peer = d
    BY <1>6 DEF SameAttempts, Offering
  <2>2. CASE j = i
    BY <1>3, <1>7, <2>1, <2>2 DEF Offering, UnderWay
  <2>3. CASE j # i
    BY <1>7, <2>1, <2>3 DEF Offering, UnderWay
  <2> QED BY <2>2, <2>3
<1>15. LowerAsks'
  <2> USE DEF LowerAsks
  <2>1. NothingPending' /\ AutoUp' /\ PopupsUp' /\ LookupsUp'
    BY <1>13 DEF NothingPending, AutoUp, PopupsUp, LookupsUp
  <2>2. FramesUp'
    BY <1>2, <1>9, <1>12 DEF FramesUp
  <2> QED BY <1>6, <2>1, <2>2, OffersUpKept
<1>16. QueuesOnce'
  BY <1>12, <1>13 DEF QueuesOnce
<1>17. PairOK(a, b)'
  <2>1. ASSUME NEW y, At(y, a, b)' PROVE y = "offering"
    <3> SUFFICES ASSUME y # "offering" PROVE FALSE
      OBVIOUS
    <3>1. At(y, a, b)
      BY <1>2, <1>9, <1>12, <1>13, <2>1 DEF At
    <3> QED BY <1>5, <3>1
  <2>2. \A j, l \in DOMAIN attempts' : Offering(j, a, b)' /\ Offering(l, a, b)' => j = l
    BY <1>5, <1>14
  <2>3. ~Gathering(a, b)'
    BY <1>5, <1>14 DEF Gathering
  <2>4. ~OfferWaits(a, b)'
    BY <1>5, <1>13 DEF OfferWaits
  <2>5. ASSUME NEW how, Promised(how, a, b)' PROVE Promised(how, a, b)
    <3>1. CASE \E n \in ToSet(net'[b][a]) : n.type = "connect-accepted" /\ n.how = how
      BY <1>2, <1>12, <3>1 DEF Promised
    <3>2. CASE \E w \in ToSet(lookups'[a]) : w.kind = "accepted" /\ w.peer = b /\ w.how = how
      BY <1>13, <3>2 DEF Promised
    <3>3. CASE \E n \in ToSet(net'[a][b]) : n.type = "webrtc-offer" /\ attempts'[n.id].how = how
      <4>1. attempts'[i].how = how
        BY <1>5, <1>9, <1>12, <3>3 DEF OfferSent
      <4>2. attempts[i].how = how
        BY <1>6, <4>1 DEF SameAttempts
      <4> QED BY <1>3, <4>2 DEF Promised
    <3> QED BY <2>3, <2>4, <2>5, <3>1, <3>2, <3>3 DEF Promised, Gathering, OfferWaits
  <2> QED BY <1>4, <1>5, <1>13, <2>1, <2>2, <2>3, <2>4, <2>5, OfferMoved DEF PairOK, MarkTrue
<1>18. ASSUME NEW c \in Device, NEW d \in Device, c < d, ~(c = a /\ d = b)
       PROVE  Shrinks(c, d)
  <2>1. ~(d = a /\ c = b)
    BY <1>2, <1>18
  <2>2. /\ \A n \in ToSet(net'[c][d]) : n \in ToSet(net[c][d])
        /\ \A n \in ToSet(net'[d][c]) : n \in ToSet(net[d][c])
    BY <1>12, <1>18, <2>1
  <2>3. \A j \in DOMAIN attempts : attempts'[j].how = attempts[j].how
    BY <1>6 DEF SameAttempts
  <2> QED BY <1>13, <1>14, <2>2, <2>3 DEF Shrinks
<1> QED BY <1>6, <1>15, <1>16, <1>17, <1>18, SilentKept, MoveKept

\* b begins to answer the offer of a's attempt i.
LEMMA AnswerBegins ==
  ASSUME QuietInv, NEW a \in Device, NEW b \in Device, a < b, NEW i \in DOMAIN attempts,
         Promised(attempts[i].how, a, b), OfferSent(a, b) \/ OfferWaits(a, b),
         StartAnswer(b, a, i),
         \A q, r \in Device : ToSet(net'[q][r]) \subseteq ToSet(net[q][r]) /\ FramesOnce(net'[q][r]),
         \A e \in Device : ToSet(lookups'[e]) \subseteq ToSet(lookups[e]) /\ LookupsOnce(lookups'[e]),
         ~OfferSent(a, b)', ~OfferWaits(a, b)',
         UNCHANGED <<pending, pendingRef, autoConnecting, incoming, trusted>>
  PROVE  Kept
<1> USE DEF QuietInv
<1> DEFINE r == Attempt(b, a, "answerer", i, FALSE, attempts[i].how,
                        a \notin autoAccepted[b] \/ a \in yieldedManual[b])
<1>1. PairOK(a, b)
  BY DEF PairsOK
<1>2. /\ ~At("shown", a, b) /\ ~At("granted", a, b) /\ ~At("awaited", a, b) /\ ~Gathering(a, b)
  BY <1>1 DEF PairOK, OfferFirst
<1>3. attempts' = Append(attempts, r)
  BY DEF StartAnswer
<1>4. /\ r.role = "answerer" /\ r.how = attempts[i].how
      /\ r.navigates <=> attempts[i].how # "auto"
  <2>1. attempts[i].how = "auto" <=> a \in autoAccepted[b]
    BY <1>1 DEF PairOK, MarkTrue
  <2>2. a \notin yieldedManual[b]
    BY DEF LowerAsks, NothingPending
  <2> QED BY <2>1, <2>2 DEF Attempt
<1> HIDE DEF r
<1>5. /\ \A j \in DOMAIN attempts : j \in DOMAIN attempts' /\ attempts'[j] = attempts[j]
      /\ \A j \in DOMAIN attempts' :
           j \in DOMAIN attempts \/ (j = Len(attempts) + 1 /\ attempts'[j] = r)
  BY <1>3, AttemptMade
<1>6. \A c, d \in Device : \A j \in DOMAIN attempts' : Offering(j, c, d)' =>
        j \in DOMAIN attempts /\ Offering(j, c, d) /\ attempts'[j] = attempts[j]
  BY <1>4, <1>5 DEF Offering, UnderWay
<1>7. /\ \A q \in Device : autoAccepted'[q] = IF q = b THEN autoAccepted[b] \ {a}
                                                       ELSE autoAccepted[q]
      /\ \A q \in Device : yieldedManual'[q] = {}
  BY DEF StartAnswer, FlowOK, MarksOK, LowerAsks, NothingPending
<1>8. LowerAsks'
  <2> USE DEF LowerAsks
  <2>1. NothingPending' /\ AutoUp' /\ PopupsUp'
    BY <1>7 DEF NothingPending, AutoUp, PopupsUp
  <2>2. FramesUp' /\ LookupsUp'
    BY DEF FramesUp, LookupsUp
  <2>3. OffersUp'
    BY <1>4, <1>5 DEF OffersUp
  <2> QED BY <2>1, <2>2, <2>3
<1>9. QueuesOnce'
  BY DEF QueuesOnce
<1>10. AutoAcceptIsSilent'
  BY <1>4, <1>5 DEF AutoAcceptIsSilent
<1>11. PairOK(a, b)'
  <2>1. ASSUME NEW y, At(y, a, b)' PROVE At(y, a, b)
    BY <1>6, <2>1 DEF At
  <2>2. OneStep(a, b)'
    BY <1>1, <1>6, <2>1 DEF PairOK, OneStep
  <2>3. OfferFirst(a, b)'
    BY DEF OfferFirst
  <2>4. a \notin autoAccepted'[b]
    BY <1>7
  <2>5. ASSUME NEW how, Promised(how, a, b)' PROVE FALSE
    <3>1. CASE \E m \in ToSet(net'[b][a]) : m.type = "connect-accepted" /\ m.how = how
      BY <1>2, <3>1 DEF At
    <3>2. CASE \E w \in ToSet(lookups'[a]) : w.kind = "accepted" /\ w.peer = b /\ w.how = how
      BY <1>2, <3>2 DEF At
    <3>3. CASE \E j \in DOMAIN attempts' :
                 Offering(j, a, b)' /\ attempts'[j].stage = "gathering" /\ attempts'[j].how = how
      BY <1>2, <1>6, <3>3 DEF Gathering
    <3> QED BY <2>5, <3>1, <3>2, <3>3 DEF Promised, OfferSent, OfferWaits
  <2>6. MarkTrue(a, b)'
    BY <2>4, <2>5 DEF MarkTrue
  <2> QED BY <2>2, <2>3, <2>6 DEF PairOK
<1>12. ASSUME NEW c \in Device, NEW d \in Device, c < d, ~(c = a /\ d = b)
       PROVE  Shrinks(c, d)
  <2>1. c \in autoAccepted'[d] <=> c \in autoAccepted[d]
    BY <1>7, <1>12
  <2>2. \A j \in DOMAIN attempts' : Offering(j, c, d)' =>
          j \in DOMAIN attempts /\ Offering(j, c, d) /\ attempts'[j] = attempts[j]
    BY <1>6
  <2> QED BY <1>5, <2>1, <2>2 DEF Shrinks
<1> QED BY <1>8, <1>9, <1>10, <1>11, <1>12, MoveKept

\* onWebRtcOffer up to its await.
LEMMA HandleOfferKeeps ==
  ASSUME QuietInv, NEW a \in Device, NEW b \in Device, HandleOffer(b, a)
  PROVE  Kept
<1> USE DEF QuietInv
<1> DEFINE i == Head(net[a][b]).id
           w == [kind |-> "offer", peer |-> a, id |-> i]
<1>1. Arrived(b, a, "webrtc-offer") /\ Take(b, a)
  BY DEF HandleOffer
<1>2. /\ \A q, r \in Device : /\ ToSet(net'[q][r]) \subseteq ToSet(net[q][r])
                              /\ FramesOnce(net'[q][r])
      /\ Head(net[a][b]) \in ToSet(net[a][b]) /\ Head(net[a][b]).type = "webrtc-offer"
      /\ \A m \in ToSet(net'[a][b]) : m.type # "webrtc-offer"
  BY <1>1, TakeEffect DEF Calls
<1>3. a < b /\ a # b /\ ~(b < a)
  BY <1>2, Higher DEF LowerAsks, FramesUp
<1>4. i \in DOMAIN attempts
  BY <1>2, NamedAttempts
<1>5. OfferSent(a, b) /\ Promised(attempts[i].how, a, b) /\ PairOK(a, b)
  BY <1>2, <1>3 DEF OfferSent, Promised, PairsOK
<1>6. /\ ~At("asked", a, b) /\ ~OfferWaits(a, b)
      /\ ~At("shown", a, b) /\ ~At("granted", a, b) /\ ~At("awaited", a, b) /\ ~Gathering(a, b)
  BY <1>5 DEF PairOK, OfferFirst
<1>7. ~OfferSent(a, b)'
  BY <1>2 DEF OfferSent
<1>8. UNCHANGED <<pending, pendingRef, autoConnecting, incoming, trusted>>
  BY DEF HandleOffer
<1>9. CASE StartAnswer(b, a, i) /\ UNCHANGED lookups
  <2>1. ~OfferWaits(a, b)'
    BY <1>6, <1>9 DEF OfferWaits
  <2>2. \A e \in Device : ToSet(lookups'[e]) \subseteq ToSet(lookups[e]) /\ LookupsOnce(lookups'[e])
    BY <1>9 DEF QueuesOnce
  <2> HIDE DEF i
  <2> QED BY <1>2, <1>3, <1>4, <1>5, <1>7, <1>8, <1>9, <2>1, <2>2, AnswerBegins
<1>10. CASE /\ lookups' = [lookups EXCEPT ![b] = Append(@, w)]
            /\ UNCHANGED <<autoAccepted, yieldedManual, attempts>>
  <2> HIDE DEF i
  <2>1. /\ w \in Waiting(Len(attempts)) /\ w.kind = "offer" /\ w.peer = a /\ w.id = i
    BY <1>4, AttemptFacts DEF Waiting, FlowOK
  <2> HIDE DEF w
  <2>2. /\ \A e \in Device : \A x \in ToSet(lookups'[e]) :
             x \in ToSet(lookups[e]) \/ (e = b /\ x = w)
        /\ \A e \in Device : LookupsOnce(lookups'[e])
    <3>1. \A x \in ToSet(lookups[b]) : x.peer = w.peer =>
            /\ w.kind # "peers" => x.kind # w.kind
            /\ w.kind = "offer" => x.kind # "request"
      BY <1>6, <2>1 DEF At, OfferWaits
    <3>2. w \in Waiting(Len(attempts)) /\ lookups' = [lookups EXCEPT ![b] = Append(@, w)]
      BY <1>10, <2>1
    <3>3. \A e \in Device : LookupsOnce(lookups'[e])
      BY <3>1, <3>2, WaitEffect
    <3>4. \A e \in Device : \A x \in ToSet(lookups'[e]) :
            x \in ToSet(lookups[e]) \/ (e = b /\ x = w)
      BY <3>2, WaitEffect
    <3> QED BY <3>3, <3>4
  <2>3. SameAttempts
    BY <1>10, SameOnChange
  <2>4. LowerAsks'
    <3> USE DEF LowerAsks
    <3>1. NothingPending' /\ AutoUp' /\ PopupsUp'
      BY <1>8, <1>10 DEF NothingPending, AutoUp, PopupsUp
    <3>2. FramesUp'
      BY <1>2 DEF FramesUp
    <3>3. LookupsUp'
      BY <1>3, <2>1, <2>2 DEF LookupsUp
    <3> QED BY <2>3, <3>1, <3>2, <3>3, OffersUpKept
  <2>5. QueuesOnce'
    BY <1>2, <2>2 DEF QueuesOnce
  <2>6. PairOK(a, b)'
    <3>1. ASSUME NEW y, At(y, a, b)' PROVE At(y, a, b)
      BY <1>2, <1>3, <1>8, <1>10, <2>1, <2>2, <3>1 DEF At, Offering, UnderWay
    <3>2. OneStep(a, b)'
      BY <1>5, <1>8, <1>10, <3>1 DEF PairOK, OneStep, Offering, UnderWay
    <3>3. ~Gathering(a, b)'
      BY <1>6, <1>10 DEF Gathering, Offering, UnderWay
    <3>4. OfferFirst(a, b)'
      BY <1>6, <1>7, <3>1, <3>3 DEF OfferFirst
    <3>5. ASSUME NEW how, Promised(how, a, b)' PROVE how = attempts[i].how
      <4>1. ~At("granted", a, b)' /\ ~At("awaited", a, b)'
        BY <1>6, <3>1
      <4>2. \E x \in ToSet(lookups'[b]) : x.kind = "offer" /\ x.peer = a /\ attempts[x.id].how = how
        BY <1>7, <1>10, <3>3, <3>5, <4>1 DEF Promised, OfferSent, Gathering, At
      <4> QED BY <1>6, <2>1, <2>2, <4>2 DEF OfferWaits
    <3>6. MarkTrue(a, b)'
      BY <1>5, <1>8, <1>10, <3>1, <3>5 DEF PairOK, MarkTrue
    <3> QED BY <3>2, <3>4, <3>6 DEF PairOK
  <2>7. ASSUME NEW c \in Device, NEW d \in Device, c < d, ~(c = a /\ d = b)
        PROVE  Shrinks(c, d)
    <3>1. ~(d = a /\ c = b)
      BY <1>3, <2>7
    <3> QED BY <1>2, <1>8, <1>10, <2>1, <2>2, <2>7, <3>1 DEF Shrinks, Offering, UnderWay
  <2> QED BY <2>3, <2>4, <2>5, <2>6, <2>7, SilentKept, MoveKept
<1> QED BY <1>9, <1>10 DEF HandleOffer

\* The rest of onWebRtcOffer.
LEMMA ResolveOfferKeeps ==
  ASSUME QuietInv, NEW a \in Device, NEW b \in Device, a = Found(b), ResolveOffer(b)
  PROVE  Kept
<1> USE DEF QuietInv
<1> DEFINE w == Head(lookups[b])
<1>1. Answered(b, "offer")
  BY DEF ResolveOffer
<1>2. /\ \A e \in Device : /\ ToSet(lookups'[e]) \subseteq ToSet(lookups[e])
                           /\ LookupsOnce(lookups'[e])
      /\ w \in ToSet(lookups[b]) /\ w.kind = "offer" /\ w.peer = a
      /\ \A x \in ToSet(lookups'[b]) : x.peer = a => x.kind # "offer"
  BY <1>1, AnsweredEffect DEF Found
<1>3. a < b
  BY <1>2 DEF LowerAsks, LookupsUp
<1>4. w.id \in DOMAIN attempts
  BY <1>2, NamedAttempts
<1>5. OfferWaits(a, b) /\ Promised(attempts[w.id].how, a, b) /\ PairOK(a, b)
  BY <1>2, <1>3 DEF OfferWaits, Promised, PairsOK
<1>6. UNCHANGED <<net, pending, pendingRef, autoConnecting, incoming, trusted>>
  BY DEF ResolveOffer
<1>7. ~OfferSent(a, b)' /\ ~OfferWaits(a, b)'
  BY <1>2, <1>5, <1>6 DEF PairOK, OfferFirst, OfferSent, OfferWaits
<1>8. CASE StartAnswer(b, a, w.id)
  <2>1. \A q, r \in Device : ToSet(net'[q][r]) \subseteq ToSet(net[q][r]) /\ FramesOnce(net'[q][r])
    BY <1>6 DEF QueuesOnce
  <2> HIDE DEF w
  <2> QED BY <1>2, <1>3, <1>4, <1>5, <1>6, <1>7, <1>8, <2>1, AnswerBegins
<1>9. CASE UNCHANGED <<autoAccepted, yieldedManual, attempts>>
  <2>1. SameAttempts
    BY <1>9, SameOnChange
  <2>2. QuietStep
    BY <1>2, <1>6, <1>9, <2>1, SameNet DEF QuietStep, LowerAsks, NothingPending
  <2> QED BY <2>2, QuietKept
<1> QED BY <1>2, <1>8, <1>9 DEF ResolveOffer

\* a's attempt i ends: no answer came in 15 s, or the session begins.
LEMMA OffererEnds ==
  ASSUME QuietInv, NEW i \in DOMAIN attempts, NEW a \in Device, NEW b \in Device,
         attempts[i].dev = a, attempts[i].peer = b, attempts[i].role = "offerer",
         Timeout(i) \/ Attach(i)
  PROVE  Kept
<1> USE DEF QuietInv
<1>1. /\ \A l \in DOMAIN attempts : attempts[l] \in AttemptType
      /\ attempts \in [DOMAIN attempts -> AttemptType]
  BY AttemptFacts DEF FlowOK
<1>2. a < b /\ attempts[i].manual = FALSE
  BY DEF LowerAsks, OffersUp
<1>3. Offering(i, a, b) /\ At("offering", a, b) /\ PairOK(a, b)
  BY <1>2 DEF Offering, UnderWay, Timeout, Attach, At, PairsOK
<1>4. \A j \in DOMAIN attempts : Offering(j, a, b) => j = i
  BY <1>3 DEF PairOK, OneStep
<1>5. SameAttempts
  BY SameOnChange
<1>6. /\ attempts'[i].stage \in {"attached", "abandoned"}
      /\ \A l \in DOMAIN attempts : l # i => attempts'[l].stage = attempts[l].stage
  <2>1. CASE Timeout(i)
    BY <1>1, <2>1 DEF Timeout, AttemptType
  <2>2. CASE Attach(i)
    BY <1>1, <2>2 DEF Attach, AttemptType
  <2> QED BY <2>1, <2>2
<1>7. ~At("offering", a, b)'
  BY <1>4, <1>5, <1>6 DEF At, Offering, UnderWay, SameAttempts
<1>8. /\ UNCHANGED <<net, pendingRef, autoAccepted, yieldedManual, incoming, lookups>>
      /\ Finally(a, b, FALSE)
  BY <1>2 DEF Timeout, Attach
<1>9. /\ UNCHANGED pending
      /\ autoConnecting' = [autoConnecting EXCEPT ![a] = @ \ {b}]
  BY <1>8 DEF Finally
<1>10. \A d \in Device : trusted[d] \subseteq trusted'[d]
  <2>1. UNCHANGED trusted \/ trusted' = [trusted EXCEPT ![a] = @ \cup {b}]
    BY DEF Timeout, Attach
  <2> QED BY <2>1 DEF FlowOK, AttemptsOK
<1>11. \A e \in Device : ToSet(lookups'[e]) \subseteq ToSet(lookups[e]) /\ LookupsOnce(lookups'[e])
  BY <1>8 DEF QueuesOnce
<1>12. \A l \in DOMAIN attempts :
         attempts'[l].stage = attempts[l].stage \/ attempts'[l].stage \in {"attached", "abandoned"}
  BY <1>6
<1> QED BY <1>2, <1>3, <1>5, <1>7, <1>8, <1>9, <1>10, <1>11, <1>12, OfferEnds

-----------------------------------------------------------------------------
(* Without clicks: every step.                                             *)

\* The answerer's transport has all it needs when it answers.
AnswererIsReady ==
  \A i \in DOMAIN attempts : attempts[i].role = "answerer" => attempts[i].stage # "listening"

LEMMA AnswererReadyKept ==
  ASSUME FlowOK, AnswererIsReady, [FlowNext]_flow
  PROVE  AnswererIsReady'
<1>1. /\ \A l \in DOMAIN attempts : attempts[l] \in AttemptType
      /\ attempts \in [DOMAIN attempts -> AttemptType]
  BY AttemptFacts DEF FlowOK
<1>2. ASSUME UNCHANGED attempts PROVE AnswererIsReady'
  BY <1>2 DEF AnswererIsReady
<1>3. ASSUME NEW r, r.stage = "gathering", attempts' = Append(attempts, r)
      PROVE  AnswererIsReady'
  BY <1>3, AttemptMade DEF AnswererIsReady
<1>4. \A d, p, i, manual, how : StartAnswer(d, p, i) \/ StartOffer(d, p, manual, how) => AnswererIsReady'
  BY <1>3 DEF StartAnswer, StartOffer, Attempt
<1>5. ASSUME SameAttempts,
             \A l \in DOMAIN attempts : attempts'[l].stage = "listening" =>
               attempts[l].stage = "listening" \/ attempts[l].role = "offerer"
      PROVE  AnswererIsReady'
  BY <1>5 DEF AnswererIsReady, SameAttempts
<1>6. ASSUME NEW i \in DOMAIN attempts, Gathered(i) PROVE AnswererIsReady'
  <2>1. /\ \A l \in DOMAIN attempts : l # i => attempts'[l] = attempts[l]
        /\ attempts[i].role # "offerer" => attempts'[i].stage = "securing"
    BY <1>1, <1>6 DEF Gathered, AttemptType
  <2> QED BY <1>5, <1>6, <2>1, SameOnChange
<1>7. ASSUME NEW d \in Device, NEW p \in Device, HandleAnswer(d, p) PROVE AnswererIsReady'
  <2>1. \A l \in DOMAIN attempts :
          \/ attempts'[l] = [attempts[l] EXCEPT !.stage = "securing", !.mate = Head(net[p][d]).id,
                                                !.after = Securing(d)]
          \/ attempts'[l] = attempts[l]
    BY <1>7 DEF HandleAnswer
  <2>2. \A l \in DOMAIN attempts : attempts'[l].stage \in {"securing", attempts[l].stage}
    BY <1>1, <2>1 DEF AttemptType
  <2> QED BY <1>5, <1>7, <2>2, SameOnChange
<1>8. ASSUME NEW i \in DOMAIN attempts, Timeout(i) PROVE AnswererIsReady'
  <2>1. \A l \in DOMAIN attempts : attempts'[l].stage \in {"abandoned", attempts[l].stage}
    BY <1>1, <1>8 DEF Timeout, AttemptType
  <2> QED BY <1>5, <1>8, <2>1, SameOnChange
<1>9. ASSUME NEW i \in DOMAIN attempts, Attach(i) PROVE AnswererIsReady'
  <2>1. \A l \in DOMAIN attempts :
          \/ attempts'[l] = [attempts[l] EXCEPT !.stage = "attached"]
          \/ \E s, w : attempts'[l] = [attempts[l] EXCEPT !.state = s, !.after = w]
    BY <1>9 DEF Attach
  <2>2. \A l \in DOMAIN attempts : attempts'[l].stage \in {"attached", attempts[l].stage}
    BY <1>1, <2>1 DEF AttemptType
  <2> QED BY <1>5, <1>9, <2>2, SameOnChange
<1>10. ASSUME NEW i, NEW s, attempts' = [attempts EXCEPT ![i].state = s] PROVE AnswererIsReady'
  <2>1. /\ DOMAIN attempts' = DOMAIN attempts
        /\ \A l \in DOMAIN attempts : /\ attempts'[l].stage = attempts[l].stage
                                      /\ attempts'[l].role = attempts[l].role
    BY <1>1, <1>10 DEF AttemptType
  <2> QED BY <2>1 DEF AnswererIsReady
<1>11. ASSUME NEW d \in Device, NEW p \in Device, Messages(d, p) PROVE AnswererIsReady'
  <2>1. CASE HandleJoined(d, p) \/ HandleLeft(d, p) \/ HandleRequest(d, p) \/ HandleRejected(d, p)
    BY <1>2, <2>1 DEF HandleJoined, HandleLeft, HandleRequest, HandleRejected, connected
  <2>2. CASE HandleAccepted(d, p)
    BY <1>2, <1>4, <2>2 DEF HandleAccepted
  <2>3. CASE HandleOffer(d, p)
    BY <1>2, <1>4, <2>3 DEF HandleOffer
  <2> QED BY <1>7, <1>11, <2>1, <2>2, <2>3 DEF Messages
<1>12. ASSUME NEW d \in Device, Continuations(d) \/ Render(d) PROVE AnswererIsReady'
  <2>1. CASE AutoConnect(d) \/ DecideRequest(d) \/ Render(d)
    BY <1>2, <2>1 DEF AutoConnect, DecideRequest, Render, connected
  <2>2. CASE ResolveAccepted(d)
    BY <1>2, <1>4, <2>2 DEF ResolveAccepted
  <2>3. CASE ResolveOffer(d)
    BY <1>2, <1>4, <2>3 DEF ResolveOffer
  <2> QED BY <1>12, <2>1, <2>2, <2>3 DEF Continuations
<1>13. ASSUME NEW i, NEW s, StateChange(i, s) PROVE AnswererIsReady'
  BY <1>10, <1>13 DEF StateChange
<1>14. ASSUME NEW i \in DOMAIN attempts, Progress(i) PROVE AnswererIsReady'
  BY <1>6, <1>8, <1>9, <1>13, <1>14 DEF Progress, Opens, Closes, Fails
<1>15. ASSUME Users PROVE AnswererIsReady'
  <2>1. \A d \in Device : AcceptRequest(d) \/ RejectRequest(d) => UNCHANGED attempts
    BY DEF AcceptRequest, RejectRequest, AnswerPopup, connected
  <2>2. \A d, p \in Device : ClickConnect(d, p) => UNCHANGED attempts
    BY DEF ClickConnect, connected
  <2>3. \A d, p \in Device : ClickDisconnect(d, p) => AnswererIsReady'
    BY <1>10 DEF ClickDisconnect
  <2> QED BY <1>2, <1>15, <2>1, <2>2, <2>3 DEF Users
<1>16. ASSUME Environment PROVE AnswererIsReady'
  <2>1. \A d \in Device : GoOnline(d) \/ Drop(d) \/ PresenceEvent(d) => UNCHANGED attempts
    BY DEF GoOnline, Drop, PresenceEvent, connected
  <2> QED BY <1>2, <1>13, <1>16, <2>1 DEF Environment, LinkLost, Recovers
<1>17. ASSUME UNCHANGED flow PROVE AnswererIsReady'
  BY <1>2, <1>17 DEF flow, connected
<1> QED BY <1>11, <1>12, <1>14, <1>15, <1>16, <1>17 DEF FlowNext

LEMMA QuietInvKept ==
  ASSUME MaxClicks = 0, QuietInv, AnswererIsReady, [FlowNext]_flow
  PROVE  QuietInv'
<1>1. FlowOK'
  BY FlowTypesKept DEF QuietInv
<1>2. ASSUME NEW d \in Device, NEW p \in Device, Messages(d, p) PROVE Kept
  BY <1>2, PresenceQuiet, HandleRequestKeeps, HandleAcceptedKeeps, HandleRejectedKeeps,
     HandleOfferKeeps, AnswerQuiet DEF Messages
<1>3. ASSUME NEW d \in Device, Continuations(d) \/ Render(d) PROVE Kept
  <2>1. \A kind : Answered(d, kind) => Found(d) \in Device
    BY AnsweredOK DEF QuietInv
  <2>2. CASE AutoConnect(d)
    <3>1. PICK p \in Device : p = Found(d)
      BY <2>1, <2>2 DEF AutoConnect
    <3> QED BY <2>2, <3>1, AutoConnectKeeps
  <2>3. CASE DecideRequest(d)
    <3>1. PICK p \in Device : p = Found(d)
      BY <2>1, <2>3 DEF DecideRequest
    <3> QED BY <2>3, <3>1, DecideRequestKeeps
  <2>4. CASE ResolveAccepted(d)
    <3>1. PICK p \in Device : p = Found(d)
      BY <2>1, <2>4 DEF ResolveAccepted
    <3> QED BY <2>4, <3>1, ResolveAcceptedKeeps
  <2>5. CASE ResolveOffer(d)
    <3>1. PICK p \in Device : p = Found(d)
      BY <2>1, <2>5 DEF ResolveOffer
    <3> QED BY <2>5, <3>1, ResolveOfferKeeps
  <2> QED BY <1>3, <2>2, <2>3, <2>4, <2>5, RenderQuiet DEF Continuations
<1>4. ASSUME NEW i \in DOMAIN attempts, Progress(i) PROVE Kept
  <2>1. attempts[i] \in AttemptType
    BY AttemptFacts DEF QuietInv, FlowOK
  <2>2. CASE attempts[i].role = "offerer" /\ (Gathered(i) \/ Timeout(i) \/ Attach(i))
    <3>1. PICK p \in Device, q \in Device : attempts[i].dev = p /\ attempts[i].peer = q
      BY <2>1 DEF AttemptType
    <3> QED BY <2>2, <3>1, OfferGoesOut, OffererEnds
  <2>3. CASE attempts[i].role = "answerer" /\ (Gathered(i) \/ Timeout(i) \/ Attach(i))
    <3>1. ~Timeout(i)
      BY <2>3 DEF AnswererIsReady, Timeout
    <3> QED BY <2>3, <3>1, AnswererQuiet
  <2>4. CASE Opens(i) \/ Closes(i) \/ Fails(i)
    BY <2>4, StateQuiet DEF Opens, Closes, Fails
  <2> QED BY <1>4, <2>1, <2>2, <2>3, <2>4 DEF Progress, AttemptType
<1>5. ASSUME Users PROVE Kept
  <2>1. PICK d \in Device : \/ AcceptRequest(d) \/ RejectRequest(d)
                            \/ \E p \in Device : ClickConnect(d, p) \/ ClickDisconnect(d, p)
    BY <1>5 DEF Users
  <2>2. ~(clicks < MaxClicks)
    BY DEF QuietInv, FlowOK
  <2>3. AcceptRequest(d) \/ RejectRequest(d)
    BY <2>1, <2>2 DEF ClickConnect, ClickDisconnect
  <2>4. PICK p \in Device : p = Head(incoming[d])
    <3>1. incoming[d] \in Seq(Device) /\ incoming[d] # <<>>
      BY <2>3 DEF AcceptRequest, RejectRequest, AnswerPopup, QuietInv, FlowOK, IncomingOK
    <3> QED BY <3>1, HeadTailProperties
  <2> QED BY <2>3, <2>4, AnswerPopupKeeps
<1>6. ASSUME Environment PROVE Kept
  BY <1>6, PresenceQuiet, StateQuiet DEF Environment, LinkLost, Recovers
<1>7. ASSUME UNCHANGED flow PROVE QuietInv'
  <2>1. UNCHANGED <<autoConnecting, autoAccepted, yieldedManual, incoming, pending, pendingRef,
                    trusted, attempts, net, lookups>>
    BY <1>7 DEF flow, requests, connected
  <2>2. SameAttempts
    BY <2>1, SameOnChange DEF QuietInv
  <2>3. QuietStep
    BY <2>1, <2>2, SameNet, SameLookups DEF QuietStep, QuietInv, LowerAsks, NothingPending
  <2> QED BY <1>1, <2>3, QuietKept DEF Kept, QuietInv
<1> QED BY <1>1, <1>2, <1>3, <1>4, <1>5, <1>6, <1>7 DEF FlowNext, Kept, QuietInv

LEMMA QuietStarts == FlowInit => QuietInv /\ AnswererIsReady
<1> SUFFICES ASSUME FlowInit PROVE QuietInv /\ AnswererIsReady
  OBVIOUS
<1>1. FlowOK
  BY FlowStarts
<1>2. /\ DOMAIN attempts = {}
      /\ \A d, p \in Device : DOMAIN net[d][p] = {} /\ ToSet(net[d][p]) = {}
      /\ \A d \in Device : /\ DOMAIN lookups[d] = {} /\ ToSet(lookups[d]) = {}
                           /\ ToSet(incoming[d]) = {}
      /\ \A d \in Device : /\ pending[d] = 0 /\ pendingRef[d] = 0
                           /\ autoConnecting[d] = {} /\ autoAccepted[d] = {} /\ yieldedManual[d] = {}
  BY EmptySeq DEF FlowInit, ToSet
<1>3. LowerAsks
  BY <1>2 DEF LowerAsks, NothingPending, AutoUp, FramesUp, LookupsUp, PopupsUp, OffersUp
<1>4. QueuesOnce
  BY <1>2 DEF QueuesOnce, FramesOnce, LookupsOnce
<1>5. ASSUME NEW a \in Device, NEW b \in Device PROVE PairOK(a, b)
  <2>1. /\ \A x : ~At(x, a, b)
        /\ ~OfferSent(a, b) /\ ~OfferWaits(a, b) /\ ~Gathering(a, b)
        /\ \A how : ~Promised(how, a, b)
    BY <1>2 DEF At, OfferSent, OfferWaits, Gathering, Promised
  <2> QED BY <1>2, <2>1 DEF PairOK, OneStep, OfferFirst, MarkTrue
<1>6. AutoAcceptIsSilent /\ AnswererIsReady
  BY <1>2 DEF AutoAcceptIsSilent, AnswererIsReady
<1> QED BY <1>1, <1>3, <1>4, <1>5, <1>6 DEF QuietInv, PairsOK

LEMMA QuietInvHolds ==
  ASSUME MaxClicks = 0
  PROVE  FlowSpec => []QuietInv
<1>1. FlowInit => QuietInv /\ AnswererIsReady
  BY QuietStarts
<1>2. QuietInv /\ AnswererIsReady /\ [FlowNext]_flow => QuietInv' /\ AnswererIsReady'
  BY QuietInvKept, AnswererReadyKept DEF QuietInv
<1> QED BY <1>1, <1>2, PTL DEF FlowSpec

\* The request of a to b at place n of a queue, or attempt n that it led to.
Asks(n, a, b) == n \in DOMAIN net[a][b] /\ net[a][b][n].type = "connect-request"
Decides(n, a, b) ==
  n \in DOMAIN lookups[b] /\ lookups[b][n].kind = "request" /\ lookups[b][n].peer = a
Shows(n, a, b) == n \in DOMAIN incoming[b] /\ incoming[b][n] = a
Refuses(n, a, b) == n \in DOMAIN net[b][a] /\ net[b][a][n].type = "connect-rejected"
Grants(n, a, b) == n \in DOMAIN net[b][a] /\ net[b][a][n].type = "connect-accepted"
Hears(n, a, b) ==
  n \in DOMAIN lookups[a] /\ lookups[a][n].kind = "accepted" /\ lookups[a][n].peer = b
Offers(n, a, b) == n \in DOMAIN attempts /\ Offering(n, a, b)

LEMMA InExchange ==
  ASSUME NEW a, NEW b, NEW z \in Exchange(a, b)
  PROVE  \/ \E n : z = <<"asks", n>> /\ Asks(n, a, b)
         \/ \E n : z = <<"decides", n>> /\ Decides(n, a, b)
         \/ \E n : z = <<"popup", n>> /\ Shows(n, a, b)
         \/ \E n : z = <<"answers", n>> /\ (Refuses(n, a, b) \/ Grants(n, a, b))
         \/ \E n : z = <<"hears", n>> /\ Hears(n, a, b)
         \/ \E n : z = <<"offers", n>> /\ Offers(n, a, b)
BY DEF Exchange, Asks, Decides, Shows, Refuses, Grants, Hears, Offers, Offering

\* Each place is a step of the request.
LEMMA PlaceIsStep ==
  ASSUME FlowOK, NEW a \in Device, NEW b \in Device, NEW n
  PROVE  /\ Asks(n, a, b) => At("requested", a, b)
         /\ Decides(n, a, b) => At("asked", a, b)
         /\ Shows(n, a, b) => At("shown", a, b)
         /\ Refuses(n, a, b) => At("refused", a, b)
         /\ Grants(n, a, b) => At("granted", a, b)
         /\ Hears(n, a, b) => At("awaited", a, b)
         /\ Offers(n, a, b) => At("offering", a, b)
<1>1. /\ \A c, d \in Device : \A m \in DOMAIN net[c][d] : net[c][d][m] \in ToSet(net[c][d])
      /\ \A d \in Device : \A m \in DOMAIN lookups[d] : lookups[d][m] \in ToSet(lookups[d])
      /\ \A d \in Device : \A m \in DOMAIN incoming[d] : incoming[d][m] \in ToSet(incoming[d])
  BY DEF ToSet
<1>2. Asks(n, a, b) => At("requested", a, b)
  BY <1>1 DEF Asks, At
<1>3. Decides(n, a, b) => At("asked", a, b)
  BY <1>1 DEF Decides, At
<1>4. Shows(n, a, b) => At("shown", a, b)
  BY <1>1 DEF Shows, At
<1>5. Refuses(n, a, b) => At("refused", a, b)
  BY <1>1 DEF Refuses, At
<1>6. Grants(n, a, b) => At("granted", a, b)
  BY <1>1 DEF Grants, At
<1>7. Hears(n, a, b) => At("awaited", a, b)
  BY <1>1 DEF Hears, At
<1>8. Offers(n, a, b) => At("offering", a, b)
  BY DEF Offers, At
<1> QED BY <1>2, <1>3, <1>4, <1>5, <1>6, <1>7, <1>8

\* There is one such place of each kind.
LEMMA PlacesOnce ==
  ASSUME FlowOK, QueuesOnce, NEW a \in Device, NEW b \in Device, OneStep(a, b), NEW m, NEW n
  PROVE  /\ Asks(m, a, b) /\ Asks(n, a, b) => m = n
         /\ Decides(m, a, b) /\ Decides(n, a, b) => m = n
         /\ Shows(m, a, b) /\ Shows(n, a, b) => m = n
         /\ Refuses(m, a, b) /\ Refuses(n, a, b) => m = n
         /\ Grants(m, a, b) /\ Grants(n, a, b) => m = n
         /\ Hears(m, a, b) /\ Hears(n, a, b) => m = n
         /\ Offers(m, a, b) /\ Offers(n, a, b) => m = n
<1>1. ASSUME NEW c \in Device, NEW d \in Device, NEW k \in DOMAIN net[c][d],
             NEW l \in DOMAIN net[c][d], net[c][d][k].type \in Calls,
             net[c][d][k].type = net[c][d][l].type
      PROVE  k = l
  <2>1. k \in Nat /\ l \in Nat
    BY InFacts DEF FlowOK, NetOK
  <2>2. ~(k < l) /\ ~(l < k)
    BY <1>1 DEF QueuesOnce, FramesOnce
  <2> QED BY <2>1, <2>2
<1>2. ASSUME NEW d \in Device, NEW k \in DOMAIN lookups[d], NEW l \in DOMAIN lookups[d],
             lookups[d][k].kind # "peers", lookups[d][k].kind = lookups[d][l].kind,
             lookups[d][k].peer = lookups[d][l].peer
      PROVE  k = l
  <2>1. k \in Nat /\ l \in Nat
    BY InFacts DEF FlowOK, LookupsOK
  <2>2. ~(k < l) /\ ~(l < k)
    BY <1>2 DEF QueuesOnce, LookupsOnce
  <2> QED BY <2>1, <2>2
<1>3. Shows(m, a, b) /\ Shows(n, a, b) => m = n
  BY DEF Shows, FlowOK, IncomingOK, IsInjective
<1>4. Asks(m, a, b) /\ Asks(n, a, b) => m = n
  BY <1>1 DEF Asks, Calls
<1>5. /\ Refuses(m, a, b) /\ Refuses(n, a, b) => m = n
      /\ Grants(m, a, b) /\ Grants(n, a, b) => m = n
  BY <1>1 DEF Refuses, Grants, Calls
<1>6. /\ Decides(m, a, b) /\ Decides(n, a, b) => m = n
      /\ Hears(m, a, b) /\ Hears(n, a, b) => m = n
  BY <1>2 DEF Decides, Hears
<1>7. Offers(m, a, b) /\ Offers(n, a, b) => m = n
  BY DEF Offers, OneStep
<1> QED BY <1>3, <1>4, <1>5, <1>6, <1>7

LEMMA ExchangeOnce ==
  ASSUME FlowOK, QueuesOnce, NEW a \in Device, NEW b \in Device, OneStep(a, b),
         NEW x \in Exchange(a, b), NEW y \in Exchange(a, b)
  PROVE  x = y
<1>1. \A s, t : At(s, a, b) /\ At(t, a, b) => s = t
  BY DEF OneStep
<1>2. CASE \E n : x = <<"asks", n>> /\ Asks(n, a, b)
  BY <1>1, <1>2, InExchange, PlaceIsStep, PlacesOnce
<1>3. CASE \E n : x = <<"decides", n>> /\ Decides(n, a, b)
  BY <1>1, <1>3, InExchange, PlaceIsStep, PlacesOnce
<1>4. CASE \E n : x = <<"popup", n>> /\ Shows(n, a, b)
  BY <1>1, <1>4, InExchange, PlaceIsStep, PlacesOnce
<1>5. CASE \E n : x = <<"answers", n>> /\ (Refuses(n, a, b) \/ Grants(n, a, b))
  BY <1>1, <1>5, InExchange, PlaceIsStep, PlacesOnce
<1>6. CASE \E n : x = <<"hears", n>> /\ Hears(n, a, b)
  BY <1>1, <1>6, InExchange, PlaceIsStep, PlacesOnce
<1>7. CASE \E n : x = <<"offers", n>> /\ Offers(n, a, b)
  BY <1>1, <1>7, InExchange, PlaceIsStep, PlacesOnce
<1> QED BY <1>2, <1>3, <1>4, <1>5, <1>6, <1>7, InExchange

\* Only the lower of two browsers asks.
LEMMA ExchangeUp ==
  ASSUME LowerAsks, NEW a \in Device, NEW b \in Device, Exchange(a, b) # {}
  PROVE  a < b
<1>1. PICK x \in Exchange(a, b) : TRUE
  OBVIOUS
<1>2. ASSUME NEW n, Asks(n, a, b) \/ Refuses(n, a, b) \/ Grants(n, a, b) PROVE a < b
  BY <1>2 DEF LowerAsks, FramesUp, Asks, Refuses, Grants, ToSet
<1>3. ASSUME NEW n, Decides(n, a, b) \/ Hears(n, a, b) PROVE a < b
  BY <1>3 DEF LowerAsks, LookupsUp, Decides, Hears, ToSet
<1>4. ASSUME NEW n, Shows(n, a, b) PROVE a < b
  BY <1>4 DEF LowerAsks, PopupsUp, Shows, ToSet
<1>5. ASSUME NEW n, Offers(n, a, b) PROVE a < b
  BY <1>5 DEF LowerAsks, OffersUp, Offers, Offering
<1> QED BY <1>1, <1>2, <1>3, <1>4, <1>5, InExchange

\* "Skip if an auto-connect attempt is in-flight": while nobody presses
\* Connect, two browsers are never in two exchanges at a time.  The request
\* is in one place from its sending to the end of the offer, through the
\* queues of the network and the store, the popup, late answers, lost sockets
\* and presence lists that come in between, however many browsers there are.
THEOREM OneExchangeAtATime ==
  ASSUME MaxClicks = 0
  PROVE  FlowSpec => []OneExchange
<1>1. QuietInv => OneExchange
  <2> SUFFICES ASSUME QuietInv, NEW d \in Device, NEW p \in Device, d # p
               PROVE  /\ \A x, y \in Exchange(d, p) : x = y
                      /\ Exchange(d, p) = {} \/ Exchange(p, d) = {}
    BY DEF OneExchange
  <2>1. ASSUME NEW x \in Exchange(d, p), NEW y \in Exchange(d, p) PROVE x = y
    <3>1. d < p
      BY ExchangeUp DEF QuietInv
    <3> QED BY <3>1, ExchangeOnce DEF QuietInv, PairsOK, PairOK
  <2>2. Exchange(d, p) = {} \/ Exchange(p, d) = {}
    BY ExchangeUp, Higher DEF QuietInv
  <2> QED BY <2>1, <2>2
<1> QED BY <1>1, QuietInvHolds, PTL

-----------------------------------------------------------------------------
(* Without auto-connect.                                                   *)

\* A mark of an accept is that of a request that yielded.
MarksAsked == \A d \in Device : autoAccepted[d] \subseteq yieldedManual[d]

\* Every connection was accepted by the user or asked for by the user.
AttemptsAsked ==
  \A i \in DOMAIN attempts :
    attempts[i].how # "auto" /\ (attempts[i].role = "answerer" => attempts[i].navigates = TRUE)

AskedInv == FlowOK /\ MarksAsked /\ AttemptsAsked

LEMMA AskedKept ==
  ASSUME AutoOn = {}, AskedInv, [FlowNext]_flow
  PROVE  AskedInv'
<1>1. FlowOK /\ MarksAsked /\ AttemptsAsked /\ FlowOK'
  BY FlowTypesKept DEF AskedInv
<1>2. "auto" \notin Hows
  BY DEF Hows
<1>3. ASSUME SameAttempts PROVE AttemptsAsked'
  BY <1>1, <1>3 DEF AttemptsAsked, SameAttempts
<1>4. ASSUME UNCHANGED <<autoAccepted, yieldedManual>> PROVE MarksAsked'
  BY <1>1, <1>4 DEF MarksAsked
<1>5. ASSUME NEW d, NEW p, NEW manual, NEW how \in Hows, StartOffer(d, p, manual, how)
      PROVE  AttemptsAsked'
  <2> DEFINE r == Attempt(d, p, "offerer", 0, manual, how, manual)
  <2>1. r.how # "auto" /\ r.role = "offerer" /\ attempts' = Append(attempts, r)
    BY <1>2, <1>5 DEF Attempt, StartOffer
  <2> HIDE DEF r
  <2> QED BY <1>1, <2>1, AttemptMade DEF AttemptsAsked
<1>6. ASSUME NEW d \in Device, NEW p \in Device, NEW i \in DOMAIN attempts, StartAnswer(d, p, i)
      PROVE  MarksAsked' /\ AttemptsAsked'
  <2> DEFINE r == Attempt(d, p, "answerer", i, FALSE, attempts[i].how,
                          p \notin autoAccepted[d] \/ p \in yieldedManual[d])
  <2>1. attempts[i].how # "auto" /\ (p \notin autoAccepted[d] \/ p \in yieldedManual[d])
    BY <1>1 DEF AttemptsAsked, MarksAsked
  <2>2. r.how # "auto" /\ r.navigates = TRUE /\ attempts' = Append(attempts, r)
    BY <1>6, <2>1 DEF Attempt, StartAnswer
  <2> HIDE DEF r
  <2>3. AttemptsAsked'
    BY <1>1, <2>2, AttemptMade DEF AttemptsAsked
  <2>4. \A q \in Device :
          /\ autoAccepted'[q] = IF q = d THEN autoAccepted[d] \ {p} ELSE autoAccepted[q]
          /\ yieldedManual'[q] = IF q = d THEN yieldedManual[d] \ {p} ELSE yieldedManual[q]
    BY <1>1, <1>6 DEF StartAnswer, FlowOK, MarksOK
  <2>5. MarksAsked'
    BY <1>1, <2>4 DEF MarksAsked
  <2> QED BY <2>3, <2>5
<1>7. ASSUME NEW d \in Device, NEW p \in Device, Messages(d, p)
      PROVE  MarksAsked' /\ AttemptsAsked'
  <2>1. CASE HandleJoined(d, p) \/ HandleLeft(d, p) \/ HandleRejected(d, p)
    <3>1. UNCHANGED <<autoAccepted, yieldedManual, attempts>>
      BY <2>1 DEF HandleJoined, HandleLeft, HandleRejected, requests, connected
    <3> QED BY <1>1, <1>3, <1>4, <3>1, SameOnChange
  <2>2. CASE HandleRequest(d, p)
    <3>1. /\ UNCHANGED attempts
          /\ \/ UNCHANGED <<autoAccepted, yieldedManual>>
             \/ /\ yieldedManual' = [yieldedManual EXCEPT ![d] = @ \cup {p}]
                /\ autoAccepted' = [autoAccepted EXCEPT ![d] = @ \cup {p}]
      BY <2>2 DEF HandleRequest, connected
    <3>2. MarksAsked'
      BY <1>1, <3>1 DEF MarksAsked, FlowOK, MarksOK
    <3> QED BY <1>1, <1>3, <3>1, <3>2, SameOnChange
  <2>3. CASE HandleAccepted(d, p)
    <3>1. Head(net[p][d]).how \in Hows
      <4>1. /\ Head(net[p][d]) \in Frame(Len(attempts)) /\ Len(attempts) \in Nat
            /\ Head(net[p][d]).type = "connect-accepted"
        BY <1>1, <2>3, TakeOK DEF HandleAccepted
      <4> QED BY <4>1, FramesAre
    <3>2. UNCHANGED <<autoAccepted, yieldedManual>>
      BY <2>3 DEF HandleAccepted, requests
    <3>3. UNCHANGED attempts \/ \E manual : StartOffer(d, p, manual, Head(net[p][d]).how)
      BY <2>3 DEF HandleAccepted
    <3> QED BY <1>1, <1>3, <1>4, <1>5, <3>1, <3>2, <3>3, SameOnChange
  <2>4. CASE HandleOffer(d, p)
    <3>1. Head(net[p][d]).id \in DOMAIN attempts
      <4>1. /\ Head(net[p][d]) \in Frame(Len(attempts)) /\ Len(attempts) \in Nat
            /\ Head(net[p][d]).type = "webrtc-offer"
        BY <1>1, <2>4, TakeOK DEF HandleOffer
      <4>2. Head(net[p][d]).id \in 1..Len(attempts)
        BY <4>1, FramesAre
      <4> QED BY <1>1, <4>2, AttemptFacts DEF FlowOK
    <3>2. \/ UNCHANGED <<autoAccepted, yieldedManual, attempts>>
          \/ StartAnswer(d, p, Head(net[p][d]).id)
      BY <2>4 DEF HandleOffer
    <3> QED BY <1>1, <1>3, <1>4, <1>6, <3>1, <3>2, SameOnChange
  <2>5. CASE HandleAnswer(d, p)
    <3>1. UNCHANGED <<autoAccepted, yieldedManual>>
      BY <2>5 DEF HandleAnswer, requests
    <3> QED BY <1>1, <1>3, <1>4, <2>5, <3>1, SameOnChange
  <2> QED BY <1>7, <2>1, <2>2, <2>3, <2>4, <2>5 DEF Messages
<1>8. ASSUME NEW d \in Device, Continuations(d) \/ Render(d) PROVE MarksAsked' /\ AttemptsAsked'
  <2>1. CASE AutoConnect(d) \/ DecideRequest(d) \/ Render(d)
    <3>1. UNCHANGED <<autoAccepted, yieldedManual, attempts>>
      BY <2>1 DEF AutoConnect, DecideRequest, Render, connected
    <3> QED BY <1>1, <1>3, <1>4, <3>1, SameOnChange
  <2>2. CASE ResolveAccepted(d)
    <3> DEFINE w == Head(lookups[d])
    <3>1. w.how \in Hows
      <4>1. w \in Waiting(Len(attempts)) /\ w.kind = "accepted" /\ Len(attempts) \in Nat
        BY <1>1, <2>2, AnsweredOK, AttemptFacts DEF ResolveAccepted, FlowOK
      <4> QED BY <4>1, WaitingFacts
    <3>2. UNCHANGED <<autoAccepted, yieldedManual>>
      BY <2>2 DEF ResolveAccepted
    <3>3. UNCHANGED attempts \/ StartOffer(d, w.peer, w.manual, w.how)
      BY <2>2 DEF ResolveAccepted
    <3> HIDE DEF w
    <3> QED BY <1>1, <1>3, <1>4, <1>5, <3>1, <3>2, <3>3, SameOnChange
  <2>3. CASE ResolveOffer(d)
    <3>1. Head(lookups[d]).id \in DOMAIN attempts /\ Found(d) \in Device
      <4>1. /\ Head(lookups[d]) \in Waiting(Len(attempts)) /\ Head(lookups[d]).kind = "offer"
            /\ Found(d) \in Device /\ Len(attempts) \in Nat
        BY <1>1, <2>3, AnsweredOK, AttemptFacts DEF ResolveOffer, FlowOK
      <4>2. Head(lookups[d]).id \in 1..Len(attempts)
        BY <4>1, WaitingFacts
      <4> QED BY <1>1, <4>1, <4>2, AttemptFacts DEF FlowOK
    <3>2. \/ UNCHANGED <<autoAccepted, yieldedManual, attempts>>
          \/ StartAnswer(d, Found(d), Head(lookups[d]).id)
      BY <2>3 DEF ResolveOffer
    <3> QED BY <1>1, <1>3, <1>4, <1>6, <3>1, <3>2, SameOnChange
  <2> QED BY <1>8, <2>1, <2>2, <2>3 DEF Continuations
<1>9. ASSUME NEW i \in DOMAIN attempts, Progress(i) PROVE MarksAsked' /\ AttemptsAsked'
  <2>1. \/ Gathered(i) \/ Timeout(i) \/ Attach(i)
        \/ \E s : StateChange(i, s)
    <3>1. Opens(i) \/ Closes(i) \/ Fails(i) => \E s : StateChange(i, s)
      BY Zenon DEF Opens, Closes, Fails
    <3> QED BY <1>9, <3>1, Zenon DEF Progress
  <2>2. UNCHANGED <<autoAccepted, yieldedManual>>
    BY <2>1 DEF Gathered, Timeout, Attach, StateChange, requests
  <2> QED BY <1>1, <1>3, <1>4, <2>1, <2>2, SameOnChange
<1>10. ASSUME Users PROVE MarksAsked' /\ AttemptsAsked'
  <2>1. UNCHANGED <<autoAccepted, yieldedManual>>
    BY <1>10 DEF Users, AcceptRequest, RejectRequest, AnswerPopup, ClickConnect,
       ClickDisconnect, requests
  <2>2. SameAttempts
    <3>1. \A d \in Device : AcceptRequest(d) \/ RejectRequest(d) => UNCHANGED attempts
      BY DEF AcceptRequest, RejectRequest, AnswerPopup, connected
    <3>2. \A d, p \in Device : ClickConnect(d, p) => UNCHANGED attempts
      BY DEF ClickConnect, connected
    <3>3. ASSUME NEW d \in Device, NEW p \in Device, ClickDisconnect(d, p) PROVE SameAttempts
      <4>1. attempts' = [attempts EXCEPT ![sessionsRef[d][p]].state = "closed"]
        BY <3>3 DEF ClickDisconnect
      <4> QED BY <1>1, <4>1, AttemptFacts DEF FlowOK, SameAttempts, AttemptType
    <3> QED BY <1>1, <1>10, <3>1, <3>2, <3>3, SameOnChange DEF Users
  <2> QED BY <1>3, <1>4, <2>1, <2>2
<1>11. ASSUME Environment PROVE MarksAsked' /\ AttemptsAsked'
  <2>1. CASE \E d \in Device : GoOnline(d) \/ Drop(d) \/ PresenceEvent(d)
    <3>1. UNCHANGED <<autoAccepted, yieldedManual, attempts>>
      BY <2>1 DEF GoOnline, Drop, PresenceEvent, requests, connected
    <3> QED BY <1>1, <1>3, <1>4, <3>1, SameOnChange
  <2>2. CASE \E i \in DOMAIN attempts : \E s : StateChange(i, s)
    <3>1. UNCHANGED <<autoAccepted, yieldedManual>>
      BY <2>2 DEF StateChange, requests
    <3> QED BY <1>1, <1>3, <1>4, <2>2, <3>1, SameOnChange
  <2> QED BY <1>11, <2>1, <2>2 DEF Environment, LinkLost, Recovers
<1>12. ASSUME UNCHANGED flow PROVE MarksAsked' /\ AttemptsAsked'
  BY <1>1, <1>3, <1>4, <1>12, SameOnChange DEF flow, requests, connected
<1> QED BY <1>1, <1>7, <1>8, <1>9, <1>10, <1>11, <1>12 DEF FlowNext, AskedInv

\* "Only navigate to chat for manual accepts; auto-accept silently
\* establishes": a connection opens the chat on the accepting side exactly if
\* the user accepted it or had asked for it.  It holds where nobody clicks
\* Connect, and where nobody has auto-connect on.
THEOREM AcceptsAreSilent ==
  ASSUME MaxClicks = 0 \/ AutoOn = {}
  PROVE  FlowSpec => []AutoAcceptIsSilent
<1>1. CASE MaxClicks = 0
  <2>1. QuietInv => AutoAcceptIsSilent
    BY DEF QuietInv
  <2> QED BY <1>1, <2>1, QuietInvHolds, PTL
<1>2. CASE AutoOn = {}
  <2>1. FlowInit => AskedInv
    <3>1. FlowInit => DOMAIN attempts = {} /\ \A d \in Device : autoAccepted[d] = {}
      BY EmptySeq DEF FlowInit
    <3> QED BY <3>1, FlowStarts DEF AskedInv, MarksAsked, AttemptsAsked
  <2>2. AskedInv /\ [FlowNext]_flow => AskedInv'
    BY <1>2, AskedKept
  <2>3. AskedInv => AutoAcceptIsSilent
    BY DEF AskedInv, AttemptsAsked, AutoAcceptIsSilent
  <2> QED BY <2>1, <2>2, <2>3, PTL DEF FlowSpec
<1> QED BY <1>1, <1>2
=============================================================================
