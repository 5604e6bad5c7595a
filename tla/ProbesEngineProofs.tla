------------------------- MODULE ProbesEngineProofs -------------------------
(***************************************************************************)
(* Proofs about ProbesEngine, for every set of nodes and introductions.    *)
(***************************************************************************)
EXTENDS ProbesEngine, FiniteSetTheorems, SequenceTheorems, TLAPS

-----------------------------------------------------------------------------
(***************************************************************************)
(* Messages and sequences of messages.                                     *)
(***************************************************************************)

(* The four message types are told apart, and probes by their nonce. *)
LEMMA MessageFacts ==
  /\ ProbeMessages \subseteq Messages
  /\ {MeetMessage, HaveProbes, OkayToSendProbes} \subseteq Messages
  /\ MeetMessage \notin ProbeMessages
  /\ HaveProbes \notin ProbeMessages
  /\ OkayToSendProbes \notin ProbeMessages
  /\ MeetMessage # HaveProbes
  /\ MeetMessage # OkayToSendProbes
  /\ HaveProbes # OkayToSendProbes
  /\ \A p, q \in Probes : ProbeMessage(p) = ProbeMessage(q) => p = q
BY DEF ProbeMessages, Messages, MeetMessage, HaveProbes, OkayToSendProbes, ProbeMessage

(* There are finitely many probes, so any set of them has an order. *)
LEMMA ProbesFinite == IsFiniteSet(Probes)
<1>1. IsFiniteSet(Nodes \X Nodes)
  BY NodesAssumption, FS_Product
<1>2. QED
  BY <1>1, IntroductionsAssumption, FS_Subset DEF Probes

(* AnOrder enumerates a set of probes. *)
LEMMA OrderFacts ==
  ASSUME NEW S \in SUBSET Probes
  PROVE  /\ Cardinality(S) \in Nat
         /\ AnOrder(S) \in [1..Cardinality(S) -> S]
         /\ \A p \in S : \E i \in 1..Cardinality(S) : AnOrder(S)[i] = p
<1>1. IsFiniteSet(S)
  BY ProbesFinite, FS_Subset
<1>2. Cardinality(S) \in Nat /\ ExistsBijection(1..Cardinality(S), S)
  BY <1>1, FS_CardinalityType
<1>3. PICK g \in [1..Cardinality(S) -> S] : IsInjective(g)
  BY <1>2 DEF ExistsBijection, Bijection, Injection, IsInjective
<1>4. AnOrder(S) \in [1..Cardinality(S) -> S] /\ IsInjective(AnOrder(S))
  BY <1>3 DEF AnOrder, Orders, Injection
<1>5. AnOrder(S) \in Injection(1..Cardinality(S), S)
  BY <1>4 DEF Injection, IsInjective
<1>6. IsFiniteSet(1..Cardinality(S)) /\ Cardinality(1..Cardinality(S)) = Cardinality(S)
  BY <1>2, FS_Interval
<1>7. AnOrder(S) \in Surjection(1..Cardinality(S), S)
  BY <1>1, <1>5, <1>6, FS_Injection
<1>8. QED
  BY <1>2, <1>4, <1>7 DEF Surjection

(* A burst consists of the probe messages of its set. *)
LEMMA BurstFacts ==
  ASSUME NEW S \in SUBSET Probes
  PROVE  /\ Burst(S) \in Seq(ProbeMessages)
         /\ \A p \in Probes : ProbeMessage(p) \in Range(Burst(S)) <=> p \in S
         /\ S = {} => Burst(S) = <<>>
<1> DEFINE k == Cardinality(S)
<1>1. /\ k \in Nat
      /\ AnOrder(S) \in [1..k -> S]
      /\ \A p \in S : \E i \in 1..k : AnOrder(S)[i] = p
  BY OrderFacts
<1>2. Burst(S) = [i \in 1..k |-> ProbeMessage(AnOrder(S)[i])]
  BY DEF Burst
<1> HIDE DEF k
<1>3. \A i \in 1..k : ProbeMessage(AnOrder(S)[i]) \in ProbeMessages
  BY <1>1 DEF ProbeMessages
<1>4. Burst(S) \in [1..k -> ProbeMessages]
  BY <1>2, <1>3
<1>5. Burst(S) \in Seq(ProbeMessages)
  BY <1>1, <1>4, SeqDef
<1>6. ASSUME NEW p \in Probes
      PROVE  ProbeMessage(p) \in Range(Burst(S)) <=> p \in S
  <2>1. p \in S => ProbeMessage(p) \in Range(Burst(S))
    BY <1>1, <1>2 DEF Range
  <2>2. ASSUME ProbeMessage(p) \in Range(Burst(S))
        PROVE  p \in S
    <3>1. PICK i \in 1..k : ProbeMessage(p) = ProbeMessage(AnOrder(S)[i])
      BY <1>2, <2>2 DEF Range
    <3>2. QED
      BY <1>1, <3>1, MessageFacts
  <2>3. QED
    BY <2>1, <2>2
<1>7. S = {} => Burst(S) = <<>>
  <2>1. S = {} => k = 0
    BY FS_EmptySet DEF k
  <2>2. QED
    BY <1>5, <1>4, <2>1
<1>8. QED
  BY <1>5, <1>6, <1>7

LEMMA HeadTailOfConcat ==
  ASSUME NEW s \in Seq(Messages), NEW b \in Seq(Messages), s # <<>>
  PROVE  /\ Tail(s) \in Seq(Messages)
         /\ s \o b # <<>>
         /\ Head(s \o b) = Head(s)
         /\ Tail(s \o b) = Tail(s) \o b
<1>1. /\ Tail(s) \in Seq(Messages) /\ s \o b \in Seq(Messages)
      /\ Len(s) \in Nat \ {0} /\ Len(b) \in Nat
      /\ Len(s \o b) = Len(s) + Len(b)
  OBVIOUS
<1>2. s \o b # <<>> /\ Head(s \o b) = Head(s)
  BY <1>1
<1>3. Tail(s \o b) \in Seq(Messages) /\ Tail(s) \o b \in Seq(Messages)
  BY <1>1, <1>2
<1>4. Len(Tail(s \o b)) = Len(Tail(s) \o b)
  BY <1>1, <1>2
<1>5. \A i \in 1..Len(Tail(s \o b)) : Tail(s \o b)[i] = (Tail(s) \o b)[i]
  BY <1>1, <1>2
<1>6. Tail(s \o b) = Tail(s) \o b
  BY <1>3, <1>4, <1>5, SeqEqual
<1>7. QED
  BY <1>1, <1>2, <1>6

LEMMA OnlyProbes ==
  ASSUME NEW s \in Seq(ProbeMessages)
  PROVE  ProbesThen(s, <<>>)
BY DEF ProbesThen

LEMMA AppendProbes ==
  ASSUME NEW s \in Seq(Messages), NEW b \in Seq(ProbeMessages), ProbesThen(s, <<>>)
  PROVE  ProbesThen(s \o b, <<>>)
BY MessageFacts DEF ProbesThen

LEMMA AppendOkay ==
  ASSUME NEW s \in Seq(Messages), ProbesThen(s, <<>>)
  PROVE  ProbesThen(s \o <<OkayToSendProbes>>, <<OkayToSendProbes>>)
BY MessageFacts DEF ProbesThen

LEMMA AppendHave ==
  ASSUME NEW s \in Seq(Messages), ProbesThen(s, <<OkayToSendProbes>>)
  PROVE  ProbesThen(s \o <<HaveProbes>>, <<OkayToSendProbes, HaveProbes>>)
<1> DEFINE t == s \o <<HaveProbes>>
           r == <<OkayToSendProbes, HaveProbes>>
<1>1. /\ Len(t) = Len(s) + 1
      /\ \A i \in 1..Len(s) : t[i] = s[i]
      /\ t[Len(s) + 1] = HaveProbes
      /\ Len(s) \in Nat
  BY MessageFacts
<1>2. Len(r) = 2 /\ r[1] = OkayToSendProbes /\ r[2] = HaveProbes
  OBVIOUS
<1>3. /\ 1 <= Len(s)
      /\ s[Len(s)] = OkayToSendProbes
      /\ \A i \in 1..(Len(s) - 1) : s[i] \in ProbeMessages
  BY <1>1 DEF ProbesThen
<1> HIDE DEF t, r
<1>4. ProbesThen(t, r)
  BY <1>1, <1>2, <1>3 DEF ProbesThen
<1>5. QED
  BY <1>4 DEF t, r

LEMMA TakeProbe ==
  ASSUME NEW s \in Seq(Messages), NEW rest \in Seq(Messages),
         s # <<>>, Head(s) \in ProbeMessages, ProbesThen(s, rest),
         rest # <<>> => rest[1] \notin ProbeMessages
  PROVE  ProbesThen(Tail(s), rest)
BY DEF ProbesThen

LEMMA NoProbeFirst ==
  ASSUME NEW s \in Seq(Messages), NEW rest \in Seq(Messages),
         s # <<>>, Head(s) \notin ProbeMessages, ProbesThen(s, rest)
  PROVE  s = rest
BY DEF ProbesThen

-----------------------------------------------------------------------------
(***************************************************************************)
(* What a step of the engine does, friend by friend.                       *)
(***************************************************************************)
LEMMA FlushedFacts ==
  ASSUME TypeOK, NEW n \in Nodes, NEW status \in Statuses, NEW queued \in Queues,
         NEW f \in Nodes
  PROVE  /\ Flushed(n, status, queued, f) \in SUBSET Probes
         /\ Burst(Flushed(n, status, queued, f)) \in Seq(ProbeMessages)
         /\ Burst(Flushed(n, status, queued, f)) \in Seq(Messages)
         /\ Queued(n, status, queued, f) \in Seq(Messages)
<1>1. Flushed(n, status, queued, f) \in SUBSET Probes
  BY DEF Flushed, Virgin, TypeOK, Statuses, Queues
<1>2. Burst(Flushed(n, status, queued, f)) \in Seq(ProbeMessages)
  BY <1>1, BurstFacts
<1>3. Burst(Flushed(n, status, queued, f)) \in Seq(Messages)
  BY <1>2, MessageFacts, SeqMonotonic
<1>4. (IF Raises(status, queued, f) THEN <<HaveProbes>> ELSE <<>>) \in Seq(Messages)
  BY MessageFacts
<1>5. QED
  BY <1>1, <1>2, <1>3, <1>4, ConcatProperties DEF Queued

(* QueueProbes, one friend at a time. *)
LEMMA QueueFacts ==
  ASSUME TypeOK, NEW n \in Nodes, NEW status \in Statuses, NEW queued \in Queues,
         NEW net \in Networks, QueueProbes(n, status, queued, net)
  PROVE  /\ \A f \in Nodes :
              /\ hand'[n][f] = IF Raises(status, queued, f) THEN "waiting" ELSE status[f]
              /\ offer'[n][f] = offer[n][f] \cup queued[f]
              /\ network'[n][f] = net[n][f] \o Queued(n, status, queued, f)
         /\ \A p \in Probes :
              to'[n][p] = to[n][p] \cup {f \in Nodes : p \in Flushed(n, status, queued, f)}
         /\ \A x \in Nodes \ {n} :
              /\ hand'[x] = hand[x]
              /\ offer'[x] = offer[x]
              /\ to'[x] = to[x]
              /\ network'[x] = net[x]
         /\ hand' \in [Nodes -> Statuses]
         /\ offer' \in [Nodes -> Queues]
         /\ to' \in [Nodes -> Records]
         /\ network' \in Networks
<1>1. /\ hand' = [hand EXCEPT ![n] =
            [f \in Nodes |-> IF Raises(status, queued, f) THEN "waiting" ELSE status[f]]]
      /\ offer' = [offer EXCEPT ![n] = [f \in Nodes |-> @[f] \cup queued[f]]]
      /\ to' = [to EXCEPT ![n] =
            [p \in Probes |-> @[p] \cup {f \in Nodes : p \in Flushed(n, status, queued, f)}]]
      /\ network' = [net EXCEPT ![n] =
            [f \in Nodes |-> net[n][f] \o Queued(n, status, queued, f)]]
  BY DEF QueueProbes
<1>2. network' \in Networks
  <2>1. \A f \in Nodes : net[n][f] \o Queued(n, status, queued, f) \in Seq(Messages)
    BY FlushedFacts, ConcatProperties DEF Networks
  <2>2. QED
    BY <1>1, <2>1 DEF Networks
<1>3. hand' \in [Nodes -> Statuses]
  BY <1>1 DEF TypeOK, Statuses, HandRaisingStatus
<1>4. offer' \in [Nodes -> Queues]
  BY <1>1 DEF TypeOK, Queues
<1>5. to' \in [Nodes -> Records]
  BY <1>1 DEF TypeOK, Records
<1>6. \A f \in Nodes : network'[n][f] = net[n][f] \o Queued(n, status, queued, f)
  BY <1>1 DEF Networks
<1>7. \A f \in Nodes :
         /\ hand'[n][f] = IF Raises(status, queued, f) THEN "waiting" ELSE status[f]
         /\ offer'[n][f] = offer[n][f] \cup queued[f]
  BY <1>1 DEF TypeOK, Statuses, Queues, Records
<1>8. \A p \in Probes :
         to'[n][p] = to[n][p] \cup {f \in Nodes : p \in Flushed(n, status, queued, f)}
  BY <1>1 DEF TypeOK, Statuses, Queues, Records
<1>9. \A x \in Nodes \ {n} :
         /\ hand'[x] = hand[x]
         /\ offer'[x] = offer[x]
         /\ to'[x] = to[x]
         /\ network'[x] = net[x]
  BY <1>1 DEF TypeOK, Networks
<1>10. QED
  BY <1>2, <1>3, <1>4, <1>5, <1>6, <1>7, <1>8, <1>9

(* Taking a message keeps the others in order. *)
LEMMA TakenFacts ==
  ASSUME TypeOK, NEW m \in Nodes, NEW n \in Nodes, network[m][n] # <<>>
  PROVE  /\ Taken(m, n) \in Networks
         /\ Taken(m, n)[m][n] = Tail(network[m][n])
         /\ \A x, y \in Nodes : (x # m \/ y # n) => Taken(m, n)[x][y] = network[x][y]
<1>1. Tail(network[m][n]) \in Seq(Messages)
  BY HeadTailProperties DEF TypeOK, Networks
<1>2. QED
  BY <1>1 DEF TypeOK, Taken, Networks

(* Sending puts the messages behind those under way. *)
LEMMA SentFacts ==
  ASSUME NEW net \in Networks, NEW n \in Nodes, NEW f \in Nodes,
         NEW messages \in Seq(Messages)
  PROVE  /\ Sent(net, n, f, messages) \in Networks
         /\ Sent(net, n, f, messages)[n][f] = net[n][f] \o messages
         /\ \A x, y \in Nodes : (x # n \/ y # f) => Sent(net, n, f, messages)[x][y] = net[x][y]
<1>1. net[n][f] \o messages \in Seq(Messages)
  BY ConcatProperties DEF Networks
<1>2. QED
  BY <1>1 DEF Sent, Networks

-----------------------------------------------------------------------------
(***************************************************************************)
(* The arguments with which the actions queue probes.                      *)
(***************************************************************************)
LEMMA MeetArguments ==
  ASSUME TypeOK, NEW a \in Nodes, NEW b \in Nodes, <<a, b>> \in Introductions
  PROVE  /\ [hand[a] EXCEPT ![b] = "talking"] \in Statuses
         /\ [f \in Nodes |-> IF f = b THEN known[a] \cup {<<a, b>>}
                             ELSE IF f \in Friends(a) THEN {<<a, b>>} ELSE {}] \in Queues
         /\ Sent(network, a, b, <<MeetMessage>>) \in Networks
         /\ Sent(network, a, b, <<MeetMessage>>)[a][b] = network[a][b] \o <<MeetMessage>>
         /\ \A x, y \in Nodes : (x # a \/ y # b) =>
              Sent(network, a, b, <<MeetMessage>>)[x][y] = network[x][y]
<1>1. <<MeetMessage>> \in Seq(Messages) /\ network \in Networks
  BY MessageFacts DEF TypeOK, Networks
<1>2. [hand[a] EXCEPT ![b] = "talking"] \in Statuses
  BY DEF TypeOK, Statuses, HandRaisingStatus
<1>3. [f \in Nodes |-> IF f = b THEN known[a] \cup {<<a, b>>}
                      ELSE IF f \in Friends(a) THEN {<<a, b>>} ELSE {}] \in Queues
  BY DEF TypeOK, Queues, Probes
<1>4. ASSUME NEW messages, messages = <<MeetMessage>>
      PROVE  /\ Sent(network, a, b, messages) \in Networks
             /\ Sent(network, a, b, messages)[a][b] = network[a][b] \o messages
             /\ \A x, y \in Nodes : (x # a \/ y # b) =>
                  Sent(network, a, b, messages)[x][y] = network[x][y]
  <2>1. messages \in Seq(Messages)
    BY <1>1, <1>4
  <2> HIDE <1>4
  <2>2. QED
    BY <1>1, <2>1, SentFacts
<1>5. QED
  BY <1>2, <1>3, <1>4

LEMMA HandleMeetArguments ==
  ASSUME TypeOK, NEW m \in Nodes, NEW n \in Nodes
  PROVE  /\ [hand[n] EXCEPT ![m] = "listening"] \in Statuses
         /\ [f \in Nodes |-> IF f = m THEN known[n] ELSE {}] \in Queues
BY DEF TypeOK, Statuses, Queues, HandRaisingStatus

LEMMA FloodArguments ==
  ASSUME TypeOK, NEW m \in Nodes, NEW n \in Nodes, NEW p \in Probes
  PROVE  /\ hand[n] \in Statuses
         /\ [f \in Nodes |-> IF f \in Friends(n) \ {m} THEN {p} ELSE {}] \in Queues
BY DEF TypeOK, Statuses, Queues

LEMMA OkayArguments ==
  ASSUME TypeOK, NEW m \in Nodes, NEW n \in Nodes
  PROVE  /\ Virgin(n, m, offer[n][m]) \in SUBSET Probes
         /\ Burst(Virgin(n, m, offer[n][m])) \in Seq(ProbeMessages)
         /\ Burst(Virgin(n, m, offer[n][m])) \in Seq(Messages)
<1>1. Virgin(n, m, offer[n][m]) \in SUBSET Probes
  BY DEF TypeOK, Virgin, Queues
<1>2. QED
  BY <1>1, BurstFacts, MessageFacts, SeqMonotonic

-----------------------------------------------------------------------------
(***************************************************************************)
(* Type correctness.                                                       *)
(***************************************************************************)
LEMMA TypeInit == Init => TypeOK
<1>1. <<>> \in Seq(Messages)
  BY EmptySeq
<1>2. QED
  BY <1>1 DEF Init, TypeOK, HandRaisingStatus, Statuses, Queues, Records, Networks

LEMMA TypeStep == TypeOK /\ [Next]_vars => TypeOK'
<1> SUFFICES ASSUME TypeOK, [Next]_vars PROVE TypeOK'
  OBVIOUS
<1>1. ASSUME NEW a \in Nodes, NEW b \in Nodes, Meet(a, b)
      PROVE  TypeOK'
  <2>1. <<a, b>> \in Introductions
    BY <1>1 DEF Meet
  <2>2. known' \in [Nodes -> SUBSET Probes] /\ UNCHANGED <<from, loopbacks>>
    BY <1>1, <2>1 DEF Meet, TypeOK, Probes
  <2>3. /\ hand' \in [Nodes -> Statuses] /\ offer' \in [Nodes -> Queues]
        /\ to' \in [Nodes -> Records] /\ network' \in Networks
    BY <1>1, <2>1, MeetArguments, QueueFacts DEF Meet
  <2>4. QED
    BY <2>2, <2>3 DEF TypeOK
<1>2. ASSUME NEW m \in Nodes, NEW n \in Nodes, HandleMeet(m, n)
      PROVE  TypeOK'
  <2>1. Taken(m, n) \in Networks
    BY <1>2, TakenFacts DEF HandleMeet, Arrives
  <2>2. UNCHANGED <<known, from, loopbacks>>
    BY <1>2 DEF HandleMeet
  <2>3. /\ hand' \in [Nodes -> Statuses] /\ offer' \in [Nodes -> Queues]
        /\ to' \in [Nodes -> Records] /\ network' \in Networks
    BY <1>2, <2>1, HandleMeetArguments, QueueFacts DEF HandleMeet
  <2>4. QED
    BY <2>2, <2>3 DEF TypeOK
<1>3. ASSUME NEW m \in Nodes, NEW n \in Nodes, NEW p \in Probes, FloodNewProbe(m, n, p)
      PROVE  TypeOK'
  <2>1. Taken(m, n) \in Networks
    BY <1>3, TakenFacts DEF FloodNewProbe, Arrives
  <2>2. /\ known' \in [Nodes -> SUBSET Probes]
        /\ UNCHANGED loopbacks
    BY <1>3 DEF FloodNewProbe, TypeOK
  <2>3. from' \in [Nodes -> Records]
    BY <1>3 DEF FloodNewProbe, TypeOK, Records
  <2>4. /\ hand' \in [Nodes -> Statuses] /\ offer' \in [Nodes -> Queues]
        /\ to' \in [Nodes -> Records] /\ network' \in Networks
    BY <1>3, <2>1, FloodArguments, QueueFacts DEF FloodNewProbe
  <2>5. QED
    BY <2>2, <2>3, <2>4 DEF TypeOK
<1>4. ASSUME NEW m \in Nodes, NEW n \in Nodes, NEW p \in Probes, ProbeLoopback(m, n, p)
      PROVE  TypeOK'
  <2>1. network' \in Networks
    BY <1>4, TakenFacts DEF ProbeLoopback, RecordLoopback, Arrives
  <2>2. from' \in [Nodes -> Records]
    BY <1>4 DEF ProbeLoopback, RecordLoopback, TypeOK, Records
  <2>3. /\ loopbacks' \in [Nodes -> SUBSET (Probes \X Nodes)]
        /\ UNCHANGED <<hand, known, to, offer>>
    BY <1>4 DEF ProbeLoopback, RecordLoopback, TypeOK
  <2>4. QED
    BY <2>1, <2>2, <2>3 DEF TypeOK
<1>5. ASSUME NEW m \in Nodes, NEW n \in Nodes, NEW p \in Probes, IgnoreProbe(m, n, p)
      PROVE  TypeOK'
  <2>1. network' \in Networks
    BY <1>5, TakenFacts DEF IgnoreProbe, Arrives
  <2>2. QED
    BY <1>5, <2>1 DEF IgnoreProbe, TypeOK
<1>6. ASSUME NEW m \in Nodes, NEW n \in Nodes, HandleHaveProbes(m, n)
      PROVE  TypeOK'
  <2>1. Taken(m, n) \in Networks
    BY <1>6, TakenFacts DEF HandleHaveProbes, Arrives
  <2>2. <<OkayToSendProbes>> \in Seq(Messages)
    BY MessageFacts
  <2>3. network' \in Networks
    BY <1>6, <2>1, <2>2, SentFacts DEF HandleHaveProbes
  <2>4. hand' \in [Nodes -> Statuses]
    BY <1>6 DEF HandleHaveProbes, TypeOK, Statuses, HandRaisingStatus
  <2>5. QED
    BY <1>6, <2>3, <2>4 DEF HandleHaveProbes, TypeOK
<1>7. ASSUME NEW m \in Nodes, NEW n \in Nodes, HandleOkayToSendProbes(m, n)
      PROVE  TypeOK'
  <2>1. Taken(m, n) \in Networks
    BY <1>7, TakenFacts DEF HandleOkayToSendProbes, Arrives
  <2>2. network' \in Networks
    BY <1>7, <2>1, SentFacts, OkayArguments DEF HandleOkayToSendProbes
  <2>3. hand' \in [Nodes -> Statuses]
    BY <1>7 DEF HandleOkayToSendProbes, TypeOK, Statuses, HandRaisingStatus
  <2>4. to' \in [Nodes -> Records]
    BY <1>7 DEF HandleOkayToSendProbes, TypeOK, Records
  <2>5. QED
    BY <1>7, <2>2, <2>3, <2>4 DEF HandleOkayToSendProbes, TypeOK
<1>8. CASE UNCHANGED vars
  BY <1>8 DEF TypeOK, vars
<1>9. QED
  BY <1>1, <1>2, <1>3, <1>4, <1>5, <1>6, <1>7, <1>8 DEF Next, Handle, HandleProbe

(* The state of every node and every message under way stay of their types,
   whatever the introductions (crossing ones included). *)
THEOREM TypeCorrect == Spec => []TypeOK
BY TypeInit, TypeStep, PTL DEF Spec

-----------------------------------------------------------------------------
(***************************************************************************)
(* The states of a link.                                                   *)
(***************************************************************************)

(* Channels and statuses are of their types, without the other variables. *)
LEMMA ChannelType ==
  ASSUME TypeOK, NEW x \in Nodes, NEW y \in Nodes
  PROVE  /\ network[x][y] \in Seq(Messages)
         /\ hand[x][y] \in HandRaisingStatus
BY DEF TypeOK, Networks, Statuses

LEMMA RestFacts ==
  /\ <<OkayToSendProbes>> \in Seq(Messages)
  /\ <<OkayToSendProbes, HaveProbes>> \in Seq(Messages)
  /\ <<OkayToSendProbes>>[1] = OkayToSendProbes
  /\ <<OkayToSendProbes, HaveProbes>>[1] = OkayToSendProbes
BY MessageFacts

(* Behind the last probe of the end that lets go comes its okay. *)
LEMMA PassingFirst ==
  ASSUME TypeOK, NEW t \in Nodes, NEW o \in Nodes, Passing(t, o),
         Head(network[t][o]) \notin ProbeMessages
  PROVE  /\ \/ hand[t][o] = "listening" /\ network[t][o] = <<OkayToSendProbes>>
            \/ hand[t][o] = "waiting" /\ network[t][o] = <<OkayToSendProbes, HaveProbes>>
         /\ Head(network[t][o]) = OkayToSendProbes
<1>1. network[t][o] \in Seq(Messages)
  BY ChannelType
<1>2. CASE hand[t][o] = "listening" /\ ProbesThen(network[t][o], <<OkayToSendProbes>>)
  <2>1. network[t][o] # <<>>
    BY <1>2 DEF ProbesThen
  <2>2. network[t][o] = <<OkayToSendProbes>>
    BY <1>1, <1>2, <2>1, RestFacts, NoProbeFirst
  <2>3. QED
    BY <1>2, <2>2
<1>3. CASE hand[t][o] = "waiting" /\ ProbesThen(network[t][o], <<OkayToSendProbes, HaveProbes>>)
  <2>1. network[t][o] # <<>>
    BY <1>3 DEF ProbesThen
  <2>2. network[t][o] = <<OkayToSendProbes, HaveProbes>>
    BY <1>1, <1>3, <2>1, RestFacts, NoProbeFirst
  <2>3. QED
    BY <1>3, <2>2
<1>4. QED
  BY <1>2, <1>3 DEF Passing

(* A message that is not a probe is where its link is in one state only. *)
LEMMA MeetArrives ==
  ASSUME TypeOK, NEW m \in Nodes, NEW n \in Nodes, LinkOK(m, n), Arrives(m, n, MeetMessage)
  PROVE  Meeting(m, n)
<1>1. ~Talking(m, n)
  BY NoProbeFirst, MessageFacts, ChannelType, EmptySeq DEF Talking, Arrives
<1>2. ~Passing(m, n)
  BY PassingFirst, MessageFacts DEF Arrives
<1>3. ~Strangers(m, n) /\ ~Led(n, m)
  BY MessageFacts DEF Strangers, Led, Meeting, Talking, Passing, Arrives
<1>4. QED
  BY <1>1, <1>2, <1>3 DEF LinkOK, Led

LEMMA HaveArrives ==
  ASSUME TypeOK, NEW m \in Nodes, NEW n \in Nodes, LinkOK(m, n), Arrives(m, n, HaveProbes)
  PROVE  Talking(n, m) /\ hand[m][n] = "waiting" /\ network[m][n] = <<HaveProbes>>
<1>1. ~Talking(m, n)
  BY NoProbeFirst, MessageFacts, ChannelType, EmptySeq DEF Talking, Arrives
<1>2. ~Passing(m, n)
  BY PassingFirst, MessageFacts DEF Arrives
<1>3. ~Strangers(m, n) /\ ~Meeting(m, n) /\ ~Meeting(n, m) /\ ~Passing(n, m)
  BY MessageFacts DEF Strangers, Meeting, Passing, Arrives
<1>4. Talking(n, m)
  BY <1>1, <1>2, <1>3 DEF LinkOK, Led
<1>5. QED
  BY <1>4 DEF Talking, Arrives

LEMMA OkayArrives ==
  ASSUME TypeOK, NEW m \in Nodes, NEW n \in Nodes, LinkOK(m, n),
         Arrives(m, n, OkayToSendProbes)
  PROVE  /\ hand[n][m] = "waiting"
         /\ network[n][m] = <<>>
         /\ \/ hand[m][n] = "listening" /\ network[m][n] = <<OkayToSendProbes>>
            \/ hand[m][n] = "waiting" /\ network[m][n] = <<OkayToSendProbes, HaveProbes>>
<1>1. ~Talking(m, n)
  BY NoProbeFirst, MessageFacts, ChannelType, EmptySeq DEF Talking, Arrives
<1>2. ~Strangers(m, n) /\ ~Meeting(m, n) /\ ~Led(n, m)
  BY MessageFacts DEF Strangers, Led, Meeting, Talking, Passing, Arrives
<1>3. Passing(m, n)
  BY <1>1, <1>2 DEF LinkOK, Led
<1>4. QED
  BY <1>3, PassingFirst, MessageFacts DEF Passing, Arrives

LEMMA ProbeArrives ==
  ASSUME TypeOK, NEW m \in Nodes, NEW n \in Nodes, LinkOK(m, n), NEW p \in Probes,
         Arrives(m, n, ProbeMessage(p))
  PROVE  /\ Talking(m, n) \/ Passing(m, n)
         /\ hand[n][m] # "none"
<1>1. ProbeMessage(p) \in ProbeMessages
  BY DEF ProbeMessages
<1>2. ~Strangers(m, n) /\ ~Meeting(m, n) /\ ~Led(n, m)
  BY <1>1, MessageFacts DEF Strangers, Led, Meeting, Talking, Passing, Arrives
<1>3. QED
  BY <1>2 DEF LinkOK, Led, Talking, Passing

(* Taking a probe leaves the link in its state. *)
LEMMA TakingProbe ==
  ASSUME TypeOK, NEW m \in Nodes, NEW n \in Nodes, m # n, LinkOK(m, n), NEW p \in Probes,
         Arrives(m, n, ProbeMessage(p)),
         network'[m][n] = Tail(network[m][n]), network'[n][m] = network[n][m],
         hand'[m][n] = hand[m][n], hand'[n][m] = hand[n][m]
  PROVE  LinkOK(m, n)'
<1>1. /\ network[m][n] # <<>> /\ Head(network[m][n]) \in ProbeMessages
      /\ network[m][n] \in Seq(Messages)
  BY ChannelType DEF Arrives, ProbeMessages
<1>2. CASE Talking(m, n)
  <2>1. ProbesThen(network'[m][n], <<>>)
    BY <1>1, <1>2, TakeProbe, EmptySeq DEF Talking
  <2>2. QED
    BY <1>2, <2>1 DEF Talking, LinkOK, Led
<1>3. CASE Passing(m, n)
  <2>1. /\ <<OkayToSendProbes>>[1] \notin ProbeMessages
        /\ <<OkayToSendProbes, HaveProbes>>[1] \notin ProbeMessages
    BY MessageFacts, RestFacts
  <2>2. \/ hand'[m][n] = "listening" /\ ProbesThen(network'[m][n], <<OkayToSendProbes>>)
        \/ hand'[m][n] = "waiting"
           /\ ProbesThen(network'[m][n], <<OkayToSendProbes, HaveProbes>>)
    BY <1>1, <1>3, <2>1, RestFacts, TakeProbe DEF Passing
  <2>3. QED
    BY <1>3, <2>2 DEF Passing, LinkOK, Led
<1>4. QED
  BY <1>2, <1>3, ProbeArrives

(* A link that no end touches stays in its state. *)
LEMMA LinkUntouched ==
  ASSUME NEW x \in Nodes, NEW y \in Nodes, LinkOK(x, y),
         hand'[x][y] = hand[x][y], hand'[y][x] = hand[y][x],
         network'[x][y] = network[x][y], network'[y][x] = network[y][x]
  PROVE  LinkOK(x, y)'
BY DEF LinkOK, Led, Strangers, Meeting, Talking, Passing

(* A node that queues nothing for a stranger leaves all its links in order, but
   for the one whose status or channel the handler changes besides. *)
LEMMA QueueKeepsLink ==
  ASSUME TypeOK, NEW n \in Nodes, NEW status \in Statuses, NEW queued \in Queues,
         NEW net \in Networks, QueueProbes(n, status, queued, net),
         NEW f \in Nodes, f # n, LinkOK(n, f),
         status[f] = hand[n][f],
         net[n][f] = network[n][f],
         net[f][n] = network[f][n],
         hand[n][f] = "none" => queued[f] = {}
  PROVE  LinkOK(n, f)'
<1> DEFINE b == Burst(Flushed(n, status, queued, f))
<1>1. /\ hand'[n][f] = IF Raises(status, queued, f) THEN "waiting" ELSE hand[n][f]
      /\ network'[n][f] = network[n][f] \o Queued(n, status, queued, f)
      /\ hand'[f][n] = hand[f][n]
      /\ network'[f][n] = network[f][n]
  <2>1. \A g \in Nodes :
          /\ hand'[n][g] = IF Raises(status, queued, g) THEN "waiting" ELSE status[g]
          /\ network'[n][g] = net[n][g] \o Queued(n, status, queued, g)
    BY QueueFacts
  <2>2. \A x \in Nodes \ {n} : hand'[x] = hand[x] /\ network'[x] = net[x]
    BY QueueFacts
  <2>3. QED
    BY <2>1, <2>2
<1>2. /\ network[n][f] \in Seq(Messages)
      /\ b \in Seq(ProbeMessages)
      /\ b \in Seq(Messages)
      /\ hand[n][f] \in HandRaisingStatus
  BY FlushedFacts, ChannelType
<1>3. ASSUME ~Raises(status, queued, f), hand[n][f] # "talking" \/ queued[f] = {}
      PROVE  LinkOK(n, f)'
  <2>1. Flushed(n, status, queued, f) = {}
    BY <1>3 DEF Flushed
  <2>2. b = <<>>
    BY <2>1, BurstFacts
  <2>3. Queued(n, status, queued, f) = <<>>
    BY <1>3, <2>2 DEF Queued
  <2>4. network'[n][f] = network[n][f]
    BY <1>1, <1>2, <2>3
  <2>5. QED
    BY <1>1, <1>3, <2>4, LinkUntouched
<1>4. ASSUME hand[n][f] = "talking", queued[f] # {}
      PROVE  LinkOK(n, f)'
  <2>1. ~Raises(status, queued, f)
    BY <1>4 DEF Raises
  <2>2. Queued(n, status, queued, f) = b
    BY <1>2, <2>1 DEF Queued
  <2>3. network'[n][f] = network[n][f] \o b /\ hand'[n][f] = "talking"
    BY <1>1, <1>4, <2>1, <2>2
  <2>4. CASE Meeting(n, f)
    <3>1. /\ Tail(network[n][f]) \in Seq(Messages)
          /\ network'[n][f] # <<>>
          /\ Head(network'[n][f]) = Head(network[n][f])
          /\ Tail(network'[n][f]) = Tail(network[n][f]) \o b
      BY <1>2, <2>3, <2>4, HeadTailOfConcat DEF Meeting
    <3>2. ProbesThen(Tail(network'[n][f]), <<>>)
      BY <1>2, <2>4, <3>1, AppendProbes DEF Meeting
    <3>3. QED
      BY <1>1, <2>3, <2>4, <3>1, <3>2 DEF Meeting, LinkOK, Led
  <2>5. CASE Talking(n, f)
    <3>1. ProbesThen(network'[n][f], <<>>)
      BY <1>2, <2>3, <2>5, AppendProbes DEF Talking
    <3>2. QED
      BY <1>1, <2>3, <2>5, <3>1 DEF Talking, LinkOK, Led
  <2>6. QED
    BY <1>4, <2>4, <2>5 DEF LinkOK, Strangers, Led, Meeting, Talking, Passing
<1>5. ASSUME Raises(status, queued, f)
      PROVE  LinkOK(n, f)'
  <2>1. hand[n][f] = "listening"
    BY <1>5 DEF Raises
  <2>2. Flushed(n, status, queued, f) = {}
    BY <2>1 DEF Flushed
  <2>3. b = <<>>
    BY <2>2, BurstFacts
  <2>4. Queued(n, status, queued, f) = <<HaveProbes>>
    BY <1>5, <2>3, MessageFacts DEF Queued
  <2>5. network'[n][f] = network[n][f] \o <<HaveProbes>> /\ hand'[n][f] = "waiting"
    BY <1>1, <1>5, <2>4
  <2>6. CASE Talking(f, n)
    <3>1. network[n][f] = <<>>
      BY <2>1, <2>6 DEF Talking
    <3>2. network'[n][f] = <<HaveProbes>>
      BY <2>5, <3>1
    <3>3. QED
      BY <1>1, <2>5, <2>6, <3>2 DEF Talking, LinkOK, Led
  <2>7. CASE Passing(n, f)
    <3>1. ProbesThen(network'[n][f], <<OkayToSendProbes, HaveProbes>>)
      BY <1>2, <2>1, <2>5, <2>7, AppendHave DEF Passing
    <3>2. QED
      BY <1>1, <2>5, <2>7, <3>1 DEF Passing, LinkOK, Led
  <2>8. QED
    BY <2>1, <2>6, <2>7 DEF LinkOK, Strangers, Led, Meeting, Talking, Passing
<1>6. QED
  BY <1>3, <1>4, <1>5

(* Nor does a node queue anything for itself. *)
LEMMA QueueKeepsSelf ==
  ASSUME TypeOK, NEW n \in Nodes, NEW status \in Statuses, NEW queued \in Queues,
         NEW net \in Networks, QueueProbes(n, status, queued, net),
         status[n] = "none", queued[n] = {}, net[n][n] = <<>>
  PROVE  hand'[n][n] = "none" /\ network'[n][n] = <<>>
<1>1. /\ hand'[n][n] = IF Raises(status, queued, n) THEN "waiting" ELSE status[n]
      /\ network'[n][n] = net[n][n] \o Queued(n, status, queued, n)
  <2>1. \A g \in Nodes :
          /\ hand'[n][g] = IF Raises(status, queued, g) THEN "waiting" ELSE status[g]
          /\ network'[n][g] = net[n][g] \o Queued(n, status, queued, g)
    BY QueueFacts
  <2>2. QED
    BY <2>1
<1>2. ~Raises(status, queued, n) /\ Flushed(n, status, queued, n) = {}
  BY DEF Raises, Flushed
<1>3. Burst(Flushed(n, status, queued, n)) = <<>>
  BY <1>2, BurstFacts
<1>4. Queued(n, status, queued, n) = <<>>
  BY <1>2, <1>3 DEF Queued
<1>5. QED
  BY <1>1, <1>2, <1>4

(* A step at n changes only the links of n. *)
LEMMA LinkAround ==
  ASSUME LinkInv, NEW n \in Nodes,
         \A x \in Nodes \ {n} : hand'[x] = hand[x],
         \A x, y \in Nodes \ {n} : network'[x][y] = network[x][y],
         hand'[n][n] = "none", network'[n][n] = <<>>,
         \A f \in Nodes \ {n} : LinkOK(n, f)'
  PROVE  LinkInv'
<1>1. \A x \in Nodes : hand'[x][x] = "none" /\ network'[x][x] = <<>>
  BY DEF LinkInv
<1>2. ASSUME NEW x \in Nodes, NEW y \in Nodes, x # y
      PROVE  LinkOK(x, y)'
  <2>1. CASE x = n
    BY <1>2, <2>1
  <2>2. CASE y = n
    <3>1. LinkOK(y, x)'
      BY <1>2, <2>2
    <3>2. QED
      BY <3>1 DEF LinkOK, Strangers
  <2>3. CASE x # n /\ y # n
    <3>1. LinkOK(x, y)
      BY <1>2 DEF LinkInv
    <3>2. /\ hand'[x][y] = hand[x][y] /\ hand'[y][x] = hand[y][x]
          /\ network'[x][y] = network[x][y] /\ network'[y][x] = network[y][x]
      BY <2>3
    <3>3. QED
      BY <3>1, <3>2, LinkUntouched
  <2>4. QED
    BY <2>1, <2>2, <2>3
<1>3. QED
  BY <1>1, <1>2 DEF LinkInv

LEMMA LinkInit == Init => LinkInv
BY DEF Init, LinkInv, LinkOK, Strangers

(* What taking a message of m at n leaves of the network, link by link. *)
LEMMA ArrivalFacts ==
  ASSUME TypeOK, LinkInv, NEW m \in Nodes, NEW n \in Nodes, NEW message,
         Arrives(m, n, message)
  PROVE  /\ m # n
         /\ LinkOK(m, n)
         /\ Taken(m, n) \in Networks
         /\ Taken(m, n)[m][n] = Tail(network[m][n])
         /\ \A x, y \in Nodes : (x # m \/ y # n) => Taken(m, n)[x][y] = network[x][y]
<1>1. network[m][n] # <<>>
  BY DEF Arrives
<1>2. m # n /\ LinkOK(m, n)
  BY <1>1 DEF LinkInv
<1>3. QED
  BY <1>1, <1>2, TakenFacts

LEMMA MeetKeepsLinks ==
  ASSUME OneSided, TypeOK, LinkInv, NEW a \in Nodes, NEW b \in Nodes, Meet(a, b)
  PROVE  LinkInv'
<1> DEFINE status == [hand[a] EXCEPT ![b] = "talking"]
           queued == [f \in Nodes |-> IF f = b THEN known[a] \cup {<<a, b>>}
                                      ELSE IF f \in Friends(a) THEN {<<a, b>>} ELSE {}]
           net == Sent(network, a, b, <<MeetMessage>>)
<1>1. /\ <<a, b>> \in Introductions
      /\ hand[a][b] = "none"
      /\ QueueProbes(a, status, queued, net)
  BY DEF Meet
<1>2. /\ status \in Statuses
      /\ queued \in Queues
      /\ net \in Networks
      /\ net[a][b] = network[a][b] \o <<MeetMessage>>
      /\ \A x, y \in Nodes : (x # a \/ y # b) => net[x][y] = network[x][y]
  BY <1>1, MeetArguments
<1>3. a # b
  BY <1>1, IntroductionsAssumption
<1>4. /\ status[b] = "talking"
      /\ \A f \in Nodes \ {b} : status[f] = hand[a][f]
      /\ queued[b] # {}
      /\ \A f \in Nodes \ {b} : hand[a][f] = "none" => queued[f] = {}
  BY DEF TypeOK, Statuses, Friends
<1>5. hand[a][a] = "none" /\ network[a][a] = <<>>
  BY DEF LinkInv
<1>6. /\ \A x \in Nodes \ {a} : hand'[x] = hand[x] /\ network'[x] = net[x]
      /\ \A f \in Nodes :
           /\ hand'[a][f] = IF Raises(status, queued, f) THEN "waiting" ELSE status[f]
           /\ network'[a][f] = net[a][f] \o Queued(a, status, queued, f)
  <2> HIDE DEF status, queued, net
  <2>1. \A x \in Nodes \ {a} : hand'[x] = hand[x] /\ network'[x] = net[x]
    BY <1>1, <1>2, QueueFacts
  <2>2. \A f \in Nodes :
          /\ hand'[a][f] = IF Raises(status, queued, f) THEN "waiting" ELSE status[f]
          /\ network'[a][f] = net[a][f] \o Queued(a, status, queued, f)
    BY <1>1, <1>2, QueueFacts
  <2>3. QED
    BY <2>1, <2>2
<1> HIDE DEF status, queued, net
<1>7. hand'[a][a] = "none" /\ network'[a][a] = <<>>
  BY <1>1, <1>2, <1>3, <1>4, <1>5, QueueKeepsSelf
<1>8. ASSUME NEW f \in Nodes, f # a, f # b
      PROVE  LinkOK(a, f)'
  <2>1. LinkOK(a, f)
    BY <1>8 DEF LinkInv
  <2>2. /\ status[f] = hand[a][f]
        /\ net[a][f] = network[a][f]
        /\ net[f][a] = network[f][a]
        /\ hand[a][f] = "none" => queued[f] = {}
    BY <1>2, <1>4, <1>8
  <2>3. QED
    BY <1>1, <1>2, <1>8, <2>1, <2>2, QueueKeepsLink
<1>9. LinkOK(a, b)'
  <2>1. Strangers(a, b)
    <3>1. LinkOK(a, b)
      BY <1>3 DEF LinkInv
    <3>2. <<b, a>> \notin Introductions
      BY <1>1 DEF OneSided
    <3>3. QED
      BY <1>1, <3>1, <3>2 DEF LinkOK, Led, Meeting, Talking, Passing
  <2>2. ~Raises(status, queued, b)
    BY <1>4 DEF Raises
  <2>3. /\ Burst(Flushed(a, status, queued, b)) \in Seq(ProbeMessages)
        /\ Burst(Flushed(a, status, queued, b)) \in Seq(Messages)
    BY <1>2, FlushedFacts
  <2>4. Queued(a, status, queued, b) = Burst(Flushed(a, status, queued, b))
    BY <2>2, <2>3 DEF Queued
  <2>5. network[a][b] = <<>> /\ net[a][b] = <<MeetMessage>>
    BY <1>2, <2>1 DEF Strangers
  <2>6. /\ hand'[a][b] = "talking" /\ hand'[b][a] = "none"
        /\ network'[b][a] = <<>>
        /\ network'[a][b] = <<MeetMessage>> \o Burst(Flushed(a, status, queued, b))
    BY <1>2, <1>3, <1>4, <1>6, <2>1, <2>2, <2>4, <2>5 DEF Strangers
  <2>7. /\ network'[a][b] # <<>>
        /\ Head(network'[a][b]) = MeetMessage
        /\ Tail(network'[a][b]) = Burst(Flushed(a, status, queued, b))
    <3>1. <<MeetMessage>> \in Seq(Messages)
      BY MessageFacts
    <3>2. <<MeetMessage>> # <<>> /\ Head(<<MeetMessage>>) = MeetMessage
          /\ Tail(<<MeetMessage>>) = <<>>
      OBVIOUS
    <3>3. QED
      BY <2>3, <2>6, <3>1, <3>2, HeadTailOfConcat, ConcatEmptySeq
  <2>8. ProbesThen(Tail(network'[a][b]), <<>>)
    BY <2>3, <2>7, OnlyProbes
  <2>9. QED
    BY <1>1, <2>6, <2>7, <2>8 DEF Meeting, LinkOK, Led
<1>10. \A x, y \in Nodes \ {a} : network'[x][y] = network[x][y]
  BY <1>2, <1>6
<1>11. \A f \in Nodes \ {a} : LinkOK(a, f)'
  BY <1>8, <1>9
<1>12. QED
  BY <1>6, <1>7, <1>10, <1>11, LinkAround

LEMMA HandleMeetKeepsLinks ==
  ASSUME TypeOK, LinkInv, NEW m \in Nodes, NEW n \in Nodes, HandleMeet(m, n)
  PROVE  LinkInv'
<1> DEFINE status == [hand[n] EXCEPT ![m] = "listening"]
           queued == [f \in Nodes |-> IF f = m THEN known[n] ELSE {}]
           net == Taken(m, n)
<1>1. Arrives(m, n, MeetMessage) /\ QueueProbes(n, status, queued, net)
  BY DEF HandleMeet
<1>2. /\ m # n
      /\ LinkOK(m, n)
      /\ net \in Networks
      /\ net[m][n] = Tail(network[m][n])
      /\ \A x, y \in Nodes : (x # m \/ y # n) => net[x][y] = network[x][y]
  BY <1>1, ArrivalFacts
<1>3. Meeting(m, n)
  BY <1>1, <1>2, MeetArrives
<1>4. status \in Statuses /\ queued \in Queues
  BY HandleMeetArguments
<1>5. /\ status[m] = "listening"
      /\ \A f \in Nodes \ {m} : status[f] = hand[n][f] /\ queued[f] = {}
  BY DEF TypeOK, Statuses
<1>6. hand[n][n] = "none" /\ network[n][n] = <<>>
  BY DEF LinkInv
<1> HIDE DEF status, queued, net
<1>7. \A x \in Nodes \ {n} : hand'[x] = hand[x] /\ network'[x] = net[x]
  BY <1>1, <1>2, <1>4, QueueFacts
<1>8. \A f \in Nodes :
        /\ hand'[n][f] = IF Raises(status, queued, f) THEN "waiting" ELSE status[f]
        /\ network'[n][f] = net[n][f] \o Queued(n, status, queued, f)
  BY <1>1, <1>2, <1>4, QueueFacts
<1>9. hand'[n][n] = "none" /\ network'[n][n] = <<>>
  BY <1>1, <1>2, <1>4, <1>5, <1>6, QueueKeepsSelf
<1>10. ASSUME NEW f \in Nodes, f # n, f # m
       PROVE  LinkOK(n, f)'
  <2>1. LinkOK(n, f)
    BY <1>10 DEF LinkInv
  <2>2. /\ status[f] = hand[n][f] /\ queued[f] = {}
        /\ net[n][f] = network[n][f]
        /\ net[f][n] = network[f][n]
    BY <1>2, <1>5, <1>10
  <2>3. QED
    BY <1>1, <1>2, <1>4, <1>10, <2>1, <2>2, QueueKeepsLink
<1>11. LinkOK(n, m)'
  <2>1. Flushed(n, status, queued, m) = {}
    BY <1>5 DEF Flushed
  <2>2. Burst(Flushed(n, status, queued, m)) = <<>>
    BY <2>1, BurstFacts
  <2>3. network[n][m] = <<>> /\ net[n][m] = <<>>
    BY <1>2, <1>3 DEF Meeting
  <2>4. /\ hand'[m][n] = "talking"
        /\ network'[m][n] = Tail(network[m][n])
        /\ ProbesThen(network'[m][n], <<>>)
    BY <1>2, <1>3, <1>7 DEF Meeting
  <2>5. \/ hand'[n][m] = "listening" /\ network'[n][m] = <<>>
        \/ hand'[n][m] = "waiting" /\ network'[n][m] = <<HaveProbes>>
    <3>1. CASE Raises(status, queued, m)
      <4>1. <<>> \o (<<>> \o <<HaveProbes>>) = <<HaveProbes>>
        BY MessageFacts
      <4>2. QED
        BY <1>8, <2>2, <2>3, <3>1, <4>1 DEF Queued
    <3>2. CASE ~Raises(status, queued, m)
      <4>1. <<>> \o (<<>> \o <<>>) = <<>>
        OBVIOUS
      <4>2. QED
        BY <1>5, <1>8, <2>2, <2>3, <3>2, <4>1 DEF Queued
    <3>3. QED
      BY <3>1, <3>2
  <2>6. QED
    BY <2>4, <2>5 DEF Talking, LinkOK, Led
<1>12. \A x, y \in Nodes \ {n} : network'[x][y] = network[x][y]
  BY <1>2, <1>7
<1>13. \A f \in Nodes \ {n} : LinkOK(n, f)'
  BY <1>10, <1>11
<1>14. QED
  BY <1>7, <1>9, <1>12, <1>13, LinkAround

LEMMA FloodKeepsLinks ==
  ASSUME TypeOK, LinkInv, NEW m \in Nodes, NEW n \in Nodes, NEW p \in Probes,
         FloodNewProbe(m, n, p)
  PROVE  LinkInv'
<1> DEFINE status == hand[n]
           queued == [f \in Nodes |-> IF f \in Friends(n) \ {m} THEN {p} ELSE {}]
           net == Taken(m, n)
<1>1. Arrives(m, n, ProbeMessage(p)) /\ QueueProbes(n, status, queued, net)
  BY DEF FloodNewProbe
<1>2. /\ m # n
      /\ LinkOK(m, n)
      /\ net \in Networks
      /\ net[m][n] = Tail(network[m][n])
      /\ \A x, y \in Nodes : (x # m \/ y # n) => net[x][y] = network[x][y]
  BY <1>1, ArrivalFacts
<1>3. status \in Statuses /\ queued \in Queues
  BY FloodArguments
<1>4. /\ queued[m] = {}
      /\ \A f \in Nodes : hand[n][f] = "none" => queued[f] = {}
  BY DEF Friends
<1>5. hand[n][n] = "none" /\ network[n][n] = <<>>
  BY DEF LinkInv
<1>6. status[n] = "none" /\ \A f \in Nodes : status[f] = hand[n][f]
  BY <1>5
<1> HIDE DEF status, queued, net
<1>7. \A x \in Nodes \ {n} : hand'[x] = hand[x] /\ network'[x] = net[x]
  BY <1>1, <1>2, <1>3, QueueFacts
<1>8. \A f \in Nodes :
        /\ hand'[n][f] = IF Raises(status, queued, f) THEN "waiting" ELSE status[f]
        /\ network'[n][f] = net[n][f] \o Queued(n, status, queued, f)
  BY <1>1, <1>2, <1>3, QueueFacts
<1>9. hand'[n][n] = "none" /\ network'[n][n] = <<>>
  BY <1>1, <1>2, <1>3, <1>4, <1>5, <1>6, QueueKeepsSelf
<1>10. ASSUME NEW f \in Nodes, f # n, f # m
      PROVE  LinkOK(n, f)'
  <2>1. LinkOK(n, f)
    BY <1>10 DEF LinkInv
  <2>2. /\ net[n][f] = network[n][f]
        /\ net[f][n] = network[f][n]
        /\ hand[n][f] = "none" => queued[f] = {}
    BY <1>2, <1>4, <1>10
  <2>3. QED
    BY <1>1, <1>2, <1>3, <1>6, <1>10, <2>1, <2>2, QueueKeepsLink
<1>11. LinkOK(n, m)'
  <2>1. ~Raises(status, queued, m) /\ Flushed(n, status, queued, m) = {}
    BY <1>4 DEF Raises, Flushed
  <2>2. Queued(n, status, queued, m) = <<>>
    BY <2>1, BurstFacts DEF Queued
  <2>3. network[n][m] \in Seq(Messages) /\ net[n][m] = network[n][m]
    BY <1>2, ChannelType
  <2>4. network'[n][m] = network[n][m] /\ hand'[n][m] = hand[n][m]
    <3>1. /\ hand'[n][m] = IF Raises(status, queued, m) THEN "waiting" ELSE status[m]
          /\ network'[n][m] = net[n][m] \o <<>>
      BY <1>8, <2>2
    <3>2. QED
      BY <1>6, <2>1, <2>3, <3>1, ConcatEmptySeq
  <2>5. network'[m][n] = Tail(network[m][n]) /\ hand'[m][n] = hand[m][n]
    BY <1>2, <1>7
  <2>6. LinkOK(m, n)'
    BY <1>1, <1>2, <2>4, <2>5, TakingProbe
  <2>7. QED
    BY <2>6 DEF LinkOK, Strangers
<1>12. \A x, y \in Nodes \ {n} : network'[x][y] = network[x][y]
  BY <1>2, <1>7
<1>13. \A f \in Nodes \ {n} : LinkOK(n, f)'
  BY <1>10, <1>11
<1>14. QED
  BY <1>7, <1>9, <1>12, <1>13, LinkAround

(* A handler that touches no link but the one to the sender. *)
LEMMA OneLink ==
  ASSUME LinkInv, NEW m \in Nodes, NEW n \in Nodes, m # n,
         \A x, y \in Nodes : (x # n \/ y # m) => hand'[x][y] = hand[x][y],
         \A x, y \in Nodes : (x # m \/ y # n) /\ (x # n \/ y # m) => network'[x][y] = network[x][y],
         LinkOK(m, n)'
  PROVE  LinkInv'
<1>1. \A x \in Nodes : hand'[x][x] = "none" /\ network'[x][x] = <<>>
  BY DEF LinkInv
<1>2. ASSUME NEW x \in Nodes, NEW y \in Nodes, x # y
      PROVE  LinkOK(x, y)'
  <2>1. CASE (x = m /\ y = n) \/ (x = n /\ y = m)
    BY <2>1 DEF LinkOK, Strangers
  <2>2. CASE (x # m \/ y # n) /\ (x # n \/ y # m)
    <3>1. LinkOK(x, y)
      BY <1>2 DEF LinkInv
    <3>2. network'[x][y] = network[x][y] /\ network'[y][x] = network[y][x]
      BY <2>2
    <3>3. hand'[x][y] = hand[x][y] /\ hand'[y][x] = hand[y][x]
      BY <2>2
    <3>4. QED
      BY <3>1, <3>2, <3>3, LinkUntouched
  <2>3. QED
    BY <2>1, <2>2
<1>3. QED
  BY <1>1, <1>2 DEF LinkInv

LEMMA ProbeKeepsLinks ==
  ASSUME TypeOK, LinkInv, NEW m \in Nodes, NEW n \in Nodes, NEW p \in Probes,
         ProbeLoopback(m, n, p) \/ IgnoreProbe(m, n, p)
  PROVE  LinkInv'
<1>1. Arrives(m, n, ProbeMessage(p)) /\ network' = Taken(m, n) /\ hand' = hand
  BY DEF ProbeLoopback, RecordLoopback, IgnoreProbe
<1>2. /\ m # n
      /\ LinkOK(m, n)
      /\ network'[m][n] = Tail(network[m][n])
      /\ \A x, y \in Nodes : (x # m \/ y # n) => network'[x][y] = network[x][y]
  BY <1>1, ArrivalFacts
<1>3. LinkOK(m, n)'
  BY <1>1, <1>2, TakingProbe
<1>4. QED
  BY <1>1, <1>2, <1>3, OneLink

LEMMA HaveProbesKeepsLinks ==
  ASSUME TypeOK, LinkInv, NEW m \in Nodes, NEW n \in Nodes, HandleHaveProbes(m, n)
  PROVE  LinkInv'
<1> DEFINE net == Taken(m, n)
<1>1. /\ Arrives(m, n, HaveProbes)
      /\ hand' = [hand EXCEPT ![n][m] = "listening"]
      /\ network' = Sent(net, n, m, <<OkayToSendProbes>>)
  BY DEF HandleHaveProbes
<1>2. /\ m # n
      /\ LinkOK(m, n)
      /\ net \in Networks
      /\ net[m][n] = Tail(network[m][n])
      /\ \A x, y \in Nodes : (x # m \/ y # n) => net[x][y] = network[x][y]
  BY <1>1, ArrivalFacts
<1>3. Talking(n, m) /\ hand[m][n] = "waiting" /\ network[m][n] = <<HaveProbes>>
  BY <1>1, <1>2, HaveArrives
<1> HIDE DEF net
<1>4. /\ network'[n][m] = net[n][m] \o <<OkayToSendProbes>>
      /\ \A x, y \in Nodes : (x # n \/ y # m) => network'[x][y] = net[x][y]
  <2>1. ASSUME NEW messages, messages = <<OkayToSendProbes>>
        PROVE  /\ Sent(net, n, m, messages)[n][m] = net[n][m] \o messages
               /\ \A x, y \in Nodes : (x # n \/ y # m) =>
                    Sent(net, n, m, messages)[x][y] = net[x][y]
    <3>1. messages \in Seq(Messages)
      BY <2>1, MessageFacts
    <3> HIDE <2>1
    <3>2. QED
      BY <1>2, <3>1, SentFacts
  <2>2. QED
    BY <1>1, <2>1
<1>5. /\ hand'[n][m] = "listening"
      /\ \A x, y \in Nodes : (x # n \/ y # m) => hand'[x][y] = hand[x][y]
  BY <1>1 DEF TypeOK, Statuses
<1>6. network'[n][m] = network[n][m] \o <<OkayToSendProbes>> /\ network'[m][n] = <<>>
  <2>1. net[n][m] = network[n][m] /\ network'[m][n] = net[m][n]
    BY <1>2, <1>4
  <2>2. Tail(<<HaveProbes>>) = <<>>
    OBVIOUS
  <2>3. QED
    BY <1>2, <1>3, <1>4, <2>1, <2>2
<1>7. ProbesThen(network'[n][m], <<OkayToSendProbes>>)
  BY <1>3, <1>6, AppendOkay, ChannelType DEF Talking
<1>8. Passing(n, m)'
  BY <1>2, <1>3, <1>5, <1>6, <1>7 DEF Passing
<1>9. LinkOK(m, n)'
  BY <1>8 DEF LinkOK, Led
<1>10. \A x, y \in Nodes : (x # m \/ y # n) /\ (x # n \/ y # m) => network'[x][y] = network[x][y]
  BY <1>2, <1>4
<1>11. QED
  BY <1>2, <1>5, <1>9, <1>10, OneLink

LEMMA OkayKeepsLinks ==
  ASSUME TypeOK, LinkInv, NEW m \in Nodes, NEW n \in Nodes, HandleOkayToSendProbes(m, n)
  PROVE  LinkInv'
<1> DEFINE net == Taken(m, n)
           burst == Burst(Virgin(n, m, offer[n][m]))
<1>1. /\ Arrives(m, n, OkayToSendProbes)
      /\ hand' = [hand EXCEPT ![n][m] = "talking"]
      /\ network' = Sent(net, n, m, burst)
  BY DEF HandleOkayToSendProbes
<1>2. /\ m # n
      /\ LinkOK(m, n)
      /\ net \in Networks
      /\ net[m][n] = Tail(network[m][n])
      /\ \A x, y \in Nodes : (x # m \/ y # n) => net[x][y] = network[x][y]
  BY <1>1, ArrivalFacts
<1>3. /\ network[n][m] = <<>>
      /\ \/ hand[m][n] = "listening" /\ network[m][n] = <<OkayToSendProbes>>
         \/ hand[m][n] = "waiting" /\ network[m][n] = <<OkayToSendProbes, HaveProbes>>
  BY <1>1, <1>2, OkayArrives
<1>4. burst \in Seq(ProbeMessages) /\ burst \in Seq(Messages)
  BY OkayArguments
<1> HIDE DEF net, burst
<1>5. /\ network'[n][m] = net[n][m] \o burst
      /\ \A x, y \in Nodes : (x # n \/ y # m) => network'[x][y] = net[x][y]
  <2>1. /\ Sent(net, n, m, burst)[n][m] = net[n][m] \o burst
        /\ \A x, y \in Nodes : (x # n \/ y # m) => Sent(net, n, m, burst)[x][y] = net[x][y]
    BY <1>2, <1>4, SentFacts
  <2>2. QED
    BY <1>1, <2>1
<1>6. /\ hand'[n][m] = "talking"
      /\ \A x, y \in Nodes : (x # n \/ y # m) => hand'[x][y] = hand[x][y]
  BY <1>1 DEF TypeOK, Statuses
<1>7. network'[n][m] = burst
  BY <1>2, <1>3, <1>4, <1>5
<1>8. \/ hand'[m][n] = "listening" /\ network'[m][n] = <<>>
      \/ hand'[m][n] = "waiting" /\ network'[m][n] = <<HaveProbes>>
  <2>1. network'[m][n] = Tail(network[m][n]) /\ hand'[m][n] = hand[m][n]
    BY <1>2, <1>5, <1>6
  <2>2. /\ Tail(<<OkayToSendProbes>>) = <<>>
        /\ Tail(<<OkayToSendProbes, HaveProbes>>) = <<HaveProbes>>
    OBVIOUS
  <2>3. QED
    BY <1>3, <2>1, <2>2
<1>9. ProbesThen(network'[n][m], <<>>)
  BY <1>4, <1>7, OnlyProbes
<1>10. Talking(n, m)'
  BY <1>6, <1>8, <1>9 DEF Talking
<1>11. LinkOK(m, n)'
  BY <1>10 DEF LinkOK, Led
<1>12. \A x, y \in Nodes : (x # m \/ y # n) /\ (x # n \/ y # m) => network'[x][y] = network[x][y]
  BY <1>2, <1>5
<1>13. QED
  BY <1>2, <1>6, <1>11, <1>12, OneLink

LEMMA LinkStep == OneSided /\ TypeOK /\ LinkInv /\ [Next]_vars => LinkInv'
<1> SUFFICES ASSUME OneSided, TypeOK, LinkInv, [Next]_vars PROVE LinkInv'
  OBVIOUS
<1>1. ASSUME NEW a \in Nodes, NEW b \in Nodes, Meet(a, b)
      PROVE  LinkInv'
  BY <1>1, MeetKeepsLinks
<1>2. ASSUME NEW m \in Nodes, NEW n \in Nodes, Handle(m, n)
      PROVE  LinkInv'
  BY <1>2, HandleMeetKeepsLinks, FloodKeepsLinks, ProbeKeepsLinks, HaveProbesKeepsLinks,
     OkayKeepsLinks DEF Handle, HandleProbe
<1>3. CASE UNCHANGED vars
  BY <1>3 DEF vars, LinkInv, LinkOK, Led, Strangers, Meeting, Talking, Passing
<1>4. QED
  BY <1>1, <1>2, <1>3 DEF Next

(* Between two nodes introduced from one side, a link is always in one of the
   states of LinkOK. *)
THEOREM LinksCorrect ==
  ASSUME OneSided
  PROVE  Spec => []LinkInv
<1>1. Init => TypeOK /\ LinkInv
  BY TypeInit, LinkInit
<1>2. TypeOK /\ LinkInv /\ [Next]_vars => (TypeOK /\ LinkInv)'
  BY TypeStep, LinkStep
<1>3. QED
  BY <1>1, <1>2, PTL DEF Spec

(* What is under way behind and between probes. *)
LEMMA ProbesThenRange ==
  ASSUME NEW s \in Seq(Messages), NEW rest \in Seq(Messages), ProbesThen(s, rest)
  PROVE  /\ Range(rest) \subseteq Range(s)
         /\ Range(s) \subseteq ProbeMessages \cup Range(rest)
<1>1. /\ Len(s) \in Nat /\ Len(rest) \in Nat /\ Len(rest) <= Len(s)
      /\ DOMAIN s = 1..Len(s) /\ DOMAIN rest = 1..Len(rest)
  BY DEF ProbesThen
<1>2. ASSUME NEW i \in 1..Len(rest)
      PROVE  rest[i] \in Range(s)
  <2>1. i + (Len(s) - Len(rest)) \in 1..Len(s)
    BY <1>1
  <2>2. rest[i] = s[i + (Len(s) - Len(rest))]
    BY <1>1, <2>1 DEF ProbesThen
  <2>3. QED
    BY <1>1, <2>1, <2>2 DEF Range
<1>3. ASSUME NEW i \in 1..Len(s)
      PROVE  s[i] \in ProbeMessages \cup Range(rest)
  BY <1>1 DEF ProbesThen, Range
<1>4. QED
  BY <1>1, <1>2, <1>3 DEF Range

LEMMA RestRange ==
  /\ Range(<<>>) = {}
  /\ Range(<<HaveProbes>>) = {HaveProbes}
  /\ Range(<<OkayToSendProbes>>) = {OkayToSendProbes}
  /\ Range(<<OkayToSendProbes, HaveProbes>>) = {OkayToSendProbes, HaveProbes}
<1>1. Range(<<>>) = {}
  BY DEF Range
<1>2. ASSUME NEW x
      PROVE  Range(<<x>>) = {x}
  BY DEF Range
<1>3. ASSUME NEW x, NEW y
      PROVE  Range(<<x, y>>) = {x, y}
  BY DEF Range
<1>4. QED
  BY <1>1, <1>2, <1>3

LEMMA RangeFacts ==
  ASSUME NEW s \in Seq(Messages), NEW b \in Seq(Messages)
  PROVE  /\ Range(s \o b) = Range(s) \cup Range(b)
         /\ s # <<>> => Range(s) = {Head(s)} \cup Range(Tail(s))
<1>1. /\ DOMAIN s = 1..Len(s) /\ DOMAIN b = 1..Len(b)
      /\ DOMAIN (s \o b) = 1..(Len(s) + Len(b))
      /\ Len(s) \in Nat /\ Len(b) \in Nat
  OBVIOUS
<1>2. Range(s \o b) \subseteq Range(s) \cup Range(b)
  BY <1>1 DEF Range
<1>3. Range(s) \subseteq Range(s \o b)
  BY <1>1 DEF Range
<1>4. ASSUME NEW i \in 1..Len(b)
      PROVE  b[i] \in Range(s \o b)
  <2>1. Len(s) + i \in DOMAIN (s \o b) /\ (s \o b)[Len(s) + i] = b[i]
    BY <1>1
  <2>2. QED
    BY <2>1 DEF Range
<1>5. Range(b) \subseteq Range(s \o b)
  BY <1>1, <1>4 DEF Range
<1>6. ASSUME s # <<>>
      PROVE  Range(s) = {Head(s)} \cup Range(Tail(s))
  <2>1. /\ Head(s) = s[1] /\ Len(s) >= 1
        /\ DOMAIN Tail(s) = 1..(Len(s) - 1)
        /\ \A i \in 1..(Len(s) - 1) : Tail(s)[i] = s[i + 1]
    BY <1>1, <1>6
  <2>2. Range(s) \subseteq {Head(s)} \cup Range(Tail(s))
    <3>1. ASSUME NEW i \in 1..Len(s), i # 1
          PROVE  s[i] \in Range(Tail(s))
      <4>1. i - 1 \in 1..(Len(s) - 1) /\ s[i] = Tail(s)[i - 1]
        BY <1>1, <2>1, <3>1
      <4>2. QED
        BY <2>1, <4>1 DEF Range
    <3>2. QED
      BY <1>1, <2>1, <3>1 DEF Range
  <2>3. {Head(s)} \cup Range(Tail(s)) \subseteq Range(s)
    BY <1>1, <2>1 DEF Range
  <2>4. QED
    BY <2>2, <2>3
<1>7. QED
  BY <1>2, <1>3, <1>5, <1>6

LEMMA ConcatRange ==
  ASSUME NEW s \in Seq(Messages)
  PROVE  \A b \in Seq(Messages) : Range(s \o b) = Range(s) \cup Range(b)
BY RangeFacts

LEMMA SentRange ==
  ASSUME NEW net \in Networks, NEW n \in Nodes, NEW f \in Nodes
  PROVE  \A messages \in Seq(Messages) : \A x, y \in Nodes :
           Range(net[x][y]) \subseteq Range(Sent(net, n, f, messages)[x][y])
<1> SUFFICES ASSUME NEW messages \in Seq(Messages), NEW x \in Nodes, NEW y \in Nodes
             PROVE  Range(net[x][y]) \subseteq Range(Sent(net, n, f, messages)[x][y])
  OBVIOUS
<1>1. net[n][f] \in Seq(Messages)
  BY DEF Networks
<1>2. Range(net[n][f]) \subseteq Range(net[n][f] \o messages)
  BY <1>1, ConcatRange
<1>3. /\ Sent(net, n, f, messages)[n][f] = net[n][f] \o messages
      /\ \A i, j \in Nodes : (i # n \/ j # f) => Sent(net, n, f, messages)[i][j] = net[i][j]
  BY DEF Sent, Networks
<1>4. CASE x = n /\ y = f
  BY <1>2, <1>4, <1>3
<1>5. CASE x # n \/ y # f
  BY <1>5, <1>3
<1>6. QED
  BY <1>4, <1>5

(* Of the two ends of a link exactly one may talk. *)
LEMMA LedTalks ==
  ASSUME TypeOK, NEW t \in Nodes, NEW o \in Nodes, Led(t, o)
  PROVE  MayTalk(t, o) <=> ~MayTalk(o, t)
<1>1. network[t][o] \in Seq(Messages)
  BY ChannelType
<1>2. CASE Meeting(t, o)
  <2>1. Tail(network[t][o]) \in Seq(Messages)
    BY <1>1, <1>2, HeadTailProperties DEF Meeting
  <2>2. Range(Tail(network[t][o])) \subseteq ProbeMessages
    BY <1>2, <2>1, ProbesThenRange, RestRange, EmptySeq DEF Meeting
  <2>3. ~InTransit(t, o, OkayToSendProbes)
    BY <1>1, <1>2, <2>1, <2>2, RangeFacts, MessageFacts DEF Meeting, InTransit
  <2>4. QED
    BY <1>2, <2>3 DEF Meeting, MayTalk
<1>3. CASE Talking(t, o)
  <2>1. ~InTransit(t, o, OkayToSendProbes)
    BY <1>1, <1>3, ProbesThenRange, RestRange, EmptySeq, MessageFacts DEF Talking, InTransit
  <2>2. QED
    BY <1>3, <2>1 DEF Talking, MayTalk
<1>4. CASE Passing(t, o)
  <2>1. InTransit(t, o, OkayToSendProbes)
    BY <1>1, <1>4, ProbesThenRange, RestRange, RestFacts DEF Passing, InTransit
  <2>2. ~InTransit(o, t, OkayToSendProbes)
    BY <1>4, RestRange DEF Passing, InTransit
  <2>3. QED
    BY <1>4, <2>1, <2>2 DEF Passing, MayTalk
<1>5. QED
  BY <1>2, <1>3, <1>4 DEF Led

LEMMA OneTalkerFromLinks == TypeOK /\ LinkInv => OneTalker
<1> SUFFICES ASSUME TypeOK, LinkInv, NEW a \in Nodes, NEW b \in Nodes, hand[a][b] # "none"
             PROVE  MayTalk(a, b) <=> ~MayTalk(b, a)
  BY DEF OneTalker
<1>1. LinkOK(a, b)
  BY DEF LinkInv
<1>2. Led(a, b) \/ Led(b, a)
  BY <1>1 DEF LinkOK, Strangers
<1>3. QED
  BY <1>2, LedTalks

(* The right to talk over a link is neither lost nor duplicated. *)
THEOREM OneTalkerCorrect ==
  ASSUME OneSided
  PROVE  Spec => []OneTalker
<1>1. Spec => [](TypeOK /\ LinkInv)
  BY TypeCorrect, LinksCorrect, PTL
<1>2. TypeOK /\ LinkInv => OneTalker
  BY OneTalkerFromLinks
<1>3. QED
  BY <1>1, <1>2, PTL

-----------------------------------------------------------------------------
(***************************************************************************)
(* Nobody gets a message from a stranger but 'meet', in any network.       *)
(***************************************************************************)
(* MetInv for any statuses and network. *)
Met(h, net) ==
  \A x, y \in Nodes :
    /\ net[x][y] # <<>> => h[x][y] # "none"
    /\ h[x][y] # "none" /\ h[y][x] = "none" =>
         net[x][y] # <<>> /\ Head(net[x][y]) = MeetMessage

LEMMA MetFacts == MetInv <=> Met(hand, network)
BY DEF MetInv, Met

LEMMA MetFactsNext == MetInv' <=> Met(hand', network')
BY DEF MetInv, Met

(* The shapes of links are such. *)
LEMMA MetFromLinks == LinkInv => MetInv
<1> SUFFICES ASSUME LinkInv, NEW x \in Nodes, NEW y \in Nodes
             PROVE  /\ network[x][y] # <<>> => hand[x][y] # "none"
                    /\ hand[x][y] # "none" /\ hand[y][x] = "none" =>
                         network[x][y] # <<>> /\ Head(network[x][y]) = MeetMessage
  BY DEF MetInv
<1>1. CASE x = y
  BY <1>1 DEF LinkInv
<1>2. CASE x # y
  <2>1. LinkOK(x, y)
    BY <1>2 DEF LinkInv
  <2> QED
    BY <2>1 DEF LinkOK, Led, Strangers, Meeting, Talking, Passing
<1> QED
  BY <1>1, <1>2

(* What is sent to a friend goes behind what is under way. *)
LEMMA MetAppend ==
  ASSUME NEW h, NEW net \in Networks, NEW after \in Networks, Met(h, net),
         \A x, y \in Nodes : \E more \in Seq(Messages) :
           /\ after[x][y] = net[x][y] \o more
           /\ more # <<>> => h[x][y] # "none"
  PROVE  Met(h, after)
<1> SUFFICES ASSUME NEW x \in Nodes, NEW y \in Nodes
             PROVE  /\ after[x][y] # <<>> => h[x][y] # "none"
                    /\ h[x][y] # "none" /\ h[y][x] = "none" =>
                         after[x][y] # <<>> /\ Head(after[x][y]) = MeetMessage
  BY DEF Met
<1>1. PICK more \in Seq(Messages) :
        after[x][y] = net[x][y] \o more /\ (more # <<>> => h[x][y] # "none")
  OBVIOUS
<1>2. net[x][y] \in Seq(Messages)
  BY DEF Networks
<1>3. after[x][y] # <<>> => net[x][y] # <<>> \/ more # <<>>
  BY <1>1, <1>2
<1>4. net[x][y] # <<>> => after[x][y] # <<>> /\ Head(after[x][y]) = Head(net[x][y])
  BY <1>1, <1>2, HeadTailOfConcat
<1> QED
  BY <1>1, <1>3, <1>4 DEF Met

(* QueueProbes sends to friends only. *)
LEMMA QueueMet ==
  ASSUME TypeOK, NEW n \in Nodes, NEW status \in Statuses, NEW queued \in Queues,
         NEW net \in Networks, QueueProbes(n, status, queued, net),
         Met([hand EXCEPT ![n] = status], net)
  PROVE  MetInv'
<1> DEFINE h == [hand EXCEPT ![n] = status]
<1>1. /\ \A f \in Nodes :
           /\ hand'[n][f] = IF Raises(status, queued, f) THEN "waiting" ELSE status[f]
           /\ network'[n][f] = net[n][f] \o Queued(n, status, queued, f)
      /\ \A x \in Nodes \ {n} : hand'[x] = hand[x] /\ network'[x] = net[x]
      /\ network' \in Networks
  BY QueueFacts
<1>2. h[n] = status /\ \A x \in Nodes \ {n} : h[x] = hand[x]
  BY DEF TypeOK
<1> HIDE DEF h
<1>3. \A x, y \in Nodes : hand'[x][y] = "none" <=> h[x][y] = "none"
  BY <1>1, <1>2 DEF Raises
<1>4. ASSUME NEW f \in Nodes
      PROVE  /\ Queued(n, status, queued, f) \in Seq(Messages)
             /\ Queued(n, status, queued, f) # <<>> => status[f] # "none"
  <2>1. CASE status[f] = "none"
    <3>1. Flushed(n, status, queued, f) = {} /\ ~Raises(status, queued, f)
      BY <2>1 DEF Flushed, Raises
    <3>2. Burst(Flushed(n, status, queued, f)) = <<>>
      BY <3>1, BurstFacts
    <3>3. Queued(n, status, queued, f) = <<>>
      BY <3>1, <3>2 DEF Queued
    <3> QED
      BY <3>3
  <2>2. CASE status[f] # "none"
    BY <2>2, FlushedFacts
  <2> QED
    BY <2>1, <2>2
<1>5. ASSUME NEW x \in Nodes, NEW y \in Nodes
      PROVE  \E more \in Seq(Messages) :
               network'[x][y] = net[x][y] \o more /\ (more # <<>> => h[x][y] # "none")
  <2>1. CASE x = n
    BY <1>1, <1>2, <1>4, <2>1
  <2>2. CASE x # n
    <3>1. <<>> \in Seq(Messages) /\ net[x][y] \in Seq(Messages)
      BY DEF Networks
    <3>2. network'[x][y] = net[x][y] /\ net[x][y] \o <<>> = net[x][y]
      BY <1>1, <2>2, <3>1
    <3> QED
      BY <3>1, <3>2
  <2> QED
    BY <2>1, <2>2
<1>6. Met(h, network')
  <2>1. Met(h, net)
    BY DEF h
  <2> QED
    BY <1>1, <1>5, <2>1, MetAppend
<1> QED
  BY <1>3, <1>6, MetFactsNext DEF Met

(* A message that is not 'meet' is from a friend, and nothing changes when it is gone. *)
LEMMA MetTaken ==
  ASSUME TypeOK, MetInv, NEW m \in Nodes, NEW n \in Nodes, NEW message,
         Arrives(m, n, message)
  PROVE  /\ Taken(m, n) \in Networks
         /\ hand[m][n] # "none"
         /\ message # MeetMessage => hand[n][m] # "none"
         /\ hand[n][m] # "none" => Met(hand, Taken(m, n))
<1>1. network[m][n] # <<>> /\ Head(network[m][n]) = message
  BY DEF Arrives
<1>2. /\ Taken(m, n) \in Networks
      /\ \A x, y \in Nodes : (x # m \/ y # n) => Taken(m, n)[x][y] = network[x][y]
  BY <1>1, TakenFacts
<1>3. hand[m][n] # "none" /\ (message # MeetMessage => hand[n][m] # "none")
  BY <1>1 DEF MetInv
<1>4. ASSUME hand[n][m] # "none"
      PROVE  Met(hand, Taken(m, n))
  <2>1. ASSUME NEW x \in Nodes, NEW y \in Nodes, x # m \/ y # n
        PROVE  /\ Taken(m, n)[x][y] # <<>> => hand[x][y] # "none"
               /\ hand[x][y] # "none" /\ hand[y][x] = "none" =>
                    Taken(m, n)[x][y] # <<>> /\ Head(Taken(m, n)[x][y]) = MeetMessage
    BY <1>2, <2>1 DEF MetInv
  <2> QED
    BY <1>3, <1>4, <2>1 DEF Met
<1> QED
  BY <1>2, <1>3, <1>4

LEMMA MetInit == Init => MetInv
BY DEF Init, MetInv

LEMMA MetStep == TypeOK /\ MetInv /\ [Next]_vars => MetInv'
<1> SUFFICES ASSUME TypeOK, MetInv, [Next]_vars PROVE MetInv'
  OBVIOUS
<1>1. ASSUME NEW a \in Nodes, NEW b \in Nodes, Meet(a, b)
      PROVE  MetInv'
  <2> DEFINE status == [hand[a] EXCEPT ![b] = "talking"]
             queued == [f \in Nodes |-> IF f = b THEN known[a] \cup {<<a, b>>}
                                        ELSE IF f \in Friends(a) THEN {<<a, b>>} ELSE {}]
             net == Sent(network, a, b, <<MeetMessage>>)
  <2>1. /\ <<a, b>> \in Introductions
        /\ hand[a][b] = "none"
        /\ QueueProbes(a, status, queued, net)
    BY <1>1 DEF Meet
  <2>2. /\ status \in Statuses /\ queued \in Queues /\ net \in Networks
        /\ net[a][b] = network[a][b] \o <<MeetMessage>>
        /\ \A x, y \in Nodes : (x # a \/ y # b) => net[x][y] = network[x][y]
    BY <2>1, MeetArguments
  <2>3. net[a][b] = <<MeetMessage>>
    <3>1. network[a][b] = <<>>
      BY <2>1 DEF MetInv
    <3>2. <<>> \o <<MeetMessage>> = <<MeetMessage>>
      OBVIOUS
    <3> HIDE DEF net
    <3> QED
      BY <2>2, <3>1, <3>2
  <2>4. net[a][b] # <<>> /\ Head(net[a][b]) = MeetMessage
    <3> HIDE DEF net
    <3> QED
      BY <2>3
  <2>5. /\ [hand EXCEPT ![a] = status][a][b] # "none"
        /\ \A x, y \in Nodes : (x # a \/ y # b) => [hand EXCEPT ![a] = status][x][y] = hand[x][y]
    BY DEF TypeOK, Statuses
  <2> DEFINE h == [hand EXCEPT ![a] = status]
  <2>6. a # b
    BY <2>1, IntroductionsAssumption
  <2>7. Met(h, net)
    <3> HIDE DEF h, net
    <3>1. h[a][b] # "none" /\ \A x, y \in Nodes : (x # a \/ y # b) => h[x][y] = hand[x][y]
      BY <2>5 DEF h
    <3>2. ASSUME NEW x \in Nodes, NEW y \in Nodes, x # a \/ y # b
          PROVE  /\ net[x][y] # <<>> => h[x][y] # "none"
                 /\ h[x][y] # "none" /\ h[y][x] = "none" =>
                      net[x][y] # <<>> /\ Head(net[x][y]) = MeetMessage
      <4>1. h[x][y] = hand[x][y] /\ net[x][y] = network[x][y]
        BY <2>2, <3>1, <3>2
      <4>2. h[y][x] = "none" => hand[y][x] = "none"
        BY <3>1
      <4> QED
        BY <4>1, <4>2 DEF MetInv
    <3> QED
      BY <2>4, <3>1, <3>2 DEF Met
  <2> HIDE DEF status, queued, net, h
  <2> QED
    BY <2>1, <2>2, <2>7, QueueMet DEF h
<1>2. ASSUME NEW m \in Nodes, NEW n \in Nodes, HandleMeet(m, n)
      PROVE  MetInv'
  <2> DEFINE status == [hand[n] EXCEPT ![m] = "listening"]
             queued == [f \in Nodes |-> IF f = m THEN known[n] ELSE {}]
             net == Taken(m, n)
             h == [hand EXCEPT ![n] = status]
  <2>1. Arrives(m, n, MeetMessage) /\ QueueProbes(n, status, queued, net)
    BY <1>2 DEF HandleMeet
  <2>2. status \in Statuses /\ queued \in Queues /\ net \in Networks /\ hand[m][n] # "none"
    BY <2>1, HandleMeetArguments, MetTaken
  <2>3. \A x, y \in Nodes : (x # m \/ y # n) => net[x][y] = network[x][y]
    BY <2>1, TakenFacts DEF Arrives
  <2>4. h[n][m] # "none" /\ \A x, y \in Nodes : (x # n \/ y # m) => h[x][y] = hand[x][y]
    BY DEF TypeOK, Statuses
  <2>5. Met(h, net)
    <3> HIDE DEF h, net
    <3>1. \A x, y \in Nodes : hand[x][y] # "none" => h[x][y] # "none"
      BY <2>4
    <3>2. ASSUME NEW x \in Nodes, NEW y \in Nodes
          PROVE  /\ net[x][y] # <<>> => h[x][y] # "none"
                 /\ h[x][y] # "none" /\ h[y][x] = "none" =>
                      net[x][y] # <<>> /\ Head(net[x][y]) = MeetMessage
      <4>1. CASE x = m /\ y = n
        BY <2>2, <2>4, <3>1, <4>1
      <4>2. CASE x = n /\ y = m
        BY <2>2, <2>4, <3>1, <4>2
      <4>3. CASE ~(x = m /\ y = n) /\ ~(x = n /\ y = m)
        <5>1. h[x][y] = hand[x][y] /\ h[y][x] = hand[y][x] /\ net[x][y] = network[x][y]
          BY <2>3, <2>4, <4>3
        <5> QED
          BY <5>1 DEF MetInv
      <4> QED
        BY <4>1, <4>2, <4>3
    <3> QED
      BY <3>2 DEF Met
  <2> HIDE DEF status, queued, net, h
  <2> QED
    BY <2>1, <2>2, <2>5, QueueMet DEF h
<1>3. ASSUME NEW m \in Nodes, NEW n \in Nodes, NEW p \in Probes, FloodNewProbe(m, n, p)
      PROVE  MetInv'
  <2> DEFINE queued == [f \in Nodes |-> IF f \in Friends(n) \ {m} THEN {p} ELSE {}]
             net == Taken(m, n)
  <2>1. Arrives(m, n, ProbeMessage(p)) /\ QueueProbes(n, hand[n], queued, net)
    BY <1>3 DEF FloodNewProbe
  <2>2. ProbeMessage(p) # MeetMessage
    BY MessageFacts DEF ProbeMessages
  <2>3. hand[n] \in Statuses /\ queued \in Queues /\ net \in Networks /\ Met(hand, net)
    BY <2>1, <2>2, FloodArguments, MetTaken
  <2>4. [hand EXCEPT ![n] = hand[n]] = hand
    BY DEF TypeOK
  <2> HIDE DEF queued, net
  <2> QED
    BY <2>1, <2>3, <2>4, QueueMet
<1>4. ASSUME NEW m \in Nodes, NEW n \in Nodes, NEW p \in Probes,
             ProbeLoopback(m, n, p) \/ IgnoreProbe(m, n, p)
      PROVE  MetInv'
  <2>1. Arrives(m, n, ProbeMessage(p)) /\ network' = Taken(m, n) /\ hand' = hand
    BY <1>4 DEF ProbeLoopback, RecordLoopback, IgnoreProbe
  <2>2. ProbeMessage(p) # MeetMessage
    BY MessageFacts DEF ProbeMessages
  <2> QED
    BY <2>1, <2>2, MetTaken, MetFactsNext
<1>5. ASSUME NEW m \in Nodes, NEW n \in Nodes, NEW message, NEW status \in HandRaisingStatus,
             NEW more \in Seq(Messages), message # MeetMessage, status # "none",
             Arrives(m, n, message), hand' = [hand EXCEPT ![n][m] = status],
             network' = Sent(Taken(m, n), n, m, more)
      PROVE  MetInv'
  <2> DEFINE net == Taken(m, n)
             after == Sent(net, n, m, more)
  <2>1. net \in Networks /\ Met(hand, net) /\ hand[n][m] # "none"
    BY <1>5, MetTaken
  <2>2. \A x, y \in Nodes : hand'[x][y] = "none" <=> hand[x][y] = "none"
    BY <1>5, <2>1 DEF TypeOK, Statuses
  <2> HIDE DEF net
  <2>3. /\ after \in Networks
        /\ after[n][m] = net[n][m] \o more
        /\ \A x, y \in Nodes : (x # n \/ y # m) => after[x][y] = net[x][y]
    BY <2>1, SentFacts
  <2>4. ASSUME NEW x \in Nodes, NEW y \in Nodes
        PROVE  \E rest \in Seq(Messages) :
                 after[x][y] = net[x][y] \o rest /\ (rest # <<>> => hand[x][y] # "none")
    <3> HIDE DEF after
    <3>1. CASE x = n /\ y = m
      BY <2>1, <2>3, <3>1
    <3>2. CASE x # n \/ y # m
      <4>1. <<>> \in Seq(Messages) /\ net[x][y] \in Seq(Messages)
        BY <2>1 DEF Networks
      <4>2. after[x][y] = net[x][y] /\ net[x][y] \o <<>> = net[x][y]
        BY <2>3, <3>2, <4>1
      <4> QED
        BY <4>1, <4>2
    <3> QED
      BY <3>1, <3>2
  <2>5. network' = after
    BY <1>5 DEF net
  <2> HIDE DEF after
  <2>6. Met(hand, after)
    BY <2>1, <2>3, <2>4, MetAppend
  <2> QED
    BY <2>2, <2>5, <2>6, MetFactsNext DEF Met
<1>6. ASSUME NEW m \in Nodes, NEW n \in Nodes, HandleHaveProbes(m, n)
      PROVE  MetInv'
  <2>1. /\ Arrives(m, n, HaveProbes) /\ hand' = [hand EXCEPT ![n][m] = "listening"]
        /\ network' = Sent(Taken(m, n), n, m, <<OkayToSendProbes>>)
    BY <1>6 DEF HandleHaveProbes
  <2> QED
    BY <1>5, <2>1, MessageFacts, RestFacts DEF HandRaisingStatus
<1>7. ASSUME NEW m \in Nodes, NEW n \in Nodes, HandleOkayToSendProbes(m, n)
      PROVE  MetInv'
  <2>1. /\ Arrives(m, n, OkayToSendProbes) /\ hand' = [hand EXCEPT ![n][m] = "talking"]
        /\ network' = Sent(Taken(m, n), n, m, Burst(Virgin(n, m, offer[n][m])))
    BY <1>7 DEF HandleOkayToSendProbes
  <2>2. Burst(Virgin(n, m, offer[n][m])) \in Seq(Messages)
    BY OkayArguments
  <2> QED
    BY <1>5, <2>1, <2>2, MessageFacts DEF HandRaisingStatus
<1>8. CASE UNCHANGED vars
  BY <1>8 DEF vars, MetInv
<1> QED
  BY <1>1, <1>2, <1>3, <1>4, <1>6, <1>7, <1>8 DEF Next, Handle, HandleProbe

LEMMA MetCorrect == Spec => []MetInv
<1>1. TypeOK /\ MetInv /\ [Next]_vars => MetInv'
  BY MetStep
<1> QED
  BY <1>1, MetInit, TypeCorrect, PTL DEF Spec

(* No node ever takes a message of a friend it does not have, in any network. *)
THEOREM NoStrangerCorrect == Spec => []NoStranger
<1>1. MetInv => NoStranger
  BY DEF MetInv, NoStranger
<1>2. QED
  BY <1>1, MetCorrect, PTL

-----------------------------------------------------------------------------
(***************************************************************************)
(* No probe is sent over a link by both ends.                              *)
(***************************************************************************)

(* While an end talks, no probe of the other end is on its way to it. *)
LEMMA TalkerHearsNoProbe ==
  ASSUME TypeOK, LinkInv, NEW n \in Nodes, NEW f \in Nodes, hand[n][f] = "talking",
         NEW p \in Probes
  PROVE  n # f /\ ~InTransit(f, n, ProbeMessage(p))
<1>1. n # f /\ LinkOK(n, f)
  BY DEF LinkInv
<1>2. network[f][n] = <<>> \/ network[f][n] = <<HaveProbes>>
  BY <1>1 DEF LinkOK, Led, Strangers, Meeting, Talking, Passing
<1>3. ProbeMessage(p) # HaveProbes
  BY MessageFacts DEF ProbeMessages
<1>4. QED
  BY <1>1, <1>2, <1>3, RestRange DEF InTransit

(* A step at n that sends sent[f], virgin probes, to each friend f, from which
   no probe is on its way, and loses no probe without recording it. *)
LEMMA SendingKeeps ==
  ASSUME SentInv, NoMidAirCrossing, NEW n \in Nodes, NEW sent \in [Nodes -> SUBSET Probes],
         \A x \in Nodes \ {n} : to'[x] = to[x],
         \A p \in Probes : to'[n][p] = to[n][p] \cup {f \in Nodes : p \in sent[f]},
         \A f \in Nodes : \A p \in sent[f] :
           f # n /\ f \notin from[n][p] /\ ~InTransit(f, n, ProbeMessage(p)),
         \A f \in Nodes : \A p \in sent[f] : InTransit(n, f, ProbeMessage(p))',
         \A x, y \in Nodes, p \in Probes : x \in from[y][p] => x \in from'[y][p],
         \A x, y \in Nodes, p \in Probes : InTransit(x, y, ProbeMessage(p)) =>
           InTransit(x, y, ProbeMessage(p))' \/ x \in from'[y][p] \/ x \in to[y][p]
  PROVE  (SentInv /\ NoMidAirCrossing)'
<1>1. ASSUME NEW x \in Nodes, NEW y \in Nodes, NEW p \in Probes, y \in to'[x][p]
      PROVE  y \in to[x][p] \/ (x = n /\ p \in sent[y])
  BY <1>1
<1>2. ASSUME NEW x \in Nodes, NEW y \in Nodes, NEW p \in Probes, y \in to'[x][p]
      PROVE  x \in from'[y][p] \/ InTransit(x, y, ProbeMessage(p))'
  <2>1. CASE y \in to[x][p]
    <3>1. x \notin to[y][p]
      BY <2>1 DEF NoMidAirCrossing
    <3>2. x \in from[y][p] \/ InTransit(x, y, ProbeMessage(p))
      BY <2>1 DEF SentInv
    <3>3. QED
      BY <3>1, <3>2
  <2>2. CASE x = n /\ p \in sent[y]
    BY <2>2
  <2>3. QED
    BY <1>1, <1>2, <2>1, <2>2
<1>3. ASSUME NEW f \in Nodes, NEW p \in sent[f]
      PROVE  n \notin to'[f][p]
  <2>1. p \in Probes /\ f # n /\ f \notin from[n][p] /\ ~InTransit(f, n, ProbeMessage(p))
    OBVIOUS
  <2>2. n \notin to[f][p]
    BY <2>1 DEF SentInv
  <2>3. QED
    BY <2>1, <2>2
<1>4. ASSUME NEW a \in Nodes, NEW b \in Nodes, NEW p \in Probes,
             b \in to'[a][p], a \in to'[b][p]
      PROVE  FALSE
  <2>1. CASE a = n /\ p \in sent[b]
    BY <1>3, <1>4, <2>1
  <2>2. CASE b = n /\ p \in sent[a]
    BY <1>3, <1>4, <2>2
  <2>3. CASE b \in to[a][p] /\ a \in to[b][p]
    BY <2>3 DEF NoMidAirCrossing
  <2>4. QED
    BY <1>1, <1>4, <2>1, <2>2, <2>3
<1>5. SentInv'
  BY <1>2 DEF SentInv
<1>6. NoMidAirCrossing'
  BY <1>4 DEF NoMidAirCrossing
<1>7. QED
  BY <1>5, <1>6

(* The same, where the probes are those that QueueProbes flushes. *)
LEMMA QueueingKeeps ==
  ASSUME TypeOK, LinkInv, SentInv, NoMidAirCrossing, NEW n \in Nodes,
         NEW status \in Statuses, NEW queued \in Queues, NEW net \in Networks,
         QueueProbes(n, status, queued, net),
         \A f \in Nodes : status[f] = "talking" =>
           f # n /\ (hand[n][f] = "talking" \/ network[f][n] = <<>>),
         \A x, y \in Nodes, p \in Probes : x \in from[y][p] => x \in from'[y][p],
         \A x, y \in Nodes, p \in Probes : InTransit(x, y, ProbeMessage(p)) =>
           ProbeMessage(p) \in Range(net[x][y]) \/ x \in from'[y][p]
  PROVE  (SentInv /\ NoMidAirCrossing)'
<1> DEFINE sent == [f \in Nodes |-> Flushed(n, status, queued, f)]
<1>1. \A f \in Nodes :
        /\ Flushed(n, status, queued, f) \in SUBSET Probes
        /\ Burst(Flushed(n, status, queued, f)) \in Seq(ProbeMessages)
        /\ Burst(Flushed(n, status, queued, f)) \in Seq(Messages)
        /\ Queued(n, status, queued, f) \in Seq(Messages)
  BY FlushedFacts
<1>2. sent \in [Nodes -> SUBSET Probes]
  BY <1>1
<1>3. \A x \in Nodes \ {n} : to'[x] = to[x] /\ network'[x] = net[x]
  BY QueueFacts
<1>4. \A p \in Probes : to'[n][p] = to[n][p] \cup {f \in Nodes : p \in sent[f]}
  <2>1. \A p \in Probes :
          to'[n][p] = to[n][p] \cup {f \in Nodes : p \in Flushed(n, status, queued, f)}
    BY QueueFacts
  <2>2. QED
    BY <2>1
<1>5. \A f \in Nodes : network'[n][f] = net[n][f] \o Queued(n, status, queued, f)
  BY QueueFacts
<1>6. ASSUME NEW f \in Nodes, NEW p \in sent[f]
      PROVE  f # n /\ f \notin from[n][p] /\ ~InTransit(f, n, ProbeMessage(p))
  <2>1. p \in Probes /\ status[f] = "talking" /\ f \notin from[n][p]
    BY <1>1 DEF Flushed, Virgin
  <2>2. CASE hand[n][f] = "talking"
    BY <2>1, <2>2, TalkerHearsNoProbe
  <2>3. CASE network[f][n] = <<>>
    BY <2>1, <2>3, RestRange DEF InTransit
  <2>4. QED
    BY <2>1, <2>2, <2>3
<1>7. ASSUME NEW f \in Nodes
      PROVE  Range(network'[n][f]) = Range(net[n][f]) \cup Range(Queued(n, status, queued, f))
  <2>1. net[n][f] \in Seq(Messages) /\ Queued(n, status, queued, f) \in Seq(Messages)
    BY <1>1 DEF Networks
  <2>2. \A b \in Seq(Messages) : Range(net[n][f] \o b) = Range(net[n][f]) \cup Range(b)
    BY <2>1, ConcatRange
  <2>3. QED
    BY <1>5, <2>1, <2>2
<1>8. ASSUME NEW f \in Nodes, NEW p \in sent[f]
      PROVE  InTransit(n, f, ProbeMessage(p))'
  <2>1. ProbeMessage(p) \in Range(Burst(Flushed(n, status, queued, f)))
    BY <1>1, BurstFacts
  <2>2. (IF Raises(status, queued, f) THEN <<HaveProbes>> ELSE <<>>) \in Seq(Messages)
    BY MessageFacts
  <2>3. Range(Burst(Flushed(n, status, queued, f))) \subseteq Range(Queued(n, status, queued, f))
    <3>1. \A b \in Seq(Messages) :
            Range(Burst(Flushed(n, status, queued, f)) \o b)
              = Range(Burst(Flushed(n, status, queued, f))) \cup Range(b)
      BY <1>1, ConcatRange
    <3>2. QED
      BY <2>2, <3>1 DEF Queued
  <2>4. QED
    BY <1>7, <2>1, <2>3 DEF InTransit
<1>9. ASSUME NEW x \in Nodes, NEW y \in Nodes
      PROVE  Range(net[x][y]) \subseteq Range(network'[x][y])
  BY <1>3, <1>7
<1>10. \A x, y \in Nodes, p \in Probes : InTransit(x, y, ProbeMessage(p)) =>
         InTransit(x, y, ProbeMessage(p))' \/ x \in from'[y][p] \/ x \in to[y][p]
  BY <1>9 DEF InTransit
<1> HIDE DEF sent
<1>11. QED
  BY <1>2, <1>3, <1>4, <1>6, <1>8, <1>10, SendingKeeps

(* All messages but the one taken stay under way. *)
LEMMA TakenRange ==
  ASSUME TypeOK, NEW m \in Nodes, NEW n \in Nodes, NEW message, Arrives(m, n, message)
  PROVE  /\ \A x, y \in Nodes : \A other \in Range(network[x][y]) :
              other \in Range(Taken(m, n)[x][y]) \/ (x = m /\ y = n /\ other = message)
         /\ \A x, y \in Nodes : Range(Taken(m, n)[x][y]) \subseteq Range(network[x][y])
<1>1. network[m][n] # <<>> /\ Head(network[m][n]) = message /\ network[m][n] \in Seq(Messages)
  BY ChannelType DEF Arrives
<1>2. Range(network[m][n]) = {message} \cup Range(Tail(network[m][n]))
  BY <1>1, EmptySeq, RangeFacts
<1>3. /\ Taken(m, n)[m][n] = Tail(network[m][n])
      /\ \A x, y \in Nodes : (x # m \/ y # n) => Taken(m, n)[x][y] = network[x][y]
  BY <1>1, TakenFacts
<1>4. ASSUME NEW x \in Nodes, NEW y \in Nodes
      PROVE  /\ \A other \in Range(network[x][y]) :
                  other \in Range(Taken(m, n)[x][y]) \/ (x = m /\ y = n /\ other = message)
             /\ Range(Taken(m, n)[x][y]) \subseteq Range(network[x][y])
  BY <1>2, <1>3
<1>5. QED
  BY <1>4

(* Nothing else is under way afterwards. *)
LEMMA TakenTransit ==
  ASSUME TypeOK, NEW m \in Nodes, NEW n \in Nodes, NEW message, Arrives(m, n, message)
  PROVE  \A x, y \in Nodes : \A other : other \in Range(Taken(m, n)[x][y]) => InTransit(x, y, other)
BY TakenRange DEF InTransit

SendInv == SentInv /\ NoMidAirCrossing

LEMMA SendInit == Init => SendInv
BY DEF Init, SendInv, SentInv, NoMidAirCrossing

LEMMA MeetSends ==
  ASSUME OneSided, TypeOK, LinkInv, SendInv, NEW a \in Nodes, NEW b \in Nodes, Meet(a, b)
  PROVE  SendInv'
<1> DEFINE status == [hand[a] EXCEPT ![b] = "talking"]
           queued == [f \in Nodes |-> IF f = b THEN known[a] \cup {<<a, b>>}
                                      ELSE IF f \in Friends(a) THEN {<<a, b>>} ELSE {}]
           net == Sent(network, a, b, <<MeetMessage>>)
<1>1. /\ <<a, b>> \in Introductions
      /\ hand[a][b] = "none"
      /\ QueueProbes(a, status, queued, net)
      /\ from' = from
  BY DEF Meet
<1>2. /\ status \in Statuses /\ queued \in Queues /\ net \in Networks
      /\ net[a][b] = network[a][b] \o <<MeetMessage>>
      /\ \A x, y \in Nodes : (x # a \/ y # b) => net[x][y] = network[x][y]
  BY <1>1, MeetArguments
<1>3. a # b
  BY <1>1, IntroductionsAssumption
<1>4. network[b][a] = <<>>
  <2>1. LinkOK(a, b) /\ <<b, a>> \notin Introductions
    BY <1>1, <1>3 DEF LinkInv, OneSided
  <2>2. QED
    BY <1>1, <2>1 DEF LinkOK, Led, Strangers, Meeting, Talking, Passing
<1>5. \A f \in Nodes : status[f] = "talking" =>
        f # a /\ (hand[a][f] = "talking" \/ network[f][a] = <<>>)
  BY <1>3, <1>4 DEF TypeOK, Statuses, LinkInv
<1>6. \A x, y \in Nodes : Range(network[x][y]) \subseteq Range(net[x][y])
  <2>1. <<MeetMessage>> \in Seq(Messages) /\ network[a][b] \in Seq(Messages)
    BY MessageFacts, ChannelType
  <2>2. Range(network[a][b]) \subseteq Range(network[a][b] \o <<MeetMessage>>)
    <3>1. \A s \in Seq(Messages) : Range(network[a][b] \o s) = Range(network[a][b]) \cup Range(s)
      BY <2>1, ConcatRange
    <3>2. QED
      BY <2>1, <3>1
  <2>3. QED
    BY <1>2, <2>2
<1> HIDE DEF status, queued, net
<1>7. (SentInv /\ NoMidAirCrossing)'
  BY <1>1, <1>2, <1>5, <1>6, QueueingKeeps DEF SendInv, InTransit
<1>8. QED
  BY <1>7 DEF SendInv

LEMMA HandleMeetSends ==
  ASSUME TypeOK, LinkInv, SendInv, NEW m \in Nodes, NEW n \in Nodes, HandleMeet(m, n)
  PROVE  SendInv'
<1> DEFINE status == [hand[n] EXCEPT ![m] = "listening"]
           queued == [f \in Nodes |-> IF f = m THEN known[n] ELSE {}]
           net == Taken(m, n)
<1>1. /\ Arrives(m, n, MeetMessage)
      /\ QueueProbes(n, status, queued, net)
      /\ from' = from
  BY DEF HandleMeet
<1>2. net \in Networks
  BY <1>1, ArrivalFacts
<1>3. status \in Statuses /\ queued \in Queues
  BY HandleMeetArguments
<1>4. \A f \in Nodes : status[f] = "talking" =>
        f # n /\ (hand[n][f] = "talking" \/ network[f][n] = <<>>)
  BY DEF TypeOK, Statuses, LinkInv
<1>5. \A x, y \in Nodes, p \in Probes : InTransit(x, y, ProbeMessage(p)) =>
        ProbeMessage(p) \in Range(net[x][y])
  <2>1. \A p \in Probes : ProbeMessage(p) # MeetMessage
    BY MessageFacts DEF ProbeMessages
  <2>2. QED
    BY <1>1, <2>1, TakenRange DEF InTransit
<1> HIDE DEF status, queued, net
<1>6. (SentInv /\ NoMidAirCrossing)'
  BY <1>1, <1>2, <1>3, <1>4, <1>5, QueueingKeeps DEF SendInv
<1>7. QED
  BY <1>6 DEF SendInv

LEMMA FloodSends ==
  ASSUME TypeOK, LinkInv, SendInv, NEW m \in Nodes, NEW n \in Nodes, NEW p \in Probes,
         FloodNewProbe(m, n, p)
  PROVE  SendInv'
<1> DEFINE queued == [f \in Nodes |-> IF f \in Friends(n) \ {m} THEN {p} ELSE {}]
           net == Taken(m, n)
<1>1. /\ Arrives(m, n, ProbeMessage(p))
      /\ QueueProbes(n, hand[n], queued, net)
      /\ from' = [from EXCEPT ![n][p] = @ \cup {m}]
  BY DEF FloodNewProbe
<1>2. net \in Networks
  BY <1>1, ArrivalFacts
<1>3. hand[n] \in Statuses /\ queued \in Queues
  BY FloodArguments
<1>4. \A f \in Nodes : hand[n][f] = "talking" => f # n
  BY DEF LinkInv
<1>5. /\ \A x, y \in Nodes, q \in Probes : x \in from[y][q] => x \in from'[y][q]
      /\ m \in from'[n][p]
  BY <1>1 DEF TypeOK, Records
<1>6. \A x, y \in Nodes, q \in Probes : InTransit(x, y, ProbeMessage(q)) =>
        ProbeMessage(q) \in Range(net[x][y]) \/ x \in from'[y][q]
  <2>1. \A q \in Probes : ProbeMessage(q) = ProbeMessage(p) => q = p
    BY MessageFacts
  <2>2. \A x, y \in Nodes : \A other \in Range(network[x][y]) :
          other \in Range(net[x][y]) \/ (x = m /\ y = n /\ other = ProbeMessage(p))
    BY <1>1, TakenRange
  <2> HIDE DEF queued, net
  <2>3. QED
    BY <1>5, <2>1, <2>2 DEF InTransit
<1> HIDE DEF queued, net
<1>7. (SentInv /\ NoMidAirCrossing)'
  BY <1>1, <1>2, <1>3, <1>4, <1>5, <1>6, QueueingKeeps DEF SendInv
<1>8. QED
  BY <1>7 DEF SendInv

(* A probe that n has sent itself would be ignored: no probe comes that way. *)
LEMMA ProbeSends ==
  ASSUME TypeOK, LinkInv, SendInv, NEW m \in Nodes, NEW n \in Nodes, NEW p \in Probes,
         ProbeLoopback(m, n, p) \/ IgnoreProbe(m, n, p)
  PROVE  SendInv'
<1> DEFINE sent == [f \in Nodes |-> {}]
<1>1. Arrives(m, n, ProbeMessage(p)) /\ network' = Taken(m, n) /\ to' = to
  BY DEF ProbeLoopback, RecordLoopback, IgnoreProbe
<1>2. /\ \A x, y \in Nodes, q \in Probes : x \in from[y][q] => x \in from'[y][q]
      /\ m \in from'[n][p] \/ m \in to[n][p]
  <2>1. CASE ProbeLoopback(m, n, p)
    BY <2>1 DEF ProbeLoopback, RecordLoopback, TypeOK, Records
  <2>2. CASE IgnoreProbe(m, n, p)
    BY <2>2 DEF IgnoreProbe, Virgin
  <2>3. QED
    BY <2>1, <2>2
<1>3. \A x, y \in Nodes, q \in Probes : InTransit(x, y, ProbeMessage(q)) =>
        InTransit(x, y, ProbeMessage(q))' \/ x \in from'[y][q] \/ x \in to[y][q]
  <2>1. \A q \in Probes : ProbeMessage(q) = ProbeMessage(p) => q = p
    BY MessageFacts
  <2>2. QED
    BY <1>1, <1>2, <2>1, TakenRange DEF InTransit
<1>4. /\ sent \in [Nodes -> SUBSET Probes]
      /\ \A f \in Nodes : sent[f] = {}
  OBVIOUS
<1> HIDE DEF sent
<1>5. /\ \A x \in Nodes \ {n} : to'[x] = to[x]
      /\ \A q \in Probes : to'[n][q] = to[n][q] \cup {f \in Nodes : q \in sent[f]}
  BY <1>1, <1>4
<1>6. SentInv /\ NoMidAirCrossing
  BY DEF SendInv
<1>7. (SentInv /\ NoMidAirCrossing)'
  BY <1>2, <1>3, <1>4, <1>5, <1>6, SendingKeeps
<1>8. QED
  BY <1>7 DEF SendInv

LEMMA HaveProbesSends ==
  ASSUME TypeOK, LinkInv, SendInv, NEW m \in Nodes, NEW n \in Nodes, HandleHaveProbes(m, n)
  PROVE  SendInv'
<1> DEFINE sent == [f \in Nodes |-> {}]
           net == Taken(m, n)
<1>1. /\ Arrives(m, n, HaveProbes)
      /\ network' = Sent(net, n, m, <<OkayToSendProbes>>)
      /\ to' = to /\ from' = from
  BY DEF HandleHaveProbes
<1>2. net \in Networks
  BY <1>1, ArrivalFacts
<1>3. \A x, y \in Nodes, q \in Probes : InTransit(x, y, ProbeMessage(q)) =>
        ProbeMessage(q) \in Range(net[x][y])
  <2>1. \A q \in Probes : ProbeMessage(q) # HaveProbes
    BY MessageFacts DEF ProbeMessages
  <2>2. QED
    BY <1>1, <2>1, TakenRange DEF InTransit
<1> HIDE DEF net
<1>4. \A x, y \in Nodes : Range(net[x][y]) \subseteq Range(network'[x][y])
  <2>1. <<OkayToSendProbes>> \in Seq(Messages)
    BY MessageFacts
  <2>2. QED
    BY <1>1, <1>2, <2>1, SentRange
<1>5. /\ sent \in [Nodes -> SUBSET Probes]
      /\ \A f \in Nodes : sent[f] = {}
  OBVIOUS
<1> HIDE DEF sent
<1>6. \A x, y \in Nodes, q \in Probes :
        InTransit(x, y, ProbeMessage(q)) => InTransit(x, y, ProbeMessage(q))'
  BY <1>3, <1>4 DEF InTransit
<1>7. /\ \A x \in Nodes \ {n} : to'[x] = to[x]
      /\ \A q \in Probes : to'[n][q] = to[n][q] \cup {f \in Nodes : q \in sent[f]}
  BY <1>1, <1>5
<1>8. \A x, y \in Nodes, q \in Probes : x \in from[y][q] => x \in from'[y][q]
  BY <1>1
<1>9. SentInv /\ NoMidAirCrossing
  BY DEF SendInv
<1>10. (SentInv /\ NoMidAirCrossing)'
  BY <1>5, <1>6, <1>7, <1>8, <1>9, SendingKeeps
<1>11. QED
  BY <1>10 DEF SendInv

LEMMA OkaySends ==
  ASSUME TypeOK, LinkInv, SendInv, NEW m \in Nodes, NEW n \in Nodes,
         HandleOkayToSendProbes(m, n)
  PROVE  SendInv'
<1> DEFINE flushed == Virgin(n, m, offer[n][m])
           sent == [f \in Nodes |-> IF f = m THEN flushed ELSE {}]
           net == Taken(m, n)
<1>1. /\ Arrives(m, n, OkayToSendProbes)
      /\ to' = [to EXCEPT ![n] =
            [p \in Probes |-> IF p \in flushed THEN to[n][p] \cup {m} ELSE to[n][p]]]
      /\ network' = Sent(net, n, m, Burst(flushed))
      /\ from' = from
  BY DEF HandleOkayToSendProbes
<1>2. /\ m # n
      /\ LinkOK(m, n)
      /\ net \in Networks
  BY <1>1, ArrivalFacts
<1>3. /\ flushed \in SUBSET Probes
      /\ Burst(flushed) \in Seq(Messages)
      /\ \A p \in flushed : m \notin from[n][p]
  BY OkayArguments DEF Virgin
<1>4. \A p \in Probes : ~InTransit(m, n, ProbeMessage(p))
  <2>1. \/ network[m][n] = <<OkayToSendProbes>>
        \/ network[m][n] = <<OkayToSendProbes, HaveProbes>>
    BY <1>1, <1>2, OkayArrives
  <2>2. \A p \in Probes : ProbeMessage(p) # HaveProbes /\ ProbeMessage(p) # OkayToSendProbes
    BY MessageFacts DEF ProbeMessages
  <2>3. QED
    BY <2>1, <2>2, RestRange DEF InTransit
<1>5. \A x, y \in Nodes, q \in Probes : InTransit(x, y, ProbeMessage(q)) =>
        ProbeMessage(q) \in Range(net[x][y])
  <2>1. \A q \in Probes : ProbeMessage(q) # OkayToSendProbes
    BY MessageFacts DEF ProbeMessages
  <2>2. QED
    BY <1>1, <2>1, TakenRange DEF InTransit
<1>6. /\ sent \in [Nodes -> SUBSET Probes]
      /\ sent[m] = flushed
      /\ \A f \in Nodes \ {m} : sent[f] = {}
  BY <1>3
<1>7. \A x \in Nodes \ {n} : to'[x] = to[x]
  BY <1>1 DEF TypeOK
<1>8. \A p \in Probes : to'[n][p] = to[n][p] \cup {f \in Nodes : p \in sent[f]}
  BY <1>1, <1>6 DEF TypeOK, Records
<1>9. \A p \in flushed : ProbeMessage(p) \in Range(Burst(flushed))
  BY <1>3, BurstFacts
<1> HIDE DEF flushed, sent, net
<1>10. net[n][m] \in Seq(Messages)
  BY <1>2 DEF Networks
<1>11. Range(net[n][m] \o Burst(flushed)) = Range(net[n][m]) \cup Range(Burst(flushed))
  BY <1>3, <1>10, RangeFacts
<1>12. /\ network'[n][m] = net[n][m] \o Burst(flushed)
       /\ \A x, y \in Nodes : (x # n \/ y # m) => network'[x][y] = net[x][y]
  <2>1. /\ Sent(net, n, m, Burst(flushed))[n][m] = net[n][m] \o Burst(flushed)
        /\ \A x, y \in Nodes : (x # n \/ y # m) =>
             Sent(net, n, m, Burst(flushed))[x][y] = net[x][y]
    BY <1>2, <1>3, SentFacts
  <2>2. QED
    BY <1>1, <2>1
<1>13. \A f \in Nodes : \A p \in sent[f] :
         f # n /\ f \notin from[n][p] /\ ~InTransit(f, n, ProbeMessage(p))
  BY <1>2, <1>3, <1>4, <1>6
<1>14. \A f \in Nodes : \A p \in sent[f] : InTransit(n, f, ProbeMessage(p))'
  BY <1>6, <1>9, <1>11, <1>12 DEF InTransit
<1>15. \A x, y \in Nodes, q \in Probes :
         InTransit(x, y, ProbeMessage(q)) => InTransit(x, y, ProbeMessage(q))'
  BY <1>5, <1>11, <1>12 DEF InTransit
<1>16. (SentInv /\ NoMidAirCrossing)'
  BY <1>1, <1>6, <1>7, <1>8, <1>13, <1>14, <1>15, SendingKeeps DEF SendInv
<1>17. QED
  BY <1>16 DEF SendInv

LEMMA SendStep == OneSided /\ TypeOK /\ LinkInv /\ SendInv /\ [Next]_vars => SendInv'
<1> SUFFICES ASSUME OneSided, TypeOK, LinkInv, SendInv, [Next]_vars PROVE SendInv'
  OBVIOUS
<1>1. ASSUME NEW a \in Nodes, NEW b \in Nodes, Meet(a, b)
      PROVE  SendInv'
  BY <1>1, MeetSends
<1>2. ASSUME NEW m \in Nodes, NEW n \in Nodes, Handle(m, n)
      PROVE  SendInv'
  BY <1>2, HandleMeetSends, FloodSends, ProbeSends, HaveProbesSends, OkaySends DEF Handle, HandleProbe
<1>3. CASE UNCHANGED vars
  BY <1>3 DEF vars, SendInv, SentInv, NoMidAirCrossing, InTransit
<1>4. QED
  BY <1>1, <1>2, <1>3 DEF Next

(* Between nodes introduced from one side, every probe that was sent is under
   way or has arrived, and no probe is sent over a link by both ends. *)
THEOREM NoMidAirCrossingCorrect ==
  ASSUME OneSided
  PROVE  Spec => []NoMidAirCrossing
<1>1. Init => SendInv
  BY SendInit
<1>2. TypeOK /\ LinkInv /\ SendInv /\ [Next]_vars => SendInv'
  BY SendStep
<1>3. SendInv => NoMidAirCrossing
  BY DEF SendInv
<1>4. QED
  BY <1>1, <1>2, <1>3, TypeCorrect, LinksCorrect, PTL DEF Spec

(* What a node has recorded as sent is not lost: the probe is under way, or the friend
   has recorded where it came from. *)
THEOREM SentCorrect ==
  ASSUME OneSided
  PROVE  Spec => []SentInv
<1>1. Init => SendInv
  BY SendInit
<1>2. TypeOK /\ LinkInv /\ SendInv /\ [Next]_vars => SendInv'
  BY SendStep
<1>3. SendInv => SentInv
  BY DEF SendInv
<1>4. QED
  BY <1>1, <1>2, <1>3, TypeCorrect, LinksCorrect, PTL DEF Spec

-----------------------------------------------------------------------------
(***************************************************************************)
(* No probe is forgotten.                                                  *)
(***************************************************************************)
LEMMA ForgottenInit == Init => NothingForgotten
BY DEF Init, NothingForgotten, Friends

(* A step that queues for every friend of n whatever is new to the link. *)
LEMMA QueueForgetsNothing ==
  ASSUME TypeOK, NothingForgotten, NEW n \in Nodes,
         NEW status \in Statuses, NEW queued \in Queues, NEW net \in Networks,
         QueueProbes(n, status, queued, net),
         \A x \in Nodes \ {n} : known'[x] = known[x] /\ from'[x] = from[x],
         known'[n] \in SUBSET Probes,
         \A f \in Nodes, p \in Probes : f \in from[n][p] => f \in from'[n][p],
         \A f \in Nodes : status[f] # "none" =>
           \A p \in known'[n] : \/ p \in queued[f]
                                \/ f \in from'[n][p]
                                \/ p \in known[n] /\ hand[n][f] = status[f]
  PROVE  NothingForgotten'
<1>1. \A f \in Nodes :
        /\ hand'[n][f] = IF Raises(status, queued, f) THEN "waiting" ELSE status[f]
        /\ offer'[n][f] = offer[n][f] \cup queued[f]
  BY QueueFacts
<1>2. \A p \in Probes :
        to'[n][p] = to[n][p] \cup {f \in Nodes : p \in Flushed(n, status, queued, f)}
  BY QueueFacts
<1>3. \A x \in Nodes \ {n} : hand'[x] = hand[x] /\ offer'[x] = offer[x] /\ to'[x] = to[x]
  BY QueueFacts
<1>4. ASSUME NEW f \in Nodes, hand'[n][f] # "none", NEW p \in known'[n],
             f \notin from'[n][p], f \notin to'[n][p]
      PROVE  hand'[n][f] = "waiting" /\ p \in offer'[n][f]
  <2>1. p \in Probes /\ status[f] # "none" /\ status[f] \in HandRaisingStatus
    BY <1>1, <1>4 DEF Raises, Statuses
  <2>2. f \notin from[n][p] /\ f \notin to[n][p] /\ p \notin Flushed(n, status, queued, f)
    BY <1>2, <1>4, <2>1
  <2>3. CASE p \in queued[f]
    <3>1. status[f] # "talking"
      BY <2>2, <2>3 DEF Flushed, Virgin
    <3>2. QED
      BY <1>1, <2>1, <2>3, <3>1 DEF Raises, HandRaisingStatus
  <2>4. CASE p \in known[n] /\ hand[n][f] = status[f]
    <3>1. hand[n][f] = "waiting" /\ p \in offer[n][f]
      BY <2>1, <2>2, <2>4 DEF NothingForgotten, Friends, Virgin
    <3>2. QED
      BY <1>1, <2>4, <3>1 DEF Raises
  <2>5. QED
    BY <1>4, <2>1, <2>3, <2>4
<1>5. ASSUME NEW x \in Nodes \ {n}, NEW f \in Nodes, hand'[x][f] # "none",
             NEW p \in known'[x], f \notin from'[x][p], f \notin to'[x][p]
      PROVE  hand'[x][f] = "waiting" /\ p \in offer'[x][f]
  BY <1>3, <1>5 DEF NothingForgotten, Friends, Virgin
<1>6. QED
  BY <1>4, <1>5 DEF NothingForgotten, Friends, Virgin

LEMMA ForgottenStep ==
  TypeOK /\ LinkInv /\ NothingForgotten /\ [Next]_vars => NothingForgotten'
<1> SUFFICES ASSUME TypeOK, LinkInv, NothingForgotten, [Next]_vars
             PROVE  NothingForgotten'
  OBVIOUS
<1>1. ASSUME NEW a \in Nodes, NEW b \in Nodes, Meet(a, b)
      PROVE  NothingForgotten'
  <2> DEFINE status == [hand[a] EXCEPT ![b] = "talking"]
             queued == [f \in Nodes |-> IF f = b THEN known[a] \cup {<<a, b>>}
                                        ELSE IF f \in Friends(a) THEN {<<a, b>>} ELSE {}]
             net == Sent(network, a, b, <<MeetMessage>>)
  <2>1. /\ <<a, b>> \in Introductions
        /\ QueueProbes(a, status, queued, net)
        /\ known' = [known EXCEPT ![a] = known[a] \cup {<<a, b>>}]
        /\ from' = from
    BY <1>1 DEF Meet
  <2>2. status \in Statuses /\ queued \in Queues /\ net \in Networks
    BY <2>1, MeetArguments
  <2>3. /\ \A x \in Nodes \ {a} : known'[x] = known[x] /\ from'[x] = from[x]
        /\ known'[a] = known[a] \cup {<<a, b>>}
        /\ known'[a] \in SUBSET Probes
    BY <2>1 DEF TypeOK, Probes
  <2>4. \A f \in Nodes : status[f] # "none" =>
          \A p \in known'[a] : \/ p \in queued[f]
                               \/ p \in known[a] /\ hand[a][f] = status[f]
    BY <2>3 DEF TypeOK, Statuses, Friends
  <2> HIDE DEF status, queued, net
  <2>5. QED
    BY <2>1, <2>2, <2>3, <2>4, QueueForgetsNothing
<1>2. ASSUME NEW m \in Nodes, NEW n \in Nodes, HandleMeet(m, n)
      PROVE  NothingForgotten'
  <2> DEFINE status == [hand[n] EXCEPT ![m] = "listening"]
             queued == [f \in Nodes |-> IF f = m THEN known[n] ELSE {}]
             net == Taken(m, n)
  <2>1. /\ Arrives(m, n, MeetMessage)
        /\ QueueProbes(n, status, queued, net)
        /\ known' = known /\ from' = from
    BY <1>2 DEF HandleMeet
  <2>2. status \in Statuses /\ queued \in Queues /\ net \in Networks
    BY <2>1, HandleMeetArguments, ArrivalFacts
  <2>3. known'[n] \in SUBSET Probes
    BY <2>1 DEF TypeOK
  <2>4. \A f \in Nodes : status[f] # "none" =>
          \A p \in known'[n] : \/ p \in queued[f]
                               \/ p \in known[n] /\ hand[n][f] = status[f]
    BY <2>1 DEF TypeOK, Statuses
  <2> HIDE DEF status, queued, net
  <2>5. QED
    BY <2>1, <2>2, <2>3, <2>4, QueueForgetsNothing
<1>3. ASSUME NEW m \in Nodes, NEW n \in Nodes, NEW p \in Probes, FloodNewProbe(m, n, p)
      PROVE  NothingForgotten'
  <2> DEFINE status == hand[n]
             queued == [f \in Nodes |-> IF f \in Friends(n) \ {m} THEN {p} ELSE {}]
             net == Taken(m, n)
  <2>1. /\ Arrives(m, n, ProbeMessage(p))
        /\ QueueProbes(n, status, queued, net)
        /\ known' = [known EXCEPT ![n] = known[n] \cup {p}]
        /\ from' = [from EXCEPT ![n][p] = from[n][p] \cup {m}]
    BY <1>3 DEF FloodNewProbe
  <2>2. status \in Statuses /\ queued \in Queues /\ net \in Networks
    BY <2>1, FloodArguments, ArrivalFacts
  <2>3. /\ \A x \in Nodes \ {n} : known'[x] = known[x] /\ from'[x] = from[x]
        /\ known'[n] = known[n] \cup {p}
        /\ known'[n] \in SUBSET Probes
    BY <2>1 DEF TypeOK
  <2>4. /\ \A f \in Nodes, q \in Probes : f \in from[n][q] => f \in from'[n][q]
        /\ m \in from'[n][p]
    BY <2>1 DEF TypeOK, Records
  <2>5. \A f \in Nodes : status[f] # "none" =>
          \A q \in known'[n] : \/ q \in queued[f]
                               \/ f \in from'[n][q]
                               \/ q \in known[n] /\ hand[n][f] = status[f]
    BY <2>3, <2>4 DEF Friends
  <2> HIDE DEF status, queued, net
  <2>6. QED
    BY <2>1, <2>2, <2>3, <2>4, <2>5, QueueForgetsNothing
<1>4. ASSUME NEW m \in Nodes, NEW n \in Nodes, NEW p \in Probes,
             ProbeLoopback(m, n, p) \/ IgnoreProbe(m, n, p)
      PROVE  NothingForgotten'
  <2>1. /\ \A x, y \in Nodes, q \in Probes : y \in from[x][q] => y \in from'[x][q]
        /\ UNCHANGED <<hand, known, to, offer>>
    <3>1. CASE ProbeLoopback(m, n, p)
      BY <3>1 DEF ProbeLoopback, RecordLoopback, TypeOK, Records
    <3>2. CASE IgnoreProbe(m, n, p)
      BY <3>2 DEF IgnoreProbe
    <3>3. QED
      BY <1>4, <3>1, <3>2
  <2>2. QED
    BY <2>1 DEF NothingForgotten, Friends, Virgin, TypeOK
<1>5. ASSUME NEW m \in Nodes, NEW n \in Nodes, HandleHaveProbes(m, n)
      PROVE  NothingForgotten'
  <2>1. /\ Arrives(m, n, HaveProbes)
        /\ hand' = [hand EXCEPT ![n][m] = "listening"]
        /\ UNCHANGED <<known, from, to, offer>>
    BY <1>5 DEF HandleHaveProbes
  <2>2. Talking(n, m)
    BY <2>1, ArrivalFacts, HaveArrives
  <2>3. Virgin(n, m, known[n]) = {}
    BY <2>2 DEF NothingForgotten, Friends, Talking
  <2>4. \A x, f \in Nodes : hand'[x][f] = IF x = n /\ f = m THEN "listening" ELSE hand[x][f]
    BY <2>1 DEF TypeOK, Statuses
  <2>5. QED
    BY <2>1, <2>3, <2>4 DEF NothingForgotten, Friends, Virgin
<1>6. ASSUME NEW m \in Nodes, NEW n \in Nodes, HandleOkayToSendProbes(m, n)
      PROVE  NothingForgotten'
  <2>1. /\ Arrives(m, n, OkayToSendProbes)
        /\ hand' = [hand EXCEPT ![n][m] = "talking"]
        /\ to' = [to EXCEPT ![n] =
              [p \in Probes |-> IF p \in Virgin(n, m, offer[n][m]) THEN to[n][p] \cup {m}
                                ELSE to[n][p]]]
        /\ UNCHANGED <<known, from, offer>>
    BY <1>6 DEF HandleOkayToSendProbes
  <2>2. hand[n][m] = "waiting"
    BY <2>1, ArrivalFacts, OkayArrives
  <2>3. \A p \in Virgin(n, m, known[n]) : p \in Virgin(n, m, offer[n][m])
    BY <2>2 DEF NothingForgotten, Friends, Virgin
  <2>4. \A x, f \in Nodes : hand'[x][f] = IF x = n /\ f = m THEN "talking" ELSE hand[x][f]
    BY <2>1 DEF TypeOK, Statuses
  <2>5. /\ \A x \in Nodes, p \in Probes : \A f \in to[x][p] : f \in to'[x][p]
        /\ \A p \in Probes : p \in Virgin(n, m, offer[n][m]) => m \in to'[n][p]
    BY <2>1 DEF TypeOK, Records
  <2>6. ASSUME NEW x \in Nodes, NEW f \in Nodes, hand'[x][f] # "none",
               NEW p \in known'[x], f \notin from'[x][p], f \notin to'[x][p]
        PROVE  hand'[x][f] = "waiting" /\ p \in offer'[x][f]
    <3>1. p \in Probes /\ p \in known[x] /\ f \notin from[x][p] /\ f \notin to[x][p]
      BY <2>1, <2>5, <2>6 DEF TypeOK
    <3>2. ~(x = n /\ f = m)
      BY <2>3, <2>5, <2>6, <3>1 DEF Virgin
    <3>3. QED
      BY <2>1, <2>4, <2>6, <3>1, <3>2 DEF NothingForgotten, Friends, Virgin
  <2>7. QED
    BY <2>6 DEF NothingForgotten, Friends, Virgin
<1>7. CASE UNCHANGED vars
  BY <1>7 DEF vars, NothingForgotten, Friends, Virgin
<1>8. QED
  BY <1>1, <1>2, <1>3, <1>4, <1>5, <1>6, <1>7 DEF Next, Handle, HandleProbe

(* Between nodes introduced from one side, a probe that has not crossed a link
   is queued at a node that has asked to talk. *)
THEOREM NothingForgottenCorrect ==
  ASSUME OneSided
  PROVE  Spec => []NothingForgotten
<1>1. Init => NothingForgotten
  BY ForgottenInit
<1>2. TypeOK /\ LinkInv /\ NothingForgotten /\ [Next]_vars => NothingForgotten'
  BY ForgottenStep
<1>3. QED
  BY <1>1, <1>2, TypeCorrect, LinksCorrect, PTL DEF Spec

-----------------------------------------------------------------------------
(***************************************************************************)
(* Once no message is under way the flood is complete.                     *)
(***************************************************************************)
LEMMA KnownInit == Init => KnownInv
<1>1. Range(<<>>) = {}
  BY RestRange
<1>2. QED
  BY <1>1 DEF Init, KnownInv, InTransit

(* A probe arrives from a friend that knows it. *)
LEMMA ArrivedProbe ==
  ASSUME TypeOK, MetInv, KnownInv, NEW m \in Nodes, NEW n \in Nodes, NEW p \in Probes,
         Arrives(m, n, ProbeMessage(p))
  PROVE  p \in known[m] /\ hand[n][m] # "none" /\ n \in to[m][p]
<1>1. hand[n][m] # "none"
  <2>1. ProbeMessage(p) # MeetMessage
    BY MessageFacts DEF ProbeMessages
  <2> QED
    BY <2>1, MetTaken
<1>2. network[m][n] \in Seq(Messages) /\ network[m][n] # <<>>
  BY ChannelType DEF Arrives
<1>3. InTransit(m, n, ProbeMessage(p))
  BY <1>2, RangeFacts, EmptySeq DEF InTransit, Arrives
<1>4. QED
  BY <1>1, <1>3 DEF KnownInv

(* Sending adds to one channel the messages sent, and nothing else. *)
LEMMA SentOnly ==
  ASSUME NEW net \in Networks, NEW n \in Nodes, NEW f \in Nodes
  PROVE  \A messages \in Seq(Messages) : \A x, y \in Nodes :
           Range(Sent(net, n, f, messages)[x][y]) \subseteq
             Range(net[x][y]) \cup (IF x = n /\ y = f THEN Range(messages) ELSE {})
<1> SUFFICES ASSUME NEW messages \in Seq(Messages), NEW x \in Nodes, NEW y \in Nodes
             PROVE  Range(Sent(net, n, f, messages)[x][y]) \subseteq
                      Range(net[x][y]) \cup (IF x = n /\ y = f THEN Range(messages) ELSE {})
  OBVIOUS
<1>1. net[n][f] \in Seq(Messages)
  BY DEF Networks
<1>2. Range(net[n][f] \o messages) = Range(net[n][f]) \cup Range(messages)
  BY <1>1, ConcatRange
<1>3. /\ Sent(net, n, f, messages)[n][f] = net[n][f] \o messages
      /\ \A i, j \in Nodes : (i # n \/ j # f) => Sent(net, n, f, messages)[i][j] = net[i][j]
  BY DEF Sent, Networks
<1>4. CASE x = n /\ y = f
  BY <1>2, <1>3, <1>4
<1>5. CASE x # n \/ y # f
  BY <1>3, <1>5
<1>6. QED
  BY <1>4, <1>5

(* QueueProbes sends known probes only, to friends only. *)
LEMMA QueueKnows ==
  ASSUME TypeOK, KnownInv, NEW n \in Nodes, NEW status \in Statuses, NEW queued \in Queues,
         NEW net \in Networks, QueueProbes(n, status, queued, net),
         \A x \in Nodes : known[x] \subseteq known'[x],
         \A f \in Nodes : queued[f] \subseteq known'[n],
         \A f \in Nodes : hand[n][f] # "none" => status[f] # "none",
         \A x, y \in Nodes, p \in Probes :
           ProbeMessage(p) \in Range(net[x][y]) => InTransit(x, y, ProbeMessage(p)),
         \A x, y \in Nodes, p \in Probes : x \in from'[y][p] =>
           \/ x \in from[y][p]
           \/ p \in known[x] /\ p \in known'[y] /\ hand[y][x] # "none" /\ y \in to[x][p]
  PROVE  KnownInv'
<1>1. \A f \in Nodes :
        /\ hand'[n][f] = IF Raises(status, queued, f) THEN "waiting" ELSE status[f]
        /\ offer'[n][f] = offer[n][f] \cup queued[f]
        /\ network'[n][f] = net[n][f] \o Queued(n, status, queued, f)
  BY QueueFacts
<1>2. \A p \in Probes :
        to'[n][p] = to[n][p] \cup {f \in Nodes : p \in Flushed(n, status, queued, f)}
  BY QueueFacts
<1>3. \A x \in Nodes \ {n} :
        hand'[x] = hand[x] /\ offer'[x] = offer[x] /\ to'[x] = to[x] /\ network'[x] = net[x]
  BY QueueFacts
<1>4. \A x, y \in Nodes : hand[x][y] # "none" => hand'[x][y] # "none"
  BY <1>1, <1>3
<1>5. \A x, y \in Nodes : offer'[x][y] \subseteq known'[x]
  <2>1. \A x, y \in Nodes : offer[x][y] \subseteq known[x]
    BY DEF KnownInv
  <2>2. ASSUME NEW x \in Nodes, NEW y \in Nodes
        PROVE  offer'[x][y] \subseteq known'[x]
    <3>1. CASE x = n
      BY <1>1, <2>1, <3>1
    <3>2. CASE x # n
      BY <1>3, <2>1, <3>2
    <3>3. QED
      BY <3>1, <3>2
  <2>3. QED
    BY <2>2
<1>6. ASSUME NEW f \in Nodes, NEW p \in Flushed(n, status, queued, f)
      PROVE  p \in known'[n] /\ hand'[n][f] # "none"
  <2>1. status[f] = "talking" /\ p \in offer[n][f] \cup queued[f]
    BY DEF Flushed, Virgin
  <2>2. QED
    BY <1>1, <2>1 DEF KnownInv, Raises
<1>7. ASSUME NEW f \in Nodes, NEW p \in Probes,
             ProbeMessage(p) \in Range(Queued(n, status, queued, f))
      PROVE  p \in Flushed(n, status, queued, f)
  <2> DEFINE flushed == Flushed(n, status, queued, f)
  <2>1. flushed \in SUBSET Probes /\ Burst(flushed) \in Seq(Messages)
    BY FlushedFacts
  <2>2. \A b \in Seq(Messages) : Range(Burst(flushed) \o b) = Range(Burst(flushed)) \cup Range(b)
    BY <2>1, ConcatRange
  <2>3. ASSUME NEW rest \in Seq(Messages), ProbeMessage(p) \notin Range(rest),
               Queued(n, status, queued, f) = Burst(flushed) \o rest
        PROVE  p \in flushed
    <3>1. ProbeMessage(p) \in Range(Burst(flushed))
      BY <1>7, <2>2, <2>3
    <3> HIDE DEF flushed
    <3>2. QED
      BY <2>1, <3>1, BurstFacts
  <2>4. CASE Raises(status, queued, f)
    <3>1. <<HaveProbes>> \in Seq(Messages) /\ ProbeMessage(p) \notin Range(<<HaveProbes>>)
      BY MessageFacts, RestRange DEF ProbeMessages
    <3>2. QED
      BY <2>3, <2>4, <3>1 DEF Queued
  <2>5. CASE ~Raises(status, queued, f)
    <3>1. <<>> \in Seq(Messages) /\ ProbeMessage(p) \notin Range(<<>>)
      BY RestRange, EmptySeq
    <3>2. QED
      BY <2>3, <2>5, <3>1 DEF Queued
  <2>6. QED
    BY <2>4, <2>5
<1>8. ASSUME NEW f \in Nodes
      PROVE  Range(network'[n][f]) = Range(net[n][f]) \cup Range(Queued(n, status, queued, f))
  <2>1. net[n][f] \in Seq(Messages) /\ Queued(n, status, queued, f) \in Seq(Messages)
    BY FlushedFacts DEF Networks
  <2>2. \A b \in Seq(Messages) : Range(net[n][f] \o b) = Range(net[n][f]) \cup Range(b)
    BY <2>1, ConcatRange
  <2>3. QED
    BY <1>1, <2>1, <2>2
<1>9. ASSUME NEW x \in Nodes, NEW y \in Nodes, NEW p \in Probes,
             ProbeMessage(p) \in Range(network'[x][y])
      PROVE  p \in known'[x] /\ y \in to'[x][p]
  <2>1. CASE ProbeMessage(p) \in Range(net[x][y])
    <3>1. p \in known[x] /\ y \in to[x][p]
      BY <2>1 DEF KnownInv
    <3>2. QED
      BY <1>2, <1>3, <3>1
  <2>2. CASE ProbeMessage(p) \notin Range(net[x][y])
    <3>1. x = n /\ ProbeMessage(p) \in Range(Queued(n, status, queued, y))
      BY <1>3, <1>8, <1>9, <2>2
    <3>2. p \in Flushed(n, status, queued, y)
      BY <1>7, <3>1
    <3>3. QED
      BY <1>2, <1>6, <3>1, <3>2
  <2>3. QED
    BY <2>1, <2>2
<1>10. ASSUME NEW x \in Nodes, NEW y \in Nodes, NEW p \in Probes, x \in from'[y][p]
       PROVE  p \in known'[x] /\ p \in known'[y] /\ hand'[y][x] # "none" /\ y \in to'[x][p]
  <2>1. p \in known[x] /\ p \in known'[y] /\ hand[y][x] # "none" /\ y \in to[x][p]
    BY <1>10 DEF KnownInv
  <2>2. y \in to'[x][p]
    BY <1>2, <1>3, <2>1
  <2>3. QED
    BY <1>4, <2>1, <2>2
<1>11. ASSUME NEW x \in Nodes, NEW y \in Nodes, NEW p \in Probes, y \in to'[x][p]
       PROVE  hand'[x][y] # "none"
  BY <1>2, <1>3, <1>4, <1>6, <1>11 DEF KnownInv
<1>12. QED
  BY <1>5, <1>9, <1>10, <1>11 DEF KnownInv, InTransit

LEMMA KnownStep == TypeOK /\ MetInv /\ KnownInv /\ [Next]_vars => KnownInv'
<1> SUFFICES ASSUME TypeOK, MetInv, KnownInv, [Next]_vars PROVE KnownInv'
  OBVIOUS
<1>1. ASSUME NEW a \in Nodes, NEW b \in Nodes, Meet(a, b)
      PROVE  KnownInv'
  <2> DEFINE status == [hand[a] EXCEPT ![b] = "talking"]
             queued == [f \in Nodes |-> IF f = b THEN known[a] \cup {<<a, b>>}
                                        ELSE IF f \in Friends(a) THEN {<<a, b>>} ELSE {}]
             net == Sent(network, a, b, <<MeetMessage>>)
  <2>1. /\ <<a, b>> \in Introductions
        /\ QueueProbes(a, status, queued, net)
        /\ known' = [known EXCEPT ![a] = known[a] \cup {<<a, b>>}]
        /\ from' = from
    BY <1>1 DEF Meet
  <2>2. /\ status \in Statuses /\ queued \in Queues /\ net \in Networks
        /\ net[a][b] = network[a][b] \o <<MeetMessage>>
        /\ \A x, y \in Nodes : (x # a \/ y # b) => net[x][y] = network[x][y]
    BY <2>1, MeetArguments
  <2>3. known'[a] = known[a] \cup {<<a, b>>} /\ \A x \in Nodes : known[x] \subseteq known'[x]
    BY <2>1 DEF TypeOK
  <2>4. \A f \in Nodes : queued[f] \subseteq known'[a]
    BY <2>3
  <2>5. \A f \in Nodes : hand[a][f] # "none" => status[f] # "none"
    BY DEF TypeOK, Statuses
  <2>6. \A x, y \in Nodes, p \in Probes :
          ProbeMessage(p) \in Range(net[x][y]) => InTransit(x, y, ProbeMessage(p))
    <3>1. <<MeetMessage>> \in Seq(Messages) /\ network[a][b] \in Seq(Messages)
      BY MessageFacts, ChannelType
    <3>2. \A s \in Seq(Messages) : Range(network[a][b] \o s) = Range(network[a][b]) \cup Range(s)
      BY <3>1, ConcatRange
    <3>3. Range(<<MeetMessage>>) = {MeetMessage}
      BY DEF Range
    <3>4. \A p \in Probes : ProbeMessage(p) # MeetMessage
      BY MessageFacts DEF ProbeMessages
    <3>5. Range(net[a][b]) = Range(network[a][b]) \cup {MeetMessage}
      <4>1. net[a][b] = network[a][b] \o <<MeetMessage>>
        BY <2>2
      <4>2. Range(network[a][b] \o <<MeetMessage>>) = Range(network[a][b]) \cup Range(<<MeetMessage>>)
        BY <3>1, <3>2
      <4>3. QED
        BY <3>3, <4>1, <4>2
    <3> HIDE DEF net
    <3>6. QED
      BY <2>2, <3>4, <3>5 DEF InTransit
  <2> HIDE DEF status, queued, net
  <2>7. QED
    BY <2>1, <2>2, <2>3, <2>4, <2>5, <2>6, QueueKnows
<1>2. ASSUME NEW m \in Nodes, NEW n \in Nodes, HandleMeet(m, n)
      PROVE  KnownInv'
  <2> DEFINE status == [hand[n] EXCEPT ![m] = "listening"]
             queued == [f \in Nodes |-> IF f = m THEN known[n] ELSE {}]
             net == Taken(m, n)
  <2>1. /\ Arrives(m, n, MeetMessage)
        /\ QueueProbes(n, status, queued, net)
        /\ known' = known /\ from' = from
    BY <1>2 DEF HandleMeet
  <2>2. status \in Statuses /\ queued \in Queues /\ net \in Networks
    BY <2>1, HandleMeetArguments, MetTaken
  <2>3. /\ \A f \in Nodes : hand[n][f] # "none" => status[f] # "none"
        /\ \A f \in Nodes : queued[f] \subseteq known'[n]
    BY <2>1 DEF TypeOK, Statuses
  <2>4. \A x, y \in Nodes, p \in Probes :
          ProbeMessage(p) \in Range(net[x][y]) => InTransit(x, y, ProbeMessage(p))
    BY <2>1, TakenTransit
  <2> HIDE DEF status, queued, net
  <2>5. QED
    BY <2>1, <2>2, <2>3, <2>4, QueueKnows
<1>3. ASSUME NEW m \in Nodes, NEW n \in Nodes, NEW p \in Probes, FloodNewProbe(m, n, p)
      PROVE  KnownInv'
  <2> DEFINE status == hand[n]
             queued == [f \in Nodes |-> IF f \in Friends(n) \ {m} THEN {p} ELSE {}]
             net == Taken(m, n)
  <2>1. /\ Arrives(m, n, ProbeMessage(p))
        /\ QueueProbes(n, status, queued, net)
        /\ known' = [known EXCEPT ![n] = known[n] \cup {p}]
        /\ from' = [from EXCEPT ![n][p] = from[n][p] \cup {m}]
    BY <1>3 DEF FloodNewProbe
  <2>2. status \in Statuses /\ queued \in Queues /\ net \in Networks
    BY <2>1, FloodArguments, MetTaken
  <2>3. /\ known'[n] = known[n] \cup {p} /\ \A x \in Nodes : known[x] \subseteq known'[x]
        /\ \A f \in Nodes : queued[f] \subseteq known'[n]
        /\ \A f \in Nodes : hand[n][f] # "none" => status[f] # "none"
    BY <2>1 DEF TypeOK
  <2>4. \A x, y \in Nodes, q \in Probes :
          ProbeMessage(q) \in Range(net[x][y]) => InTransit(x, y, ProbeMessage(q))
    BY <2>1, TakenTransit
  <2>5. p \in known[m] /\ hand[n][m] # "none" /\ n \in to[m][p]
    BY <2>1, ArrivedProbe
  <2>6. \A x, y \in Nodes, q \in Probes :
          x \in from'[y][q] => x \in from[y][q] \/ (x = m /\ y = n /\ q = p)
    BY <2>1 DEF TypeOK, Records
  <2> HIDE DEF status, queued, net
  <2>7. \A x, y \in Nodes, q \in Probes : x \in from'[y][q] =>
           \/ x \in from[y][q]
           \/ q \in known[x] /\ q \in known'[y] /\ hand[y][x] # "none" /\ y \in to[x][q]
    BY <2>3, <2>5, <2>6
  <2>8. QED
    BY <2>1, <2>2, <2>3, <2>4, <2>7, QueueKnows
<1>4. ASSUME NEW m \in Nodes, NEW n \in Nodes, NEW p \in Probes, ProbeLoopback(m, n, p)
      PROVE  KnownInv'
  <2>1. /\ Arrives(m, n, ProbeMessage(p)) /\ p \in known[n]
        /\ from' = [from EXCEPT ![n][p] = from[n][p] \cup {m}]
        /\ network' = Taken(m, n)
        /\ UNCHANGED <<hand, known, to, offer>>
    BY <1>4 DEF ProbeLoopback, RecordLoopback
  <2>2. p \in known[m] /\ hand[n][m] # "none" /\ n \in to[m][p]
    BY <2>1, ArrivedProbe
  <2>3. \A x, y \in Nodes, q \in Probes :
          x \in from'[y][q] => x \in from[y][q] \/ (x = m /\ y = n /\ q = p)
    BY <2>1 DEF TypeOK, Records
  <2>4. \A x, y \in Nodes, q \in Probes :
          InTransit(x, y, ProbeMessage(q))' => InTransit(x, y, ProbeMessage(q))
    BY <2>1, TakenTransit DEF InTransit
  <2>5. QED
    BY <2>1, <2>2, <2>3, <2>4 DEF KnownInv
<1>5. ASSUME NEW m \in Nodes, NEW n \in Nodes, NEW p \in Probes, IgnoreProbe(m, n, p)
      PROVE  KnownInv'
  <2>1. /\ Arrives(m, n, ProbeMessage(p))
        /\ network' = Taken(m, n)
        /\ UNCHANGED <<hand, known, from, to, offer>>
    BY <1>5 DEF IgnoreProbe
  <2>2. \A x, y \in Nodes, q \in Probes :
          InTransit(x, y, ProbeMessage(q))' => InTransit(x, y, ProbeMessage(q))
    BY <2>1, TakenTransit DEF InTransit
  <2>3. QED
    BY <2>1, <2>2 DEF KnownInv
<1>6. ASSUME NEW m \in Nodes, NEW n \in Nodes, HandleHaveProbes(m, n)
      PROVE  KnownInv'
  <2> DEFINE net == Taken(m, n)
  <2>1. /\ Arrives(m, n, HaveProbes)
        /\ hand' = [hand EXCEPT ![n][m] = "listening"]
        /\ network' = Sent(net, n, m, <<OkayToSendProbes>>)
        /\ UNCHANGED <<known, from, to, offer>>
    BY <1>6 DEF HandleHaveProbes
  <2>2. net \in Networks
    BY <2>1, MetTaken
  <2>3. \A x, y \in Nodes, q \in Probes :
          ProbeMessage(q) \in Range(net[x][y]) => InTransit(x, y, ProbeMessage(q))
    BY <2>1, TakenTransit
  <2> HIDE DEF net
  <2>4. <<OkayToSendProbes>> \in Seq(Messages)
        /\ \A q \in Probes : ProbeMessage(q) \notin Range(<<OkayToSendProbes>>)
    BY MessageFacts, RestRange DEF ProbeMessages
  <2>5. \A x, y \in Nodes, q \in Probes :
          InTransit(x, y, ProbeMessage(q))' => InTransit(x, y, ProbeMessage(q))
    BY <2>1, <2>2, <2>3, <2>4, SentOnly DEF InTransit
  <2>6. \A x, y \in Nodes : hand[x][y] # "none" => hand'[x][y] # "none"
    BY <2>1 DEF TypeOK, Statuses
  <2>7. QED
    BY <2>1, <2>5, <2>6 DEF KnownInv
<1>7. ASSUME NEW m \in Nodes, NEW n \in Nodes, HandleOkayToSendProbes(m, n)
      PROVE  KnownInv'
  <2> DEFINE net == Taken(m, n)
             flushed == Virgin(n, m, offer[n][m])
  <2>1. /\ Arrives(m, n, OkayToSendProbes)
        /\ hand' = [hand EXCEPT ![n][m] = "talking"]
        /\ to' = [to EXCEPT ![n] =
              [p \in Probes |-> IF p \in flushed THEN to[n][p] \cup {m} ELSE to[n][p]]]
        /\ network' = Sent(net, n, m, Burst(flushed))
        /\ UNCHANGED <<known, from, offer>>
    BY <1>7 DEF HandleOkayToSendProbes
  <2>2. net \in Networks
    BY <2>1, MetTaken
  <2>3. \A x, y \in Nodes, q \in Probes :
          ProbeMessage(q) \in Range(net[x][y]) => InTransit(x, y, ProbeMessage(q))
    BY <2>1, TakenTransit
  <2>4. /\ Burst(flushed) \in Seq(Messages)
        /\ \A q \in Probes : ProbeMessage(q) \in Range(Burst(flushed)) => q \in flushed
    BY OkayArguments, BurstFacts
  <2>5. flushed \subseteq known[n]
    BY DEF KnownInv, Virgin
  <2>6. \A x, y \in Nodes, q \in Probes :
          y \in to'[x][q] <=> y \in to[x][q] \/ (x = n /\ y = m /\ q \in flushed)
    BY <2>1 DEF TypeOK, Records
  <2> HIDE DEF net, flushed
  <2>7. \A x, y \in Nodes, q \in Probes : InTransit(x, y, ProbeMessage(q))' =>
          InTransit(x, y, ProbeMessage(q)) \/ (x = n /\ y = m /\ q \in flushed)
    BY <2>1, <2>2, <2>3, <2>4, SentOnly DEF InTransit
  <2>8. /\ \A x, y \in Nodes : hand[x][y] # "none" => hand'[x][y] # "none"
        /\ hand'[n][m] # "none"
    BY <2>1 DEF TypeOK, Statuses
  <2>9. QED
    BY <2>1, <2>5, <2>6, <2>7, <2>8 DEF KnownInv
<1>8. CASE UNCHANGED vars
  BY <1>8 DEF vars, KnownInv, InTransit
<1>9. QED
  BY <1>1, <1>2, <1>3, <1>4, <1>5, <1>6, <1>7, <1>8 DEF Next, Handle, HandleProbe

-----------------------------------------------------------------------------
(***************************************************************************)
(* Every raised hand is taken, and every probe sent arrives: in any        *)
(* network, whichever ends talk.                                           *)
(***************************************************************************)
Signals == {HaveProbes, OkayToSendProbes}

(* No probe and no 'meet' is a signal. *)
LEMMA SignalFacts ==
  /\ MeetMessage \notin Signals
  /\ \A p \in Probes : ProbeMessage(p) \notin Signals
  /\ HaveProbes # OkayToSendProbes
BY MessageFacts DEF ProbeMessages, Signals

(* What is under way stays so while a node queues probes, and what it sends joins it. *)
LEMMA QueueRange ==
  ASSUME TypeOK, NEW n \in Nodes, NEW status \in Statuses, NEW queued \in Queues,
         NEW net \in Networks, QueueProbes(n, status, queued, net)
  PROVE  /\ \A x, y \in Nodes : Range(net[x][y]) \subseteq Range(network'[x][y])
         /\ \A f \in Nodes : Raises(status, queued, f) => HaveProbes \in Range(network'[n][f])
         /\ \A f \in Nodes : \A p \in Flushed(n, status, queued, f) :
              ProbeMessage(p) \in Range(network'[n][f])
<1>1. /\ \A f \in Nodes : network'[n][f] = net[n][f] \o Queued(n, status, queued, f)
      /\ \A x \in Nodes \ {n} : network'[x] = net[x]
  BY QueueFacts
<1>2. ASSUME NEW f \in Nodes
      PROVE  /\ net[n][f] \in Seq(Messages)
             /\ Queued(n, status, queued, f) \in Seq(Messages)
             /\ Flushed(n, status, queued, f) \in SUBSET Probes
             /\ Burst(Flushed(n, status, queued, f)) \in Seq(Messages)
  BY FlushedFacts DEF Networks
<1>3. ASSUME NEW f \in Nodes
      PROVE  Range(network'[n][f]) = Range(net[n][f]) \cup Range(Queued(n, status, queued, f))
  <2>1. \A b \in Seq(Messages) : Range(net[n][f] \o b) = Range(net[n][f]) \cup Range(b)
    BY <1>2, ConcatRange
  <2> QED
    BY <1>1, <1>2, <2>1
<1>4. ASSUME NEW f \in Nodes
      PROVE  /\ Raises(status, queued, f) => HaveProbes \in Range(Queued(n, status, queued, f))
             /\ \A p \in Flushed(n, status, queued, f) :
                  ProbeMessage(p) \in Range(Queued(n, status, queued, f))
  <2> DEFINE flushed == Flushed(n, status, queued, f)
             signal == IF Raises(status, queued, f) THEN <<HaveProbes>> ELSE <<>>
  <2>1. flushed \in SUBSET Probes /\ Burst(flushed) \in Seq(Messages)
    BY <1>2
  <2>2. signal \in Seq(Messages)
    BY MessageFacts
  <2>3. Raises(status, queued, f) => HaveProbes \in Range(signal)
    BY RestRange
  <2>4. Queued(n, status, queued, f) = Burst(flushed) \o signal
    BY DEF Queued
  <2> HIDE DEF flushed, signal
  <2>5. \A b \in Seq(Messages) : Range(Burst(flushed) \o b) = Range(Burst(flushed)) \cup Range(b)
    BY <2>1, ConcatRange
  <2>6. Range(Queued(n, status, queued, f)) = Range(Burst(flushed)) \cup Range(signal)
    BY <2>2, <2>4, <2>5
  <2>7. \A p \in flushed : ProbeMessage(p) \in Range(Burst(flushed))
    BY <2>1, BurstFacts
  <2> QED
    BY <2>3, <2>6, <2>7 DEF flushed
<1> QED
  BY <1>1, <1>3, <1>4

LEMMA RaisedInit == Init => RaisedInv /\ SpreadInv
BY DEF Init, RaisedInv, SpreadInv, Friends

(* A step that queues for every friend of n whatever is new to the link raises a hand
   for it, or flushes it. *)
LEMMA QueueRaises ==
  ASSUME TypeOK, RaisedInv, NEW n \in Nodes,
         NEW status \in Statuses, NEW queued \in Queues, NEW net \in Networks,
         QueueProbes(n, status, queued, net),
         \A x \in Nodes \ {n} : known'[x] = known[x] /\ from'[x] = from[x],
         known'[n] \in SUBSET Probes,
         \A f \in Nodes, p \in Probes : f \in from[n][p] => f \in from'[n][p],
         \A f \in Nodes : status[f] # "none" =>
           \A p \in known'[n] : \/ p \in queued[f]
                                \/ f \in from'[n][p]
                                \/ p \in known[n] /\ hand[n][f] # "none",
         \A f \in Nodes : status[f] = "waiting" => hand[n][f] = "waiting",
         \A x, y \in Nodes, w \in Signals : InTransit(x, y, w) => w \in Range(net[x][y])
  PROVE  RaisedInv'
<1>1. \A f \in Nodes :
        /\ hand'[n][f] = IF Raises(status, queued, f) THEN "waiting" ELSE status[f]
        /\ offer'[n][f] = offer[n][f] \cup queued[f]
  BY QueueFacts
<1>2. \A p \in Probes :
        to'[n][p] = to[n][p] \cup {f \in Nodes : p \in Flushed(n, status, queued, f)}
  BY QueueFacts
<1>3. \A x \in Nodes \ {n} : hand'[x] = hand[x] /\ offer'[x] = offer[x] /\ to'[x] = to[x]
  BY QueueFacts
<1>4. /\ \A x, y \in Nodes, w \in Signals : InTransit(x, y, w) => InTransit(x, y, w)'
      /\ \A f \in Nodes : Raises(status, queued, f) => InTransit(n, f, HaveProbes)'
  BY QueueRange DEF InTransit
<1>5. \A x, y \in Nodes : InTransit(x, y, HaveProbes) \/ InTransit(y, x, OkayToSendProbes) =>
        InTransit(x, y, HaveProbes)' \/ InTransit(y, x, OkayToSendProbes)'
  BY <1>4 DEF Signals
<1>6. ASSUME NEW f \in Nodes, hand'[n][f] # "none", NEW p \in known'[n],
             f \notin from'[n][p], f \notin to'[n][p]
      PROVE  /\ p \in offer'[n][f]
             /\ InTransit(n, f, HaveProbes)' \/ InTransit(f, n, OkayToSendProbes)'
  <2>1. p \in Probes /\ status[f] # "none" /\ status[f] \in HandRaisingStatus
    BY <1>1, <1>6 DEF Raises, Statuses
  <2>2. f \notin from[n][p] /\ f \notin to[n][p] /\ p \notin Flushed(n, status, queued, f)
    BY <1>2, <1>6, <2>1
  <2>3. CASE p \in queued[f]
    <3>1. status[f] # "talking"
      BY <2>2, <2>3 DEF Flushed, Virgin
    <3>2. Raises(status, queued, f) \/ status[f] = "waiting"
      BY <2>1, <2>3, <3>1 DEF Raises, HandRaisingStatus
    <3>3. status[f] = "waiting" =>
            InTransit(n, f, HaveProbes) \/ InTransit(f, n, OkayToSendProbes)
      BY DEF RaisedInv, Friends
    <3> QED
      BY <1>1, <1>4, <1>5, <2>3, <3>2, <3>3
  <2>4. CASE p \in known[n] /\ hand[n][f] # "none"
    <3>1. p \in Virgin(n, f, known[n]) /\ f \in Friends(n)
      BY <2>2, <2>4 DEF Virgin, Friends
    <3>2. /\ p \in offer[n][f]
          /\ InTransit(n, f, HaveProbes) \/ InTransit(f, n, OkayToSendProbes)
      BY <3>1 DEF RaisedInv
    <3> QED
      BY <1>1, <1>5, <3>2
  <2> QED
    BY <1>6, <2>1, <2>3, <2>4
<1>7. ASSUME NEW f \in Nodes, hand'[n][f] = "waiting"
      PROVE  InTransit(n, f, HaveProbes)' \/ InTransit(f, n, OkayToSendProbes)'
  <2>1. CASE Raises(status, queued, f)
    BY <1>4, <2>1
  <2>2. CASE ~Raises(status, queued, f)
    <3>1. hand[n][f] = "waiting"
      BY <1>1, <1>7, <2>2
    <3>2. InTransit(n, f, HaveProbes) \/ InTransit(f, n, OkayToSendProbes)
      BY <3>1 DEF RaisedInv, Friends
    <3> QED
      BY <1>5, <3>2
  <2> QED
    BY <2>1, <2>2
<1>8. ASSUME NEW x \in Nodes \ {n}, NEW f \in Nodes, hand'[x][f] # "none"
      PROVE  /\ Virgin(x, f, known[x])' = Virgin(x, f, known[x])
             /\ f \in Friends(x) /\ hand'[x][f] = hand[x][f] /\ offer'[x][f] = offer[x][f]
  BY <1>3, <1>8 DEF Virgin, Friends
<1>9. ASSUME NEW x \in Nodes, NEW f \in Nodes, hand'[x][f] # "none"
      PROVE  /\ Virgin(x, f, known[x])' \subseteq offer'[x][f]
             /\ hand'[x][f] = "waiting" \/ Virgin(x, f, known[x])' # {} =>
                  InTransit(x, f, HaveProbes)' \/ InTransit(f, x, OkayToSendProbes)'
  <2>1. CASE x = n
    BY <1>6, <1>7, <1>9, <2>1 DEF Virgin
  <2>2. CASE x # n
    BY <1>5, <1>8, <1>9, <2>2 DEF RaisedInv
  <2> QED
    BY <2>1, <2>2
<1> QED
  BY <1>9 DEF RaisedInv, Friends

(* What a node flushes it knows, and sends. *)
LEMMA QueueSpreads ==
  ASSUME TypeOK, KnownInv, SpreadInv, NEW n \in Nodes,
         NEW status \in Statuses, NEW queued \in Queues, NEW net \in Networks,
         QueueProbes(n, status, queued, net),
         \A x \in Nodes : known[x] \subseteq known'[x],
         \A f \in Nodes : queued[f] \subseteq known'[n],
         \A x, y \in Nodes, p \in Probes : InTransit(x, y, ProbeMessage(p)) =>
           ProbeMessage(p) \in Range(net[x][y]) \/ p \in known'[y]
  PROVE  SpreadInv'
<1>1. \A p \in Probes :
        to'[n][p] = to[n][p] \cup {f \in Nodes : p \in Flushed(n, status, queued, f)}
  BY QueueFacts
<1>2. \A x \in Nodes \ {n} : to'[x] = to[x]
  BY QueueFacts
<1>3. /\ \A x, y \in Nodes : Range(net[x][y]) \subseteq Range(network'[x][y])
      /\ \A f \in Nodes : \A p \in Flushed(n, status, queued, f) :
           ProbeMessage(p) \in Range(network'[n][f])
  BY QueueRange
<1>4. ASSUME NEW f \in Nodes, NEW p \in Flushed(n, status, queued, f)
      PROVE  p \in known'[n]
  <2>1. p \in offer[n][f] \cup queued[f]
    BY DEF Flushed, Virgin
  <2> QED
    BY <2>1 DEF KnownInv
<1>5. ASSUME NEW x \in Nodes, NEW y \in Nodes, NEW p \in Probes, y \in to'[x][p]
      PROVE  p \in known'[x] /\ (p \in known'[y] \/ ProbeMessage(p) \in Range(network'[x][y]))
  <2>1. CASE y \in to[x][p]
    <3>1. p \in known[x] /\ (p \in known[y] \/ InTransit(x, y, ProbeMessage(p)))
      BY <2>1 DEF SpreadInv
    <3> QED
      BY <1>3, <3>1
  <2>2. CASE y \notin to[x][p]
    <3>1. x = n /\ p \in Flushed(n, status, queued, y)
      BY <1>1, <1>2, <1>5, <2>2
    <3> QED
      BY <1>3, <1>4, <3>1
  <2> QED
    BY <2>1, <2>2
<1> QED
  BY <1>5 DEF SpreadInv, InTransit

LEMMA RaisedStep ==
  TypeOK /\ MetInv /\ KnownInv /\ RaisedInv /\ SpreadInv /\ [Next]_vars
    => RaisedInv' /\ SpreadInv'
<1> SUFFICES ASSUME TypeOK, MetInv, KnownInv, RaisedInv, SpreadInv, [Next]_vars
             PROVE  RaisedInv' /\ SpreadInv'
  OBVIOUS
<1>1. ASSUME NEW a \in Nodes, NEW b \in Nodes, Meet(a, b)
      PROVE  RaisedInv' /\ SpreadInv'
  <2> DEFINE status == [hand[a] EXCEPT ![b] = "talking"]
             queued == [f \in Nodes |-> IF f = b THEN known[a] \cup {<<a, b>>}
                                        ELSE IF f \in Friends(a) THEN {<<a, b>>} ELSE {}]
             net == Sent(network, a, b, <<MeetMessage>>)
  <2>1. /\ <<a, b>> \in Introductions
        /\ QueueProbes(a, status, queued, net)
        /\ known' = [known EXCEPT ![a] = known[a] \cup {<<a, b>>}]
        /\ from' = from
    BY <1>1 DEF Meet
  <2>2. status \in Statuses /\ queued \in Queues /\ net \in Networks
    BY <2>1, MeetArguments
  <2>3. /\ \A x \in Nodes \ {a} : known'[x] = known[x] /\ from'[x] = from[x]
        /\ known'[a] = known[a] \cup {<<a, b>>}
        /\ known'[a] \in SUBSET Probes
        /\ \A x \in Nodes : known[x] \subseteq known'[x]
    BY <2>1 DEF TypeOK, Probes
  <2>4. /\ \A f \in Nodes : status[f] # "none" =>
             \A p \in known'[a] : \/ p \in queued[f]
                                  \/ p \in known[a] /\ hand[a][f] # "none"
        /\ \A f \in Nodes : status[f] = "waiting" => hand[a][f] = "waiting"
        /\ \A f \in Nodes : queued[f] \subseteq known'[a]
    BY <2>3 DEF TypeOK, Statuses, Friends
  <2>5. \A x, y \in Nodes : \A w : InTransit(x, y, w) => w \in Range(net[x][y])
    <3>1. network \in Networks /\ <<MeetMessage>> \in Seq(Messages)
      BY MessageFacts DEF TypeOK
    <3> QED
      BY <3>1, SentRange DEF InTransit
  <2> HIDE DEF status, queued, net
  <2>6. RaisedInv'
    BY <2>1, <2>2, <2>3, <2>4, <2>5, QueueRaises
  <2>7. SpreadInv'
    BY <2>1, <2>2, <2>3, <2>4, <2>5, QueueSpreads
  <2> QED
    BY <2>6, <2>7
<1>2. ASSUME NEW m \in Nodes, NEW n \in Nodes, HandleMeet(m, n)
      PROVE  RaisedInv' /\ SpreadInv'
  <2> DEFINE status == [hand[n] EXCEPT ![m] = "listening"]
             queued == [f \in Nodes |-> IF f = m THEN known[n] ELSE {}]
             net == Taken(m, n)
  <2>1. /\ Arrives(m, n, MeetMessage)
        /\ QueueProbes(n, status, queued, net)
        /\ known' = known /\ from' = from
    BY <1>2 DEF HandleMeet
  <2>2. status \in Statuses /\ queued \in Queues /\ net \in Networks
    BY <2>1, HandleMeetArguments, MetTaken
  <2>3. known'[n] \in SUBSET Probes
    BY <2>1 DEF TypeOK
  <2>4. /\ \A f \in Nodes : status[f] # "none" =>
             \A p \in known'[n] : \/ p \in queued[f]
                                  \/ p \in known[n] /\ hand[n][f] # "none"
        /\ \A f \in Nodes : status[f] = "waiting" => hand[n][f] = "waiting"
        /\ \A f \in Nodes : queued[f] \subseteq known'[n]
    BY <2>1 DEF TypeOK, Statuses
  <2>5. /\ \A x, y \in Nodes, w \in Signals : InTransit(x, y, w) => w \in Range(net[x][y])
        /\ \A x, y \in Nodes, p \in Probes : InTransit(x, y, ProbeMessage(p)) =>
             ProbeMessage(p) \in Range(net[x][y])
    <3>1. \A p \in Probes : ProbeMessage(p) # MeetMessage
      BY MessageFacts DEF ProbeMessages
    <3>2. MeetMessage \notin Signals
      BY SignalFacts
    <3>3. Arrives(m, n, MeetMessage)
      BY <2>1
    <3>4. \A x, y \in Nodes : \A other \in Range(network[x][y]) :
            other \in Range(net[x][y]) \/ (x = m /\ y = n /\ other = MeetMessage)
      BY <3>3, TakenRange
    <3> HIDE DEF net
    <3> QED
      BY <3>1, <3>2, <3>4 DEF InTransit
  <2> HIDE DEF status, queued, net
  <2>6. RaisedInv'
    BY <2>1, <2>2, <2>3, <2>4, <2>5, QueueRaises
  <2>7. SpreadInv'
    BY <2>1, <2>2, <2>3, <2>4, <2>5, QueueSpreads
  <2> QED
    BY <2>6, <2>7
<1>3. ASSUME NEW m \in Nodes, NEW n \in Nodes, NEW p \in Probes, FloodNewProbe(m, n, p)
      PROVE  RaisedInv' /\ SpreadInv'
  <2> DEFINE status == hand[n]
             queued == [f \in Nodes |-> IF f \in Friends(n) \ {m} THEN {p} ELSE {}]
             net == Taken(m, n)
  <2>1. /\ Arrives(m, n, ProbeMessage(p))
        /\ QueueProbes(n, status, queued, net)
        /\ known' = [known EXCEPT ![n] = known[n] \cup {p}]
        /\ from' = [from EXCEPT ![n][p] = from[n][p] \cup {m}]
    BY <1>3 DEF FloodNewProbe
  <2>2. status \in Statuses /\ queued \in Queues /\ net \in Networks
    BY <2>1, FloodArguments, MetTaken
  <2>3. /\ \A x \in Nodes \ {n} : known'[x] = known[x] /\ from'[x] = from[x]
        /\ known'[n] = known[n] \cup {p}
        /\ known'[n] \in SUBSET Probes
        /\ \A x \in Nodes : known[x] \subseteq known'[x]
        /\ \A f \in Nodes : queued[f] \subseteq known'[n]
    BY <2>1 DEF TypeOK
  <2>4. /\ \A f \in Nodes, q \in Probes : f \in from[n][q] => f \in from'[n][q]
        /\ m \in from'[n][p]
    BY <2>1 DEF TypeOK, Records
  <2>5. \A f \in Nodes : status[f] # "none" =>
          \A q \in known'[n] : \/ q \in queued[f]
                               \/ f \in from'[n][q]
                               \/ q \in known[n] /\ hand[n][f] # "none"
    BY <2>3, <2>4 DEF Friends
  <2>6. /\ \A x, y \in Nodes, w \in Signals : InTransit(x, y, w) => w \in Range(net[x][y])
        /\ \A x, y \in Nodes, q \in Probes : InTransit(x, y, ProbeMessage(q)) =>
             ProbeMessage(q) \in Range(net[x][y]) \/ q \in known'[y]
    <3>1. \A q \in Probes : ProbeMessage(q) = ProbeMessage(p) => q = p
      BY MessageFacts
    <3>2. ProbeMessage(p) \notin Signals
      BY SignalFacts
    <3>3. \A x, y \in Nodes : \A other \in Range(network[x][y]) :
            other \in Range(net[x][y]) \/ (x = m /\ y = n /\ other = ProbeMessage(p))
      <4>1. Arrives(m, n, ProbeMessage(p))
        BY <2>1
      <4> QED
        BY <4>1, TakenRange
    <3>4. p \in known'[n]
      BY <2>3
    <3> HIDE DEF net
    <3> QED
      BY <3>1, <3>2, <3>3, <3>4 DEF InTransit
  <2>7. \A f \in Nodes : status[f] = "waiting" => hand[n][f] = "waiting"
    OBVIOUS
  <2> HIDE DEF status, queued, net
  <2>8. RaisedInv'
    BY <2>1, <2>2, <2>3, <2>4, <2>5, <2>6, <2>7, QueueRaises
  <2>9. SpreadInv'
    BY <2>1, <2>2, <2>3, <2>6, QueueSpreads
  <2> QED
    BY <2>8, <2>9
<1>4. ASSUME NEW m \in Nodes, NEW n \in Nodes, NEW p \in Probes,
             ProbeLoopback(m, n, p) \/ IgnoreProbe(m, n, p)
      PROVE  RaisedInv' /\ SpreadInv'
  <2>1. /\ Arrives(m, n, ProbeMessage(p)) /\ p \in known[n] /\ network' = Taken(m, n)
        /\ \A x, y \in Nodes, q \in Probes : y \in from[x][q] => y \in from'[x][q]
        /\ UNCHANGED <<hand, known, to, offer>>
    <3>1. CASE ProbeLoopback(m, n, p)
      BY <3>1 DEF ProbeLoopback, RecordLoopback, TypeOK, Records
    <3>2. CASE IgnoreProbe(m, n, p)
      BY <3>2 DEF IgnoreProbe
    <3> QED
      BY <1>4, <3>1, <3>2
  <2>2. /\ \A x, y \in Nodes, w \in Signals : InTransit(x, y, w) => InTransit(x, y, w)'
        /\ \A x, y \in Nodes, q \in Probes : InTransit(x, y, ProbeMessage(q)) =>
             InTransit(x, y, ProbeMessage(q))' \/ q \in known[y]
    <3>1. \A q \in Probes : ProbeMessage(q) = ProbeMessage(p) => q = p
      BY MessageFacts
    <3>2. ProbeMessage(p) \notin Signals
      BY SignalFacts
    <3>3. \A x, y \in Nodes : \A other \in Range(network[x][y]) :
            other \in Range(network'[x][y]) \/ (x = m /\ y = n /\ other = ProbeMessage(p))
      BY <2>1, TakenRange
    <3> QED
      BY <2>1, <3>1, <3>2, <3>3 DEF InTransit
  <2>3. \A x, y \in Nodes : InTransit(x, y, HaveProbes) \/ InTransit(y, x, OkayToSendProbes) =>
          InTransit(x, y, HaveProbes)' \/ InTransit(y, x, OkayToSendProbes)'
    BY <2>2 DEF Signals
  <2>4. \A x, y \in Nodes : Virgin(x, y, known[x])' \subseteq Virgin(x, y, known[x])
    BY <2>1 DEF Virgin, TypeOK
  <2>5. RaisedInv'
    BY <2>1, <2>3, <2>4 DEF RaisedInv, Friends
  <2>6. SpreadInv'
    BY <2>1, <2>2 DEF SpreadInv
  <2> QED
    BY <2>5, <2>6
<1>5. ASSUME NEW m \in Nodes, NEW n \in Nodes, HandleHaveProbes(m, n)
      PROVE  RaisedInv' /\ SpreadInv'
  <2> DEFINE net == Taken(m, n)
  <2>1. /\ Arrives(m, n, HaveProbes)
        /\ hand' = [hand EXCEPT ![n][m] = "listening"]
        /\ network' = Sent(net, n, m, <<OkayToSendProbes>>)
        /\ UNCHANGED <<known, from, to, offer>>
    BY <1>5 DEF HandleHaveProbes
  <2>2. net \in Networks /\ hand[n][m] # "none"
    BY <2>1, MessageFacts, MetTaken
  <2>3. \A x, y \in Nodes : \A other \in Range(network[x][y]) :
          other \in Range(net[x][y]) \/ (x = m /\ y = n /\ other = HaveProbes)
    BY <2>1, TakenRange
  <2> HIDE DEF net
  <2>4. <<OkayToSendProbes>> \in Seq(Messages)
    BY MessageFacts
  <2>5. \A x, y \in Nodes : Range(net[x][y]) \subseteq Range(network'[x][y])
    BY <2>1, <2>2, <2>4, SentRange
  <2>6. InTransit(n, m, OkayToSendProbes)'
    <3>1. network'[n][m] = net[n][m] \o <<OkayToSendProbes>> /\ net[n][m] \in Seq(Messages)
      <4>1. Sent(net, n, m, <<OkayToSendProbes>>)[n][m] = net[n][m] \o <<OkayToSendProbes>>
        BY <2>2, <2>4, SentFacts
      <4>2. net[n][m] \in Seq(Messages)
        BY <2>2 DEF Networks
      <4> QED
        BY <2>1, <4>1, <4>2
    <3>2. \A b \in Seq(Messages) : Range(net[n][m] \o b) = Range(net[n][m]) \cup Range(b)
      BY <3>1, ConcatRange
    <3> QED
      BY <2>4, <3>1, <3>2, RestRange DEF InTransit
  <2>7. \A x, y \in Nodes : \A other :
          InTransit(x, y, other) => InTransit(x, y, other)' \/ (x = m /\ y = n /\ other = HaveProbes)
    BY <2>3, <2>5 DEF InTransit
  <2>8. \A x, y \in Nodes : InTransit(x, y, HaveProbes) \/ InTransit(y, x, OkayToSendProbes) =>
          InTransit(x, y, HaveProbes)' \/ InTransit(y, x, OkayToSendProbes)'
    BY <2>6, <2>7, SignalFacts
  <2>9. \A x, y \in Nodes :
          hand'[x][y] = IF x = n /\ y = m THEN "listening" ELSE hand[x][y]
    BY <2>1 DEF TypeOK, Statuses
  <2>10. \A x, y \in Nodes : Virgin(x, y, known[x])' = Virgin(x, y, known[x])
    BY <2>1 DEF Virgin
  <2>11. RaisedInv'
    BY <2>1, <2>2, <2>8, <2>9, <2>10 DEF RaisedInv, Friends
  <2>12. \A p \in Probes : ProbeMessage(p) # HaveProbes
    BY MessageFacts DEF ProbeMessages
  <2>13. SpreadInv'
    BY <2>1, <2>7, <2>12 DEF SpreadInv
  <2> QED
    BY <2>11, <2>13
<1>6. ASSUME NEW m \in Nodes, NEW n \in Nodes, HandleOkayToSendProbes(m, n)
      PROVE  RaisedInv' /\ SpreadInv'
  <2> DEFINE net == Taken(m, n)
             flushed == Virgin(n, m, offer[n][m])
  <2>1. /\ Arrives(m, n, OkayToSendProbes)
        /\ hand' = [hand EXCEPT ![n][m] = "talking"]
        /\ to' = [to EXCEPT ![n] =
              [p \in Probes |-> IF p \in flushed THEN to[n][p] \cup {m} ELSE to[n][p]]]
        /\ network' = Sent(net, n, m, Burst(flushed))
        /\ UNCHANGED <<known, from, offer>>
    BY <1>6 DEF HandleOkayToSendProbes
  <2>2. net \in Networks /\ hand[n][m] # "none"
    BY <2>1, MessageFacts, MetTaken
  <2>3. \A x, y \in Nodes : \A other \in Range(network[x][y]) :
          other \in Range(net[x][y]) \/ (x = m /\ y = n /\ other = OkayToSendProbes)
    BY <2>1, TakenRange
  <2>4. /\ Burst(flushed) \in Seq(Messages) /\ flushed \in SUBSET Probes
        /\ flushed \subseteq known[n]
        /\ Virgin(n, m, known[n]) \subseteq flushed
    <3>1. offer[n][m] \subseteq known[n] /\ known[n] \subseteq Probes
      BY DEF KnownInv, TypeOK
    <3>2. Virgin(n, m, known[n]) \subseteq offer[n][m]
      BY <2>2 DEF RaisedInv, Friends
    <3> QED
      BY <3>1, <3>2, OkayArguments DEF Virgin
  <2>5. \A x, y \in Nodes, q \in Probes :
          y \in to'[x][q] <=> y \in to[x][q] \/ (x = n /\ y = m /\ q \in flushed)
    BY <2>1 DEF TypeOK, Records
  <2> HIDE DEF net, flushed
  <2>6. \A x, y \in Nodes : Range(net[x][y]) \subseteq Range(network'[x][y])
    BY <2>1, <2>2, <2>4, SentRange
  <2>7. \A p \in flushed : InTransit(n, m, ProbeMessage(p))'
    <3>1. network'[n][m] = net[n][m] \o Burst(flushed) /\ net[n][m] \in Seq(Messages)
      <4>1. Sent(net, n, m, Burst(flushed))[n][m] = net[n][m] \o Burst(flushed)
        BY <2>2, <2>4, SentFacts
      <4>2. net[n][m] \in Seq(Messages)
        BY <2>2 DEF Networks
      <4> QED
        BY <2>1, <4>1, <4>2
    <3>2. \A b \in Seq(Messages) : Range(net[n][m] \o b) = Range(net[n][m]) \cup Range(b)
      BY <3>1, ConcatRange
    <3>3. \A p \in flushed : ProbeMessage(p) \in Range(Burst(flushed))
      BY <2>4, BurstFacts
    <3> QED
      BY <2>4, <3>1, <3>2, <3>3 DEF InTransit
  <2>8. \A x, y \in Nodes : \A other :
          InTransit(x, y, other) =>
            InTransit(x, y, other)' \/ (x = m /\ y = n /\ other = OkayToSendProbes)
    BY <2>3, <2>6 DEF InTransit
  <2>9. \A x, y \in Nodes : x # n \/ y # m =>
          (InTransit(x, y, HaveProbes) \/ InTransit(y, x, OkayToSendProbes) =>
             InTransit(x, y, HaveProbes)' \/ InTransit(y, x, OkayToSendProbes)')
    BY <2>8, SignalFacts
  <2>10. \A x, y \in Nodes :
          hand'[x][y] = IF x = n /\ y = m THEN "talking" ELSE hand[x][y]
    BY <2>1 DEF TypeOK, Statuses
  <2>11. /\ \A x, y \in Nodes : Virgin(x, y, known[x])' \subseteq Virgin(x, y, known[x])
         /\ Virgin(n, m, known[n])' = {}
    BY <2>1, <2>4, <2>5 DEF Virgin, TypeOK
  <2>12. RaisedInv'
    <3> SUFFICES ASSUME NEW x \in Nodes, NEW f \in Nodes, hand'[x][f] # "none"
                 PROVE  /\ Virgin(x, f, known[x])' \subseteq offer'[x][f]
                        /\ hand'[x][f] = "waiting" \/ Virgin(x, f, known[x])' # {} =>
                             InTransit(x, f, HaveProbes)' \/ InTransit(f, x, OkayToSendProbes)'
      BY DEF RaisedInv, Friends
    <3>1. CASE x = n /\ f = m
      BY <2>10, <2>11, <3>1
    <3>2. CASE x # n \/ f # m
      <4>1. hand'[x][f] = hand[x][f] /\ f \in Friends(x)
        BY <2>10, <3>2 DEF Friends
      <4> QED
        BY <2>1, <2>9, <2>11, <3>2, <4>1 DEF RaisedInv
    <3> QED
      BY <3>1, <3>2
  <2>13. \A p \in Probes : ProbeMessage(p) # OkayToSendProbes
    BY MessageFacts DEF ProbeMessages
  <2>14. SpreadInv'
    BY <2>1, <2>4, <2>5, <2>7, <2>8, <2>13 DEF SpreadInv
  <2> QED
    BY <2>12, <2>14
<1>7. CASE UNCHANGED vars
  BY <1>7 DEF vars, RaisedInv, SpreadInv, Virgin, Friends, InTransit
<1> QED
  BY <1>1, <1>2, <1>3, <1>4, <1>5, <1>6, <1>7 DEF Next, Handle, HandleProbe

(* Without messages no hand is up and nothing is on offer, so what one end of a link
   knows has crossed it. *)
LEMMA FloodedFromInvariants ==
  TypeOK /\ MetInv /\ KnownInv /\ RaisedInv /\ SpreadInv => FloodedWhenQuiet
<1> SUFFICES ASSUME TypeOK, MetInv, KnownInv, RaisedInv, SpreadInv, Quiet
             PROVE  \A n \in Nodes : \A f \in Friends(n) :
                      n \in Friends(f) /\ known[n] = known[f] /\ Virgin(n, f, known[n]) = {}
  BY DEF FloodedWhenQuiet
<1>1. \A x, y \in Nodes : \A message : ~InTransit(x, y, message)
  BY RestRange DEF Quiet, InTransit
<1>2. \A n, f \in Nodes : hand[n][f] # "none" => hand[f][n] # "none"
  BY DEF MetInv, Quiet
<1>3. \A n, f \in Nodes : hand[n][f] # "none" => Virgin(n, f, known[n]) = {}
  BY <1>1 DEF RaisedInv, Friends
<1>4. ASSUME NEW n \in Nodes, NEW f \in Nodes, hand[n][f] # "none", NEW p \in known[n]
      PROVE  p \in known[f]
  <2>1. p \in Probes
    BY DEF TypeOK
  <2>2. f \in from[n][p] \/ f \in to[n][p]
    BY <1>3, <1>4 DEF Virgin
  <2>3. CASE f \in from[n][p]
    BY <2>1, <2>3 DEF KnownInv
  <2>4. CASE f \in to[n][p]
    BY <1>1, <2>1, <2>4 DEF SpreadInv
  <2> QED
    BY <2>2, <2>3, <2>4
<1>5. \A n, f \in Nodes : hand[n][f] # "none" => known[n] = known[f]
  <2>1. \A n, f \in Nodes : hand[n][f] # "none" => known[n] \subseteq known[f]
    BY <1>4
  <2>2. ASSUME NEW n \in Nodes, NEW f \in Nodes, hand[n][f] # "none"
        PROVE  known[n] = known[f]
    <3>1. known[n] \subseteq known[f] /\ known[f] \subseteq known[n]
      BY <1>2, <2>1, <2>2
    <3> QED
      BY <3>1
  <2> QED
    BY <2>2
<1> QED
  BY <1>2, <1>3, <1>5 DEF Friends

(* Nodes offer and send what they know, to friends, and a friend that has recorded a
   probe as received is one to which it has been sent. *)
THEOREM KnownCorrect == Spec => []KnownInv
<1>1. Init => KnownInv
  BY KnownInit
<1>2. TypeOK /\ MetInv /\ KnownInv /\ [Next]_vars => KnownInv'
  BY KnownStep
<1>3. QED
  BY <1>1, <1>2, TypeCorrect, MetCorrect, PTL DEF Spec

(* In any network, the flood of every probe is complete whenever no message is under
   way: also where both ends of a link were told to meet each other. *)
THEOREM FloodedWhenQuietCorrect == Spec => []FloodedWhenQuiet
<1>1. TypeOK /\ MetInv /\ KnownInv /\ RaisedInv /\ SpreadInv /\ [Next]_vars
        => RaisedInv' /\ SpreadInv'
  BY RaisedStep
<1>2. TypeOK /\ MetInv /\ KnownInv /\ RaisedInv /\ SpreadInv => FloodedWhenQuiet
  BY FloodedFromInvariants
<1> QED
  BY <1>1, <1>2, RaisedInit, TypeCorrect, MetCorrect, KnownCorrect, PTL DEF Spec

-----------------------------------------------------------------------------
(***************************************************************************)
(* A probe loops back only where there is a loop.                          *)
(***************************************************************************)

(* No friend is ever dropped, and what is known and recorded stays. *)
LEMMA Keeps ==
  ASSUME TypeOK, [Next]_vars
  PROVE  \A x, y \in Nodes :
           /\ hand[x][y] # "none" => hand'[x][y] # "none"
           /\ \A p \in Probes : y \in from[x][p] => y \in from'[x][p]
<1>1. ASSUME NEW n \in Nodes, NEW status \in Statuses, NEW queued \in Queues, NEW net,
             QueueProbes(n, status, queued, net),
             \A f \in Nodes : hand[n][f] # "none" => status[f] # "none"
      PROVE  \A x, y \in Nodes : hand[x][y] # "none" => hand'[x][y] # "none"
  <2>1. hand' = [hand EXCEPT ![n] =
          [f \in Nodes |-> IF Raises(status, queued, f) THEN "waiting" ELSE status[f]]]
    BY <1>1 DEF QueueProbes
  <2>2. QED
    BY <1>1, <2>1 DEF TypeOK
<1>2. ASSUME NEW a \in Nodes, NEW b \in Nodes, Meet(a, b)
      PROVE  from' = from /\ \A x, y \in Nodes : hand[x][y] # "none" => hand'[x][y] # "none"
  <2> DEFINE status == [hand[a] EXCEPT ![b] = "talking"]
             queued == [f \in Nodes |-> IF f = b THEN known[a] \cup {<<a, b>>}
                                        ELSE IF f \in Friends(a) THEN {<<a, b>>} ELSE {}]
  <2>1. /\ <<a, b>> \in Introductions
        /\ from' = from
        /\ QueueProbes(a, status, queued, Sent(network, a, b, <<MeetMessage>>))
    BY <1>2 DEF Meet
  <2>2. status \in Statuses /\ queued \in Queues
    BY <2>1, MeetArguments
  <2>3. \A f \in Nodes : hand[a][f] # "none" => status[f] # "none"
    BY DEF TypeOK, Statuses
  <2> HIDE DEF status, queued
  <2>4. QED
    BY <1>1, <2>1, <2>2, <2>3
<1>3. ASSUME NEW m \in Nodes, NEW n \in Nodes, HandleMeet(m, n)
      PROVE  from' = from /\ \A x, y \in Nodes : hand[x][y] # "none" => hand'[x][y] # "none"
  <2> DEFINE status == [hand[n] EXCEPT ![m] = "listening"]
             queued == [f \in Nodes |-> IF f = m THEN known[n] ELSE {}]
  <2>1. from' = from /\ QueueProbes(n, status, queued, Taken(m, n))
    BY <1>3 DEF HandleMeet
  <2>2. status \in Statuses /\ queued \in Queues
    BY HandleMeetArguments
  <2>3. \A f \in Nodes : hand[n][f] # "none" => status[f] # "none"
    BY DEF TypeOK, Statuses
  <2> HIDE DEF status, queued
  <2>4. QED
    BY <1>1, <2>1, <2>2, <2>3
<1>4. ASSUME NEW n \in Nodes, NEW m \in Nodes, NEW p \in Probes,
             from' = [from EXCEPT ![n][p] = from[n][p] \cup {m}]
      PROVE  \A x, y \in Nodes : \A q \in Probes : y \in from[x][q] => y \in from'[x][q]
  BY <1>4 DEF TypeOK, Records
<1>5. ASSUME NEW m \in Nodes, NEW n \in Nodes, NEW p \in Probes, FloodNewProbe(m, n, p)
      PROVE  \A x, y \in Nodes :
               /\ hand[x][y] # "none" => hand'[x][y] # "none"
               /\ \A q \in Probes : y \in from[x][q] => y \in from'[x][q]
  <2> DEFINE status == hand[n]
             queued == [f \in Nodes |-> IF f \in Friends(n) \ {m} THEN {p} ELSE {}]
  <2>1. /\ from' = [from EXCEPT ![n][p] = from[n][p] \cup {m}]
        /\ QueueProbes(n, status, queued, Taken(m, n))
    BY <1>5 DEF FloodNewProbe
  <2>2. status \in Statuses /\ queued \in Queues
    BY FloodArguments
  <2>3. \A f \in Nodes : hand[n][f] # "none" => status[f] # "none"
    OBVIOUS
  <2> HIDE DEF status, queued
  <2>4. QED
    BY <1>1, <1>4, <2>1, <2>2, <2>3
<1>6. ASSUME NEW m \in Nodes, NEW n \in Nodes, NEW p \in Probes, ProbeLoopback(m, n, p)
      PROVE  hand' = hand /\ from' = [from EXCEPT ![n][p] = from[n][p] \cup {m}]
  BY <1>6 DEF ProbeLoopback, RecordLoopback
<1>7. ASSUME NEW m \in Nodes, NEW n \in Nodes,
             \/ \E p \in Probes : IgnoreProbe(m, n, p)
             \/ HandleHaveProbes(m, n)
             \/ HandleOkayToSendProbes(m, n)
      PROVE  from' = from /\ \A x, y \in Nodes : hand[x][y] # "none" => hand'[x][y] # "none"
  <2>1. /\ from' = from
        /\ \/ hand' = hand
           \/ hand' = [hand EXCEPT ![n][m] = "listening"]
           \/ hand' = [hand EXCEPT ![n][m] = "talking"]
    BY <1>7 DEF IgnoreProbe, HandleHaveProbes, HandleOkayToSendProbes
  <2>2. QED
    BY <2>1 DEF TypeOK, Statuses
<1>8. CASE UNCHANGED vars
  BY <1>8 DEF vars
<1>9. QED
  BY <1>2, <1>3, <1>4, <1>5, <1>6, <1>7, <1>8 DEF Next, Handle, HandleProbe

(* A 'probe' message is flooded, a loopback, or ignored. *)
LEMMA Branches ==
  \A m, n, p : HandleProbe(m, n, p) =>
    FloodNewProbe(m, n, p) \/ ProbeLoopback(m, n, p) \/ IgnoreProbe(m, n, p)
BY DEF HandleProbe

LEMMA EnteredInit == Init => EnteredInv
BY DEF Init, EnteredInv

LEMMA EnteredStep ==
  TypeOK /\ MetInv /\ KnownInv /\ EnteredInv /\ [Next]_vars => EnteredInv'
<1> SUFFICES ASSUME TypeOK, MetInv, KnownInv, EnteredInv, [Next]_vars,
                    NEW p \in Probes, NEW S \in SUBSET Nodes, p[1] \notin S,
                    NEW z \in S, p \in known'[z]
             PROVE  \E y \in S, x \in Nodes \ S : x \in from'[y][p]
  BY DEF EnteredInv
<1>1. \A x, y \in Nodes : y \in from[x][p] => y \in from'[x][p]
  BY Keeps
<1>2. CASE \E y \in S : p \in known[y]
  BY <1>1, <1>2 DEF EnteredInv
<1>3. CASE \A y \in S : p \notin known[y]
  <2>1. ASSUME NEW a \in Nodes, NEW b \in Nodes, Meet(a, b)
        PROVE  FALSE
    <3>1. known' = [known EXCEPT ![a] = known[a] \cup {<<a, b>>}]
      BY <2>1 DEF Meet
    <3>2. z = a /\ p = <<a, b>>
      BY <1>3, <3>1 DEF TypeOK
    <3>3. QED
      BY <3>2
  <2>2. ASSUME NEW m \in Nodes, NEW n \in Nodes, NEW q \in Probes, FloodNewProbe(m, n, q)
        PROVE  \E y \in S, x \in Nodes \ S : x \in from'[y][p]
    <3>1. /\ Arrives(m, n, ProbeMessage(q))
          /\ known' = [known EXCEPT ![n] = known[n] \cup {q}]
          /\ from' = [from EXCEPT ![n][q] = from[n][q] \cup {m}]
      BY <2>2 DEF FloodNewProbe
    <3>2. z = n /\ q = p
      BY <1>3, <3>1 DEF TypeOK
    <3>3. p \in known[m]
      BY <3>1, <3>2, ArrivedProbe
    <3>4. m \in Nodes \ S
      BY <1>3, <3>3
    <3>5. m \in from'[n][p]
      BY <3>1, <3>2 DEF TypeOK, Records
    <3>6. QED
      BY <3>2, <3>4, <3>5
  <2>3. CASE known' = known
    BY <1>3, <2>3
  <2>4. QED
    BY <2>1, <2>2, <2>3, Branches DEF Next, Handle, HandleMeet, ProbeLoopback, RecordLoopback,
       IgnoreProbe, HandleHaveProbes, HandleOkayToSendProbes, vars
<1>4. QED
  BY <1>2, <1>3

LEMMA LoopbackInit == Init => LoopbackMeansLoop
BY DEF Init, LoopbackMeansLoop

LEMMA LoopbackStep ==
  TypeOK /\ MetInv /\ KnownInv /\ EnteredInv /\ LoopbackMeansLoop /\ [Next]_vars
    => LoopbackMeansLoop'
<1> SUFFICES ASSUME TypeOK, MetInv, KnownInv, EnteredInv, LoopbackMeansLoop, [Next]_vars
             PROVE  LoopbackMeansLoop'
  OBVIOUS
<1> SUFFICES ASSUME NEW n \in Nodes, NEW m \in Nodes, NEW p \in Probes,
                    <<p, m>> \in loopbacks'[n],
                    NEW S \in SUBSET Nodes, n \in S, m \notin S
             PROVE  LeftElsewhere(S, n, m)'
  BY DEF LoopbackMeansLoop
<1>1. \A x, y \in Nodes : hand[x][y] # "none" => hand'[x][y] # "none"
  BY Keeps
<1>2. CASE <<p, m>> \in loopbacks[n]
  <2>1. LeftElsewhere(S, n, m)
    BY <1>2 DEF LoopbackMeansLoop
  <2>2. QED
    BY <1>1, <2>1 DEF LeftElsewhere
<1>3. CASE <<p, m>> \notin loopbacks[n]
  <2>1. ProbeLoopback(m, n, p)
    <3>1. PICK k \in Nodes, l \in Nodes, q \in Probes : ProbeLoopback(k, l, q)
      BY <1>3, Branches DEF Next, Handle, Meet, HandleMeet, FloodNewProbe, IgnoreProbe,
         HandleHaveProbes, HandleOkayToSendProbes, vars
    <3>2. loopbacks' = [loopbacks EXCEPT ![l] = loopbacks[l] \cup {<<q, k>>}]
      BY <3>1 DEF ProbeLoopback, RecordLoopback
    <3>3. n = l /\ <<p, m>> = <<q, k>>
      BY <1>3, <3>2 DEF TypeOK
    <3>4. QED
      BY <3>1, <3>3
  <2>2. /\ Arrives(m, n, ProbeMessage(p)) /\ p \in known[n]
        /\ m \notin from[n][p] /\ m \notin to[n][p]
    BY <2>1 DEF ProbeLoopback, RecordLoopback, Virgin
  <2>3. p \in known[m] /\ n \notin from[m][p]
    BY <2>2, ArrivedProbe DEF KnownInv
  <2>4. \E x \in S, y \in Nodes \ S :
          /\ (x = n /\ y = m) => FALSE
          /\ hand[x][y] # "none" \/ hand[y][x] # "none"
    <3>1. CASE p[1] \notin S
      <4>1. PICK x \in S, y \in Nodes \ S : y \in from[x][p]
        BY <2>2, <3>1 DEF EnteredInv
      <4>2. QED
        BY <2>2, <4>1 DEF KnownInv
    <3>2. CASE p[1] \in S
      <4> DEFINE T == Nodes \ S
      <4>1. T \in SUBSET Nodes /\ p[1] \notin T /\ m \in T /\ Nodes \ T = S
        BY <3>2
      <4> HIDE DEF T
      <4>2. PICK y \in T, x \in Nodes \ T : x \in from[y][p]
        BY <2>3, <4>1 DEF EnteredInv
      <4>3. x \in S /\ y \in Nodes \ S
        BY <4>1, <4>2 DEF T
      <4>4. QED
        BY <2>3, <4>2, <4>3 DEF KnownInv
    <3>3. QED
      BY <3>1, <3>2
  <2>5. \A x \in S, y \in Nodes \ S : {x, y} = {n, m} => x = n /\ y = m
    OBVIOUS
  <2>6. QED
    BY <1>1, <2>4, <2>5 DEF LeftElsewhere
<1>4. QED
  BY <1>2, <1>3

(* In any network, a probe that loops back to a node has come round a loop of links. *)
THEOREM LoopbackMeansLoopCorrect == Spec => []LoopbackMeansLoop
<1>1. Init => EnteredInv /\ LoopbackMeansLoop
  BY EnteredInit, LoopbackInit
<1>2. TypeOK /\ MetInv /\ KnownInv /\ EnteredInv /\ [Next]_vars => EnteredInv'
  BY EnteredStep
<1>3. TypeOK /\ MetInv /\ KnownInv /\ EnteredInv /\ LoopbackMeansLoop /\ [Next]_vars
        => LoopbackMeansLoop'
  BY LoopbackStep
<1>4. QED
  BY <1>1, <1>2, <1>3, TypeCorrect, MetCorrect, KnownCorrect, PTL DEF Spec

-----------------------------------------------------------------------------
(***************************************************************************)
(* Every loop is found: the links that a probe has crossed are those of a  *)
(* tree and those over which it looped back.                               *)
(***************************************************************************)
LEMMA TreeInit == Init => TreeInv
BY DEF Init, TreeInv

LEMMA TreeStep ==
  TypeOK /\ MetInv /\ KnownInv /\ TreeInv /\ [Next]_vars => TreeInv'
<1> SUFFICES ASSUME TypeOK, MetInv, KnownInv, TreeInv, [Next]_vars
             PROVE  TreeInv'
  OBVIOUS
<1>1. \A x, y \in Nodes : hand[x][y] # "none" => hand'[x][y] # "none"
  BY Keeps
<1>2. ASSUME UNCHANGED <<known, from, loopbacks>>
      PROVE  TreeInv'
  <2> SUFFICES ASSUME NEW p \in Probes, NEW n \in Nodes
               PROVE  /\ p \in known[n] => p \in known[p[1]] /\ hand'[p[1]][p[2]] # "none"
                      /\ \A m \in Nodes : <<p, m>> \in loopbacks[n] => m \in from[n][p]
                      /\ p \in known[n] /\ n # p[1] =>
                           \E m \in Nodes : m \in from[n][p] /\ <<p, m>> \notin loopbacks[n]
                      /\ \A m, k \in Nodes :
                           /\ m \in from[n][p] /\ <<p, m>> \notin loopbacks[n]
                           /\ k \in from[n][p] /\ <<p, k>> \notin loopbacks[n]
                           => m = k /\ n # p[1]
    BY <1>2 DEF TreeInv
  <2>1. p[1] \in Nodes /\ p[2] \in Nodes
    BY IntroductionsAssumption DEF Probes
  <2> QED
    BY <1>1, <2>1 DEF TreeInv
<1>3. ASSUME NEW a \in Nodes, NEW b \in Nodes, Meet(a, b)
      PROVE  TreeInv'
  <2>1. /\ <<a, b>> \in Probes /\ hand[a][b] = "none"
        /\ known' = [known EXCEPT ![a] = known[a] \cup {<<a, b>>}]
        /\ from' = from /\ loopbacks' = loopbacks
    BY <1>3 DEF Meet, Probes
  <2>2. hand'[a][b] # "none"
    <3> DEFINE status == [hand[a] EXCEPT ![b] = "talking"]
               queued == [f \in Nodes |-> IF f = b THEN known[a] \cup {<<a, b>>}
                                          ELSE IF f \in Friends(a) THEN {<<a, b>>} ELSE {}]
    <3>1. QueueProbes(a, status, queued, Sent(network, a, b, <<MeetMessage>>))
      BY <1>3 DEF Meet
    <3>2. status[b] = "talking"
      BY DEF TypeOK, Statuses
    <3> HIDE DEF status, queued
    <3>3. hand' = [hand EXCEPT ![a] =
            [f \in Nodes |-> IF Raises(status, queued, f) THEN "waiting" ELSE status[f]]]
      BY <3>1 DEF QueueProbes
    <3> QED
      BY <3>2, <3>3 DEF TypeOK
  <2>3. \A n \in Nodes : <<a, b>> \notin known[n] /\ from[n][<<a, b>>] = {}
    <3>1. <<a, b>>[1] = a /\ <<a, b>>[2] = b
      OBVIOUS
    <3>2. \A n \in Nodes : <<a, b>> \notin known[n]
      BY <2>1, <3>1 DEF TreeInv
    <3>3. \A n \in Nodes : from[n][<<a, b>>] \subseteq Nodes
      BY <2>1 DEF TypeOK, Records
    <3> QED
      BY <2>1, <3>2, <3>3 DEF KnownInv
  <2> SUFFICES ASSUME NEW p \in Probes, NEW n \in Nodes
               PROVE  /\ p \in known'[n] => p \in known'[p[1]] /\ hand'[p[1]][p[2]] # "none"
                      /\ \A m \in Nodes : <<p, m>> \in loopbacks[n] => m \in from[n][p]
                      /\ p \in known'[n] /\ n # p[1] =>
                           \E m \in Nodes : m \in from[n][p] /\ <<p, m>> \notin loopbacks[n]
                      /\ \A m, k \in Nodes :
                           /\ m \in from[n][p] /\ <<p, m>> \notin loopbacks[n]
                           /\ k \in from[n][p] /\ <<p, k>> \notin loopbacks[n]
                           => m = k /\ n # p[1]
    BY <2>1 DEF TreeInv
  <2>4. p[1] \in Nodes /\ p[2] \in Nodes
    BY IntroductionsAssumption DEF Probes
  <2>5. CASE p = <<a, b>>
    <3>1. p[1] = a /\ p[2] = b /\ (p \in known'[n] => n = a) /\ p \in known'[a]
      BY <2>1, <2>3, <2>5 DEF TypeOK
    <3>2. from[n][p] = {}
      BY <2>3, <2>5
    <3> QED
      BY <2>2, <3>1, <3>2 DEF TreeInv
  <2>6. CASE p # <<a, b>>
    <3>1. \A x \in Nodes : p \in known'[x] <=> p \in known[x]
      BY <2>1, <2>6 DEF TypeOK
    <3> QED
      BY <1>1, <2>4, <3>1 DEF TreeInv
  <2> QED
    BY <2>5, <2>6
<1>4. ASSUME NEW m \in Nodes, NEW n \in Nodes, NEW p \in Probes,
             Arrives(m, n, ProbeMessage(p)),
             from' = [from EXCEPT ![n][p] = from[n][p] \cup {m}],
             \/ /\ p \notin known[n]
                /\ known' = [known EXCEPT ![n] = known[n] \cup {p}]
                /\ loopbacks' = loopbacks
             \/ /\ p \in known[n] /\ m \notin from[n][p]
                /\ known' = known
                /\ loopbacks' = [loopbacks EXCEPT ![n] = loopbacks[n] \cup {<<p, m>>}]
      PROVE  TreeInv'
  <2>1. p \in known[m]
    BY <1>4, ArrivedProbe
  <2>2. p \in known[p[1]]
    BY <2>1 DEF TreeInv
  <2> SUFFICES ASSUME NEW q \in Probes, NEW x \in Nodes
               PROVE  /\ q \in known'[x] => q \in known'[q[1]] /\ hand'[q[1]][q[2]] # "none"
                      /\ \A l \in Nodes : <<q, l>> \in loopbacks'[x] => l \in from'[x][q]
                      /\ q \in known'[x] /\ x # q[1] =>
                           \E l \in Nodes : l \in from'[x][q] /\ <<q, l>> \notin loopbacks'[x]
                      /\ \A l, k \in Nodes :
                           /\ l \in from'[x][q] /\ <<q, l>> \notin loopbacks'[x]
                           /\ k \in from'[x][q] /\ <<q, k>> \notin loopbacks'[x]
                           => l = k /\ x # q[1]
    BY DEF TreeInv
  <2>3. q[1] \in Nodes /\ q[2] \in Nodes
    BY IntroductionsAssumption DEF Probes
  <2>4. \A y \in Nodes, r \in Probes :
          /\ from'[y][r] = IF y = n /\ r = p THEN from[n][p] \cup {m} ELSE from[y][r]
          /\ r \in known[y] => r \in known'[y]
          /\ r \in known'[y] => r \in known[y] \/ (y = n /\ r = p)
    BY <1>4 DEF TypeOK, Records
  <2>5. \A y \in Nodes, r \in Probes, l \in Nodes :
          <<r, l>> \in loopbacks'[y] <=>
            \/ <<r, l>> \in loopbacks[y]
            \/ p \in known[n] /\ y = n /\ r = p /\ l = m
    <3>1. CASE p \notin known[n] /\ loopbacks' = loopbacks
      BY <3>1
    <3>2. CASE loopbacks' = [loopbacks EXCEPT ![n] = loopbacks[n] \cup {<<p, m>>}] /\ p \in known[n]
      BY <3>2 DEF TypeOK
    <3> QED
      BY <3>1, <3>2, <1>4
  <2>6. q \in known'[x] => q \in known'[q[1]] /\ hand'[q[1]][q[2]] # "none"
    <3>1. q \in known'[x] => \E y \in Nodes : q \in known[y]
      BY <2>1, <2>4
    <3>2. (\E y \in Nodes : q \in known[y]) => q \in known[q[1]] /\ hand[q[1]][q[2]] # "none"
      BY DEF TreeInv
    <3> QED
      BY <1>1, <2>3, <2>4, <3>1, <3>2
  <2>7. CASE ~(x = n /\ q = p)
    BY <2>4, <2>5, <2>6, <2>7 DEF TreeInv
  <2>8. CASE x = n /\ q = p /\ p \notin known[n]
    <3>1. from[n][p] = {} /\ n # p[1]
      BY <2>2, <2>8 DEF KnownInv, TypeOK, Records
    <3>2. from'[n][p] = {m} /\ \A l \in Nodes : <<p, l>> \notin loopbacks'[n]
      BY <2>4, <2>5, <2>8, <3>1 DEF TreeInv
    <3> QED
      BY <2>6, <2>8, <3>1, <3>2
  <2>9. CASE x = n /\ q = p /\ p \in known[n] /\ m \notin from[n][p]
    <3> DEFINE way == {l \in Nodes : l \in from[n][p] /\ <<p, l>> \notin loopbacks[n]}
               after == {l \in Nodes : l \in from'[n][p] /\ <<p, l>> \notin loopbacks'[n]}
    <3>1. after = way
      BY <2>4, <2>5, <2>9
    <3>2. \A l \in Nodes : <<p, l>> \in loopbacks'[n] => l \in from'[n][p]
      BY <2>4, <2>5, <2>9 DEF TreeInv
    <3>3. (n # p[1] => \E l \in Nodes : l \in way) /\ \A l, k \in way : l = k /\ n # p[1]
      BY <2>9 DEF TreeInv
    <3>4. (n # p[1] => \E l \in Nodes : l \in after) /\ \A l, k \in after : l = k /\ n # p[1]
      BY <3>1, <3>3
    <3> QED
      BY <2>6, <2>9, <3>2, <3>4
  <2> QED
    BY <1>4, <2>7, <2>8, <2>9
<1>5. ASSUME NEW m \in Nodes, NEW n \in Nodes, NEW p \in Probes,
             FloodNewProbe(m, n, p) \/ ProbeLoopback(m, n, p)
      PROVE  TreeInv'
  BY <1>4, <1>5 DEF FloodNewProbe, ProbeLoopback, RecordLoopback, Virgin
<1> QED
  BY <1>2, <1>3, <1>5 DEF Next, Handle, HandleProbe, HandleMeet, IgnoreProbe, HandleHaveProbes,
    HandleOkayToSendProbes, vars

(* A bijection given by what it does to each member. *)
LEMMA SameSize ==
  ASSUME NEW S, NEW T, IsFiniteSet(S), NEW g \in [S -> T],
         \A x, y \in S : g[x] = g[y] => x = y,
         \A z \in T : \E x \in S : g[x] = z
  PROVE  Cardinality(T) = Cardinality(S)
<1>1. g \in Injection(S, T)
  BY DEF Injection, IsInjective
<1>2. g \in Surjection(S, T)
  BY DEF Surjection
<1> QED
  BY <1>1, <1>2, FS_Surjection

LEMMA CrossingsFinite ==
  ASSUME NEW S \in SUBSET (Nodes \X Nodes)
  PROVE  IsFiniteSet(S)
BY NodesAssumption, FS_Product, FS_Subset

(* The links over which the nodes got to know p are as many as the nodes that got to
   know it, and all others looped back. *)
LEMMA CrossingsCounted ==
  ASSUME TypeOK, KnownInv, TreeInv, NEW p \in Probes, NEW n \in Nodes, p \in known[n]
  PROVE  Cardinality(LoopbacksOf(p)) + Cardinality({x \in Nodes : p \in known[x]})
           = Cardinality({l \in Nodes \X Nodes : l[1] \in from[l[2]][p]}) + 1
<1> DEFINE crossings == {l \in Nodes \X Nodes : l[1] \in from[l[2]][p]}
           back == LoopbacksOf(p)
           first == crossings \ back
           reached == {x \in Nodes : p \in known[x]}
           others == reached \ {p[1]}
<1>1. IsFiniteSet(crossings) /\ IsFiniteSet(back) /\ IsFiniteSet(first)
  BY CrossingsFinite DEF LoopbacksOf
<1>2. back \subseteq crossings
  BY DEF LoopbacksOf, TreeInv
<1>3. Cardinality(crossings) = Cardinality(back) + Cardinality(first)
  <2>1. back \cup first = crossings /\ back \cap first = {}
    BY <1>2
  <2>2. Cardinality(back) \in Nat /\ Cardinality(first) \in Nat
    BY <1>1, FS_CardinalityType
  <2> HIDE DEF crossings, back, first
  <2> QED
    <3>1. Cardinality(back \cup first)
            = Cardinality(back) + Cardinality(first) - Cardinality(back \cap first)
      BY <1>1, FS_Union
    <3>2. Cardinality(back \cap first) = 0
      BY <2>1, FS_EmptySet
    <3>3. Cardinality(back \cup first) = Cardinality(crossings)
      BY <2>1
    <3> QED
      BY <2>2, <3>1, <3>2, <3>3
<1>4. IsFiniteSet(reached) /\ p[1] \in reached
  BY NodesAssumption, IntroductionsAssumption, FS_Subset DEF TreeInv, Probes
<1>5. Cardinality(others) = Cardinality(reached) - 1
  <2> HIDE DEF reached
  <2> QED
    BY <1>4, FS_RemoveElement
<1>6. Cardinality(others) = Cardinality(first)
  <2> DEFINE g == [l \in first |-> l[2]]
  <2> HIDE DEF g
  <2>1. \A m, x \in Nodes :
          <<m, x>> \in first <=> m \in from[x][p] /\ <<p, m>> \notin loopbacks[x]
    BY DEF LoopbacksOf
  <2>2. \A l \in first : l = <<l[1], l[2]>> /\ l[1] \in Nodes /\ l[2] \in Nodes
    OBVIOUS
  <2> HIDE DEF first
  <2>3. \A l \in first : l[2] \in others
    <3>1. \A m, x \in Nodes : m \in from[x][p] /\ <<p, m>> \notin loopbacks[x] => x # p[1]
      BY DEF TreeInv
    <3>2. \A m, x \in Nodes : m \in from[x][p] => p \in known[x]
      BY DEF KnownInv
    <3>3. \A m, x \in Nodes : <<m, x>> \in first => x \in others
      BY <2>1, <3>1, <3>2
    <3> QED
      BY <2>2, <3>3
  <2>4. g \in [first -> others]
    BY <2>3 DEF g
  <2>5. \A l, k \in first : l[2] = k[2] => l[1] = k[1]
    <3>1. \A x, m, k \in Nodes :
            <<m, x>> \in first /\ <<k, x>> \in first => m = k
      <4> SUFFICES ASSUME NEW x \in Nodes, NEW m \in Nodes, NEW k \in Nodes,
                          m \in from[x][p] /\ <<p, m>> \notin loopbacks[x],
                          k \in from[x][p] /\ <<p, k>> \notin loopbacks[x]
                   PROVE  m = k
        BY <2>1
      <4> QED
        BY DEF TreeInv
    <3> QED
      BY <2>2, <3>1
  <2>6. \A l, k \in first : g[l] = g[k] => l = k
    BY <2>2, <2>5 DEF g
  <2>7. \A x \in others : \E m \in Nodes : <<m, x>> \in first
    BY <2>1 DEF TreeInv
  <2>8. \A x \in others : \E l \in first : g[l] = x
    BY <2>7 DEF g
  <2> HIDE DEF others
  <2> QED
    BY <1>1, <2>4, <2>6, <2>8, SameSize
<1>7. Cardinality(back) \in Nat /\ Cardinality(first) \in Nat /\ Cardinality(reached) \in Nat
  BY <1>1, <1>4, FS_CardinalityType
<1> HIDE DEF crossings, back, first, reached, others
<1>8. Cardinality(back) + Cardinality(reached) = Cardinality(crossings) + 1
  BY <1>3, <1>5, <1>6, <1>7
<1> QED
  BY <1>8 DEF crossings, back, reached

(* In a quiet network the links among the nodes that p has reached are those that it has
   crossed, each in one direction. *)
LEMMA LinksCounted ==
  ASSUME TypeOK, SendInv, KnownInv, FloodedWhenQuiet, Quiet, NEW p \in Probes
  PROVE  Cardinality(LinksAmong({x \in Nodes : p \in known[x]}))
           = Cardinality({l \in Nodes \X Nodes : l[1] \in from[l[2]][p]})
<1> DEFINE crossings == {l \in Nodes \X Nodes : l[1] \in from[l[2]][p]}
           reached == {x \in Nodes : p \in known[x]}
           links == LinksAmong(reached)
           g == [l \in crossings |-> {l[1], l[2]}]
<1>1. IsFiniteSet(crossings)
  BY CrossingsFinite
<1>2. \A l \in crossings : l = <<l[1], l[2]>> /\ l[1] \in Nodes /\ l[2] \in Nodes
  OBVIOUS
<1>3. \A m, x \in Nodes : <<m, x>> \in crossings <=> m \in from[x][p]
  OBVIOUS
<1>4. \A m, x \in Nodes : <<m, x>> \in crossings =>
        /\ m \in reached /\ x \in reached
        /\ hand[x][m] # "none"
        /\ <<x, m>> \notin crossings
  BY <1>3 DEF KnownInv, SendInv, NoMidAirCrossing
<1>5. \A x, y \in Nodes : y \in to[x][p] => <<x, y>> \in crossings
  <2>1. \A x, y \in Nodes : ~InTransit(x, y, ProbeMessage(p))
    BY DEF Quiet, InTransit, Range
  <2> QED
    BY <1>3, <2>1 DEF SendInv, SentInv
<1>6. \A x, y \in Nodes : p \in known[x] /\ hand[x][y] # "none" =>
        <<x, y>> \in crossings \/ <<y, x>> \in crossings
  <2>1. \A x, y \in Nodes : p \in known[x] /\ hand[x][y] # "none" => y \in from[x][p] \/ y \in to[x][p]
    BY DEF FloodedWhenQuiet, Friends, Virgin
  <2> QED
    BY <1>3, <1>5, <2>1
<1> HIDE DEF crossings
<1>7. g \in [crossings -> links]
  <2>1. ASSUME NEW l \in crossings
        PROVE  {l[1], l[2]} \in links
    <3>1. l[1] \in reached /\ l[2] \in reached /\ hand[l[2]][l[1]] # "none"
      BY <1>2, <1>4
    <3>2. {l[1], l[2]} = {l[2], l[1]} /\ {l[1], l[2]} \in SUBSET reached
      BY <3>1
    <3> QED
      BY <3>1, <3>2 DEF LinksAmong
  <2> QED
    BY <2>1
<1>8. \A l, k \in crossings : g[l] = g[k] => l = k
  <2> SUFFICES ASSUME NEW l \in crossings, NEW k \in crossings, {l[1], l[2]} = {k[1], k[2]}
               PROVE  l = k
    OBVIOUS
  <2>1. (l[1] = k[1] /\ l[2] = k[2]) \/ (l[1] = k[2] /\ l[2] = k[1])
    OBVIOUS
  <2>2. ~(l[1] = k[2] /\ l[2] = k[1])
    BY <1>2, <1>4
  <2> QED
    BY <1>2, <2>1, <2>2
<1>9. \A link \in links : \E l \in crossings : g[l] = link
  <2> SUFFICES ASSUME NEW link \in links
               PROVE  \E l \in crossings : g[l] = link
    OBVIOUS
  <2>1. PICK x \in reached, y \in reached : hand[x][y] # "none" /\ link = {x, y}
    BY DEF LinksAmong
  <2>2. CASE <<x, y>> \in crossings
    BY <2>1, <2>2
  <2>3. CASE <<y, x>> \in crossings
    BY <2>1, <2>3
  <2> QED
    BY <1>6, <2>1, <2>2, <2>3
<1> HIDE DEF g, links
<1>10. Cardinality(links) = Cardinality(crossings)
  BY <1>1, <1>7, <1>8, <1>9, SameSize
<1> QED
  BY <1>10 DEF links, crossings

(* Between nodes introduced from one side, no loop is missed: once no message is under
   way a probe has looped back once for every link that is not needed to connect the
   nodes that it has reached. *)
THEOREM EveryLoopFoundCorrect ==
  ASSUME OneSided
  PROVE  Spec => []EveryLoopFound
<1>1. Init => SendInv /\ TreeInv
  BY SendInit, TreeInit
<1>2. TypeOK /\ LinkInv /\ SendInv /\ [Next]_vars => SendInv'
  BY SendStep
<1>3. TypeOK /\ MetInv /\ KnownInv /\ TreeInv /\ [Next]_vars => TreeInv'
  BY TreeStep
<1>4. TypeOK /\ SendInv /\ KnownInv /\ TreeInv /\ FloodedWhenQuiet => EveryLoopFound
  <2> SUFFICES ASSUME TypeOK, SendInv, KnownInv, TreeInv, FloodedWhenQuiet, Quiet,
                      NEW p \in Probes, NEW n \in Nodes, p \in known[n]
               PROVE  Cardinality(LoopbacksOf(p)) + Cardinality({x \in Nodes : p \in known[x]})
                        = Cardinality(LinksAmong({x \in Nodes : p \in known[x]})) + 1
    BY DEF EveryLoopFound
  <2> QED
    BY CrossingsCounted, LinksCounted
<1>5. QED
  BY <1>1, <1>2, <1>3, <1>4, TypeCorrect, LinksCorrect, MetCorrect, KnownCorrect,
     FloodedWhenQuietCorrect, PTL DEF Spec

-----------------------------------------------------------------------------
(***************************************************************************)
(* The probes engines implement ProbeFlood, for every set of nodes that    *)
(* are introduced from one side.                                           *)
(***************************************************************************)
(* Two nodes are friends only if they were introduced: the one that was told to meet the
   other made the first step. *)
Acquainted(x, y) ==
  \/ <<x, y>> \in Introductions
  \/ <<y, x>> \in Introductions /\ hand[y][x] # "none"

MadeInv == \A x, y \in Nodes : hand[x][y] # "none" => Acquainted(x, y)

LEMMA MadeInit == Init => MadeInv
BY DEF Init, MadeInv

-----------------------------------------------------------------------------
(***************************************************************************)
(* What the steps do to the links.                                         *)
(***************************************************************************)

(* Who has whom for a friend. *)
Befriends(n, f) ==
  \A x, y \in Nodes : hand'[x][y] # "none" <=> hand[x][y] # "none" \/ (x = n /\ y = f)

(* The same as before. *)
SameFriends == \A x, y \in Nodes : hand'[x][y] # "none" <=> hand[x][y] # "none"

(* QueueProbes makes no friends of its own. *)
LEMMA QueueingFriends ==
  ASSUME TypeOK, NEW n \in Nodes, NEW status \in Statuses, NEW queued \in Queues,
         NEW net \in Networks, QueueProbes(n, status, queued, net)
  PROVE  \A x, y \in Nodes :
           hand'[x][y] # "none" <=> IF x = n THEN status[y] # "none" ELSE hand[x][y] # "none"
<1>1. /\ \A f \in Nodes : hand'[n][f] = IF Raises(status, queued, f) THEN "waiting" ELSE status[f]
      /\ \A x \in Nodes \ {n} : hand'[x] = hand[x]
  BY QueueFacts
<1>2. \A f \in Nodes : Raises(status, queued, f) => status[f] = "listening"
  BY DEF Raises
<1> QED
  BY <1>1, <1>2

(* Meeting makes one. *)
LEMMA MeetFriends ==
  ASSUME TypeOK, NEW a \in Nodes, NEW b \in Nodes, Meet(a, b)
  PROVE  Befriends(a, b)
<1> DEFINE status == [hand[a] EXCEPT ![b] = "talking"]
           queued == [f \in Nodes |-> IF f = b THEN known[a] \cup {<<a, b>>}
                                      ELSE IF f \in Friends(a) THEN {<<a, b>>} ELSE {}]
           net == Sent(network, a, b, <<MeetMessage>>)
<1>1. <<a, b>> \in Introductions /\ QueueProbes(a, status, queued, net)
  BY DEF Meet
<1>2. status \in Statuses /\ queued \in Queues /\ net \in Networks
  BY <1>1, MeetArguments
<1>3. \A f \in Nodes : status[f] # "none" <=> hand[a][f] # "none" \/ f = b
  BY DEF TypeOK, Statuses
<1> HIDE DEF status, queued, net
<1> QED
  BY <1>1, <1>2, <1>3, QueueingFriends DEF Befriends

(* 'meet' makes one. *)
LEMMA HandleMeetFriends ==
  ASSUME TypeOK, LinkInv, NEW m \in Nodes, NEW n \in Nodes, HandleMeet(m, n)
  PROVE  Befriends(n, m)
<1> DEFINE status == [hand[n] EXCEPT ![m] = "listening"]
           queued == [f \in Nodes |-> IF f = m THEN known[n] ELSE {}]
           net == Taken(m, n)
<1>1. Arrives(m, n, MeetMessage) /\ QueueProbes(n, status, queued, net)
  BY DEF HandleMeet
<1>2. status \in Statuses /\ queued \in Queues /\ net \in Networks
  BY <1>1, HandleMeetArguments, ArrivalFacts
<1>3. \A f \in Nodes : status[f] # "none" <=> hand[n][f] # "none" \/ f = m
  BY DEF TypeOK, Statuses
<1> HIDE DEF status, queued, net
<1> QED
  BY <1>1, <1>2, <1>3, QueueingFriends DEF Befriends

(* A new probe makes none. *)
LEMMA FloodFriends ==
  ASSUME TypeOK, LinkInv, NEW m \in Nodes, NEW n \in Nodes, NEW p \in Probes,
         FloodNewProbe(m, n, p)
  PROVE  SameFriends
<1> DEFINE queued == [f \in Nodes |-> IF f \in Friends(n) \ {m} THEN {p} ELSE {}]
<1>1. Arrives(m, n, ProbeMessage(p)) /\ QueueProbes(n, hand[n], queued, Taken(m, n))
  BY DEF FloodNewProbe
<1>2. hand[n] \in Statuses /\ queued \in Queues /\ Taken(m, n) \in Networks
  BY <1>1, FloodArguments, ArrivalFacts
<1> HIDE DEF queued
<1> QED
  BY <1>1, <1>2, QueueingFriends DEF SameFriends

(* Nor does a raised hand, since it is raised by a friend. *)
LEMMA HandsFriends ==
  ASSUME TypeOK, LinkInv, NEW m \in Nodes, NEW n \in Nodes,
         HandleHaveProbes(m, n) \/ HandleOkayToSendProbes(m, n)
  PROVE  SameFriends
<1>1. CASE HandleHaveProbes(m, n)
  <2>1. Arrives(m, n, HaveProbes) /\ hand' = [hand EXCEPT ![n][m] = "listening"]
    BY <1>1 DEF HandleHaveProbes
  <2>2. hand[n][m] = "talking"
    BY <2>1, ArrivalFacts, HaveArrives DEF Talking
  <2> QED
    BY <2>1, <2>2 DEF SameFriends, TypeOK, Statuses
<1>2. CASE HandleOkayToSendProbes(m, n)
  <2>1. Arrives(m, n, OkayToSendProbes) /\ hand' = [hand EXCEPT ![n][m] = "talking"]
    BY <1>2 DEF HandleOkayToSendProbes
  <2>2. hand[n][m] = "waiting"
    BY <2>1, ArrivalFacts, OkayArrives
  <2> QED
    BY <2>1, <2>2 DEF SameFriends, TypeOK, Statuses
<1> QED
  BY <1>1, <1>2

(* The links are those of the friends. *)
LEMMA LinksStay ==
  ASSUME SameFriends
  PROVE  LinksMade' = LinksMade
BY IntroductionsAssumption DEF SameFriends, LinksMade

LEMMA LinkedMeansMade ==
  ASSUME MadeInv, NEW x \in Nodes, NEW y \in Nodes, hand[x][y] # "none"
  PROVE  Flood!Linked(x, y)
BY DEF MadeInv, Acquainted, Flood!Linked, LinksMade

-----------------------------------------------------------------------------
(***************************************************************************)
(* The steps.                                                              *)
(***************************************************************************)
LEMMA FloodInit == Init => Flood!Init
<1> SUFFICES ASSUME Init
             PROVE  Flood!Init
  OBVIOUS
<1>1. /\ hand = [n \in Nodes |-> [f \in Nodes |-> "none"]]
      /\ known = [n \in Nodes |-> {}]
      /\ from = [n \in Nodes |-> [p \in Probes |-> {}]]
  BY DEF Init
<1>2. LinksMade = {}
  BY <1>1, IntroductionsAssumption DEF LinksMade
<1>3. Crossed = [p \in Probes |-> {}]
  <2>1. \A p \in Probes : {l \in Nodes \X Nodes : l[1] \in from[l[2]][p]} = {}
    BY <1>1
  <2> QED
    BY <2>1 DEF Crossed
<1>4. Flood!Probes = Probes
  BY DEF Flood!Probes, Probes
<1> QED
  BY <1>1, <1>2, <1>3, <1>4 DEF Flood!Init

(* A probe that is recorded has crossed a link. *)
LEMMA RecordingCrosses ==
  ASSUME TypeOK, NEW m \in Nodes, NEW n \in Nodes, NEW p \in Probes,
         from' = [from EXCEPT ![n][p] = from[n][p] \cup {m}]
  PROVE  Crossed' = [Crossed EXCEPT ![p] = @ \cup {<<m, n>>}]
<1>1. \A y \in Nodes, q \in Probes :
        from'[y][q] = IF y = n /\ q = p THEN from[y][q] \cup {m} ELSE from[y][q]
  BY DEF TypeOK, Records
<1>2. \A q \in Probes : Crossed'[q] = IF q = p THEN Crossed[q] \cup {<<m, n>>} ELSE Crossed[q]
  BY <1>1 DEF Crossed
<1> QED
  BY <1>2 DEF Crossed

(* A probe that is recorded crosses a link that it has not crossed before. *)
LEMMA CrossStep ==
  ASSUME TypeOK, LinkInv, KnownInv, MadeInv, NEW m \in Nodes, NEW n \in Nodes, NEW p \in Probes,
         Arrives(m, n, ProbeMessage(p)), m \notin from[n][p], n \notin from[m][p],
         from' = [from EXCEPT ![n][p] = from[n][p] \cup {m}],
         known' = [known EXCEPT ![n] = known[n] \cup {p}],
         SameFriends
  PROVE  Flood!Cross(m, n, p)
<1>1. p \in known[m] /\ hand[n][m] # "none"
  BY MetFromLinks, ArrivedProbe
<1>2. Flood!Linked(n, m)
  BY <1>1, LinkedMeansMade
<1>3. Flood!Linked(m, n)
  BY <1>2 DEF Flood!Linked
<1>4. <<m, n>> \notin Crossed[p] /\ <<n, m>> \notin Crossed[p]
  BY DEF Crossed
<1>5. LinksMade' = LinksMade
  BY LinksStay
<1>6. Crossed' = [Crossed EXCEPT ![p] = @ \cup {<<m, n>>}]
  BY RecordingCrosses
<1> QED
  BY <1>1, <1>3, <1>4, <1>5, <1>6 DEF Flood!Cross

(* A meeting makes a link. *)
LEMMA IntroduceStep ==
  ASSUME OneSided, TypeOK, NEW a \in Nodes, NEW b \in Nodes, Meet(a, b)
  PROVE  Flood!Introduce(a, b)
<1>1. /\ <<a, b>> \in Introductions /\ hand[a][b] = "none"
      /\ known' = [known EXCEPT ![a] = known[a] \cup {<<a, b>>}] /\ from' = from
  BY DEF Meet
<1>2. <<b, a>> \notin Introductions
  BY <1>1 DEF OneSided
<1>3. ~Flood!Linked(a, b)
  BY <1>1, <1>2 DEF Flood!Linked, LinksMade
<1>4. LinksMade' = LinksMade \cup {<<a, b>>}
  <2>1. \A l \in Introductions : hand'[l[1]][l[2]] # "none" <=> hand[l[1]][l[2]] # "none" \/ l = <<a, b>>
    BY MeetFriends, IntroductionsAssumption DEF Befriends
  <2> QED
    BY <1>1, <2>1 DEF LinksMade
<1>5. Crossed' = Crossed
  BY <1>1 DEF Crossed
<1> QED
  BY <1>1, <1>3, <1>4, <1>5 DEF Flood!Introduce

(* The second party's 'meet' makes no other. *)
LEMMA SecondPartyStep ==
  ASSUME OneSided, TypeOK, LinkInv, NEW m \in Nodes, NEW n \in Nodes, HandleMeet(m, n)
  PROVE  UNCHANGED Flood!vars /\ Befriends(n, m) /\ <<m, n>> \in Introductions /\ hand[m][n] # "none"
<1>1. Arrives(m, n, MeetMessage) /\ known' = known /\ from' = from
  BY DEF HandleMeet
<1>2. Meeting(m, n)
  BY <1>1, ArrivalFacts, MeetArrives
<1>3. <<m, n>> \in Introductions /\ hand[m][n] # "none" /\ <<n, m>> \notin Introductions
  BY <1>2 DEF Meeting, OneSided
<1>4. Befriends(n, m)
  BY HandleMeetFriends
<1>5. LinksMade' = LinksMade
  BY <1>3, <1>4, IntroductionsAssumption DEF LinksMade, Befriends
<1>6. Crossed' = Crossed
  BY <1>1 DEF Crossed
<1> QED
  BY <1>1, <1>3, <1>4, <1>5, <1>6 DEF Flood!vars

(* What MadeInv says stays so. *)
LEMMA MadeStays ==
  ASSUME MadeInv, NEW n \in Nodes, NEW f \in Nodes,
         SameFriends \/ (Befriends(n, f) /\ Acquainted(n, f))
  PROVE  MadeInv'
BY DEF MadeInv, Acquainted, SameFriends, Befriends

(* Every step is one of the flood, or none. *)
LEMMA FloodStep ==
  ASSUME OneSided, TypeOK, LinkInv, KnownInv, MadeInv, [Next]_vars
  PROVE  MadeInv' /\ [Flood!Next]_(Flood!vars)
<1>1. CASE UNCHANGED vars
  BY <1>1 DEF vars, MadeInv, Acquainted, Flood!vars, LinksMade, Crossed
<1>2. ASSUME NEW a \in Nodes, NEW b \in Nodes, Meet(a, b)
      PROVE  MadeInv' /\ Flood!Next
  <2>1. Befriends(a, b) /\ Acquainted(a, b)
    BY <1>2, MeetFriends DEF Meet, Acquainted
  <2> QED
    BY <1>2, <2>1, MadeStays, IntroduceStep DEF Flood!Next
<1>3. ASSUME NEW m \in Nodes, NEW n \in Nodes, HandleMeet(m, n)
      PROVE  MadeInv' /\ UNCHANGED Flood!vars
  <2>1. UNCHANGED Flood!vars /\ Befriends(n, m) /\ Acquainted(n, m)
    BY <1>3, SecondPartyStep DEF Acquainted
  <2> QED
    BY <2>1, MadeStays
<1>4. ASSUME NEW m \in Nodes, NEW n \in Nodes, NEW p \in Probes, FloodNewProbe(m, n, p)
      PROVE  MadeInv' /\ Flood!Next
  <2>1. /\ Arrives(m, n, ProbeMessage(p)) /\ p \notin known[n]
        /\ known' = [known EXCEPT ![n] = known[n] \cup {p}]
        /\ from' = [from EXCEPT ![n][p] = from[n][p] \cup {m}]
    BY <1>4 DEF FloodNewProbe
  <2>2. m \notin from[n][p] /\ n \notin from[m][p]
    BY <2>1 DEF KnownInv
  <2>3. SameFriends
    BY <1>4, FloodFriends
  <2>4. Flood!Cross(m, n, p)
    BY <2>1, <2>2, <2>3, CrossStep
  <2> QED
    BY <2>3, <2>4, MadeStays DEF Flood!Next, Flood!Probes, Probes
<1>5. ASSUME NEW m \in Nodes, NEW n \in Nodes, NEW p \in Probes, ProbeLoopback(m, n, p)
      PROVE  MadeInv' /\ Flood!Next
  <2>1. /\ Arrives(m, n, ProbeMessage(p)) /\ p \in known[n]
        /\ m \notin from[n][p] /\ m \notin to[n][p]
        /\ from' = [from EXCEPT ![n][p] = from[n][p] \cup {m}]
        /\ known' = known /\ hand' = hand
    BY <1>5 DEF ProbeLoopback, RecordLoopback, Virgin
  <2>2. n \notin from[m][p]
    BY <2>1 DEF KnownInv
  <2>3. known' = [known EXCEPT ![n] = known[n] \cup {p}]
    BY <2>1 DEF TypeOK
  <2>4. SameFriends
    BY <2>1 DEF SameFriends
  <2>5. Flood!Cross(m, n, p)
    BY <2>1, <2>2, <2>3, <2>4, CrossStep
  <2> QED
    BY <2>4, <2>5, MadeStays DEF Flood!Next, Flood!Probes, Probes
<1>6. ASSUME NEW m \in Nodes, NEW n \in Nodes,
             \/ \E p \in Probes : IgnoreProbe(m, n, p)
             \/ HandleHaveProbes(m, n) \/ HandleOkayToSendProbes(m, n)
      PROVE  MadeInv' /\ UNCHANGED Flood!vars
  <2>1. known' = known /\ from' = from
    BY <1>6 DEF IgnoreProbe, HandleHaveProbes, HandleOkayToSendProbes
  <2>2. SameFriends
    BY <1>6, HandsFriends DEF IgnoreProbe, SameFriends
  <2>3. Crossed' = Crossed
    BY <2>1 DEF Crossed
  <2> QED
    BY <2>1, <2>2, <2>3, LinksStay, MadeStays DEF Flood!vars
<1> QED
  BY <1>1, <1>2, <1>3, <1>4, <1>5, <1>6 DEF Next, Handle, HandleProbe

-----------------------------------------------------------------------------
(* Between nodes introduced from one side the engines behave as ProbeFlood allows: a
   probe crosses a link only from a node that knows it, and each link once, in one of the
   two directions, whatever the semaphore and the queues are at. *)
THEOREM ImplementsFloodSteps ==
  ASSUME OneSided
  PROVE  Spec => Flood!Spec
<1>1. Init => MadeInv /\ Flood!Init
  BY MadeInit, FloodInit
<1>2. TypeOK /\ LinkInv /\ KnownInv /\ MadeInv /\ [Next]_vars
        => MadeInv' /\ [Flood!Next]_(Flood!vars)
  BY FloodStep
<1> QED
  BY <1>1, <1>2, TypeCorrect, LinksCorrect, KnownCorrect, PTL DEF Spec, Flood!Spec

=============================================================================
