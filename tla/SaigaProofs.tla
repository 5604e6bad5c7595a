----------------------------- MODULE SaigaProofs -----------------------------
(***************************************************************************)
(* What is proved of the engines holds of the nodes: without the messages  *)
(* about balances, the network of Saiga behaves as LoopsEngine allows.     *)
(***************************************************************************)
EXTENDS Saiga, MessageFilterProofs, FiniteSetTheorems

(* The other engines do not notice the balances. *)
Underneath == INSTANCE LoopsEngineProofs WITH network <- Filtered(network, {"set-balance"})

(* What LoopsEngine assumes. *)
Small == IsFiniteSet(Nodes) /\ Introductions \subseteq Nodes \X Nodes

Seen(net) == Filtered(net, {"set-balance"})

(* The messages of a node. *)
SetBalances == {SetBalanceMessage(amount) : amount \in Balances}

Cable == Underneath!Wire \cup SetBalances

Cabled(net) == net \in NetworksOf(Nodes, Cable)

(* So they hold underneath. *)
LEMMA SmallUnderneath ==
  ASSUME Small
  PROVE  Underneath!NetworkAssumption
BY DEF Small, Underneath!NetworkAssumption, Underneath!IsFiniteSet, IsFiniteSet

-----------------------------------------------------------------------------
(***************************************************************************)
(* Messages.                                                               *)
(***************************************************************************)
(* They are told apart by their types. *)
LEMMA CableFacts ==
  /\ \A message \in Underneath!Wire : message.type # "set-balance"
  /\ \A amount : SetBalanceMessage(amount).type = "set-balance"
                 /\ SetBalanceMessage(amount).amount = amount
<1>1. \A message \in Underneath!Tracing!Probing!Messages : message.type # "set-balance"
  BY DEF Underneath!Tracing!Probing!Messages, Underneath!Tracing!Probing!MeetMessage,
    Underneath!Tracing!Probing!HaveProbes, Underneath!Tracing!Probing!OkayToSendProbes,
    Underneath!Tracing!Probing!ProbeMessage
<1>2. \A message \in Underneath!Tracing!TraceMessages : message.type # "set-balance"
  BY DEF Underneath!Tracing!TraceMessages, Underneath!Tracing!TraceMessage
<1>3. \A message \in Underneath!Proposals \cup Underneath!Commits : message.type # "set-balance"
  BY DEF Underneath!Proposals, Underneath!Commits, Underneath!Propose, Underneath!Commit
<1>4. \A amount : SetBalanceMessage(amount).type = "set-balance"
                 /\ SetBalanceMessage(amount).amount = amount
  BY DEF SetBalanceMessage
<1> QED
  BY <1>1, <1>2, <1>3, <1>4 DEF Underneath!Wire, Underneath!Plain

(* The messages of the probes engine are the same for all. *)
LEMMA SameSignals ==
  /\ Underneath!Tracing!Probing!MeetMessage = Loops!Tracing!Probing!MeetMessage
  /\ Underneath!Tracing!Probing!HaveProbes = Loops!Tracing!Probing!HaveProbes
  /\ Underneath!Tracing!Probing!OkayToSendProbes = Loops!Tracing!Probing!OkayToSendProbes
  /\ \A p : Underneath!Tracing!Probing!ProbeMessage(p) = Loops!Tracing!Probing!ProbeMessage(p)
  /\ \A S : Underneath!Tracing!Probing!Burst(S) = Loops!Tracing!Probing!Burst(S)
<1>1. /\ Underneath!Tracing!Probing!MeetMessage = Loops!Tracing!Probing!MeetMessage
      /\ Underneath!Tracing!Probing!HaveProbes = Loops!Tracing!Probing!HaveProbes
      /\ Underneath!Tracing!Probing!OkayToSendProbes = Loops!Tracing!Probing!OkayToSendProbes
      /\ \A p : Underneath!Tracing!Probing!ProbeMessage(p) = Loops!Tracing!Probing!ProbeMessage(p)
  BY DEF Underneath!Tracing!Probing!MeetMessage, Underneath!Tracing!Probing!HaveProbes,
    Underneath!Tracing!Probing!OkayToSendProbes, Underneath!Tracing!Probing!ProbeMessage,
    Loops!Tracing!Probing!MeetMessage, Loops!Tracing!Probing!HaveProbes,
    Loops!Tracing!Probing!OkayToSendProbes, Loops!Tracing!Probing!ProbeMessage
<1>2. \A S : Underneath!Tracing!Probing!Cardinality(S) = Loops!Tracing!Probing!Cardinality(S)
  BY DEF Underneath!Tracing!Probing!Cardinality, Loops!Tracing!Probing!Cardinality
<1>3. ASSUME NEW S
      PROVE  Underneath!Tracing!Probing!AnOrder(S) = Loops!Tracing!Probing!AnOrder(S)
  BY <1>2 DEF Underneath!Tracing!Probing!AnOrder, Loops!Tracing!Probing!AnOrder,
    Underneath!Tracing!Probing!Orders, Loops!Tracing!Probing!Orders,
    Underneath!Tracing!Probing!Injection, Loops!Tracing!Probing!Injection,
    Underneath!Tracing!Probing!IsInjective, Loops!Tracing!Probing!IsInjective
<1>4. ASSUME NEW S
      PROVE  Underneath!Tracing!Probing!Burst(S) = Loops!Tracing!Probing!Burst(S)
  BY <1>1, <1>2, <1>3 DEF Underneath!Tracing!Probing!Burst, Loops!Tracing!Probing!Burst
<1> QED
  BY <1>1, <1>4

(* So is what the engines above send and look up. *)
LEMMA SameTraces ==
  /\ \A t, leg : Underneath!Tracing!TraceMessage(t, leg) = Loops!Tracing!TraceMessage(t, leg)
  /\ Underneath!Tracing!TraceMessages = Loops!Tracing!TraceMessages
  /\ \A h : Underneath!Propose(h) = Loops!Propose(h)
  /\ \A h, secret : Underneath!Commit(h, secret) = Loops!Commit(h, secret)
<1>1. /\ \A t, leg : Underneath!Tracing!TraceMessage(t, leg) = Loops!Tracing!TraceMessage(t, leg)
      /\ \A h : Underneath!Propose(h) = Loops!Propose(h)
      /\ \A h, secret : Underneath!Commit(h, secret) = Loops!Commit(h, secret)
  BY DEF Underneath!Tracing!TraceMessage, Loops!Tracing!TraceMessage, Underneath!Propose,
    Loops!Propose, Underneath!Commit, Loops!Commit
<1>2. Underneath!Tracing!TraceMessages = Loops!Tracing!TraceMessages
  BY <1>1 DEF Underneath!Tracing!TraceMessages, Loops!Tracing!TraceMessages,
    Underneath!Tracing!Traces, Loops!Tracing!Traces
<1> QED
  BY <1>1, <1>2

-----------------------------------------------------------------------------
(***************************************************************************)
(* Taking and sending.                                                     *)
(***************************************************************************)
(* A message of the engines is taken. *)
LEMMA SeenTaken ==
  ASSUME Cabled(network), NEW m \in Nodes, NEW n \in Nodes, network[m][n] # <<>>,
         Head(network[m][n]).type # "set-balance"
  PROVE  /\ Seen(network)[m][n] # <<>> /\ Head(Seen(network)[m][n]) = Head(network[m][n])
         /\ Cabled(Loops!Tracing!Probing!Taken(m, n))
         /\ Seen(Loops!Tracing!Probing!Taken(m, n)) = Underneath!Tracing!Probing!Taken(m, n)
<1> DEFINE types == {"set-balance"}
<1>1. network \in NetworksOf(Nodes, Cable) /\ Head(network[m][n]).type \notin types
  BY DEF Cabled
<1>2. /\ FirstTaken(network, m, n) \in NetworksOf(Nodes, Cable)
      /\ Filtered(network, types)[m][n] # <<>>
      /\ Head(Filtered(network, types)[m][n]) = Head(network[m][n])
      /\ Filtered(FirstTaken(network, m, n), types) = FirstTaken(Filtered(network, types), m, n)
  <2> HIDE DEF types
  <2> QED
    BY <1>1, FilteredTaken
<1>3. /\ Loops!Tracing!Probing!Taken(m, n) = FirstTaken(network, m, n)
      /\ Underneath!Tracing!Probing!Taken(m, n) = FirstTaken(Seen(network), m, n)
  BY DEF Loops!Tracing!Probing!Taken, Underneath!Tracing!Probing!Taken, FirstTaken, Seen
<1> QED
  BY <1>2, <1>3 DEF Cabled, Seen

(* One about balances is. *)
LEMMA SeenBalance ==
  ASSUME Cabled(network), NEW m \in Nodes, NEW n \in Nodes, network[m][n] # <<>>,
         Head(network[m][n]).type = "set-balance"
  PROVE  /\ Cabled(Loops!Probing!Taken(m, n))
         /\ Seen(Loops!Probing!Taken(m, n)) = Seen(network)
<1> DEFINE types == {"set-balance"}
<1>1. network \in NetworksOf(Nodes, Cable) /\ Head(network[m][n]).type \in types
  BY DEF Cabled
<1>2. /\ FirstTaken(network, m, n) \in NetworksOf(Nodes, Cable)
      /\ Filtered(FirstTaken(network, m, n), types) = Filtered(network, types)
  <2> HIDE DEF types
  <2> QED
    BY <1>1, FilteredTaken
<1>3. Loops!Probing!Taken(m, n) = FirstTaken(network, m, n)
  BY DEF Loops!Probing!Taken, FirstTaken
<1> QED
  BY <1>2, <1>3 DEF Cabled, Seen

(* The engines send. *)
LEMMA SeenSending ==
  ASSUME NEW net, Cabled(net), NEW n \in Nodes, NEW more \in SendingsOf(Nodes, Underneath!Wire)
  PROVE  /\ Cabled(MoreSent(Nodes, net, n, more))
         /\ Seen(MoreSent(Nodes, net, n, more)) = MoreSent(Nodes, Seen(net), n, more)
<1> DEFINE types == {"set-balance"}
<1>1. \A f \in Nodes : more[f] \in Seq(Underneath!Wire)
  BY DEF SendingsOf
<1>2. \A f \in Nodes : Without(more[f], types) = more[f]
  BY <1>1, CableFacts, WithoutNone
<1>3. more \in SendingsOf(Nodes, Cable)
  BY DEF SendingsOf, Cable
<1>4. net \in NetworksOf(Nodes, Cable)
  BY DEF Cabled
<1>5. /\ MoreSent(Nodes, net, n, more) \in NetworksOf(Nodes, Cable)
      /\ Filtered(MoreSent(Nodes, net, n, more), types) = MoreSent(Nodes, Filtered(net, types), n, more)
  <2> HIDE DEF types
  <2> QED
    BY <1>2, <1>3, <1>4, FilteredSent
<1> QED
  BY <1>5 DEF Cabled, Seen

(* What is seen of a network is one. *)
LEMMA SeenCabled ==
  ASSUME NEW net, Cabled(net)
  PROVE  Cabled(Seen(net))
BY FilteredKept DEF Cabled, NetworksOf, Seen

(* The same for one receiver. *)
LEMMA SeenSent ==
  ASSUME NEW net, Cabled(net), NEW n \in Nodes, NEW f \in Nodes,
         NEW messages \in Seq(Underneath!Wire)
  PROVE  /\ Cabled(Loops!Tracing!Probing!Sent(net, n, f, messages))
         /\ Seen(Loops!Tracing!Probing!Sent(net, n, f, messages))
              = Underneath!Tracing!Probing!Sent(Seen(net), n, f, messages)
<1> DEFINE more == [g \in Nodes |-> IF g = f THEN messages ELSE <<>>]
<1>1. more \in SendingsOf(Nodes, Underneath!Wire)
  BY DEF SendingsOf
<1>2. /\ Cabled(MoreSent(Nodes, net, n, more))
      /\ Seen(MoreSent(Nodes, net, n, more)) = MoreSent(Nodes, Seen(net), n, more)
  <2> HIDE DEF more
  <2> QED
    BY <1>1, SeenSending
<1>3. ASSUME NEW any, Cabled(any)
      PROVE  MoreSent(Nodes, any, n, more) = [any EXCEPT ![n][f] = @ \o messages]
  <2>0. any \in [Nodes -> [Nodes -> Seq(Cable)]]
    BY <1>3 DEF Cabled, NetworksOf
  <2>1. any[n] \in [Nodes -> Seq(Cable)]
    BY <2>0
  <2>2. \A g \in Nodes : any[n][g] \o <<>> = any[n][g]
    BY <2>1
  <2>3. [g \in Nodes |-> any[n][g] \o more[g]] = [any[n] EXCEPT ![f] = @ \o messages]
    BY <2>1, <2>2
  <2> QED
    BY <2>0, <2>3 DEF MoreSent
<1>4. Cabled(Seen(net))
  BY SeenCabled
<1> QED
  BY <1>2, <1>3, <1>4 DEF Loops!Tracing!Probing!Sent, Underneath!Tracing!Probing!Sent

(* The same for one message to each of some receivers. *)
LEMMA SeenBroadcast ==
  ASSUME NEW net, Cabled(net), NEW n \in Nodes, NEW messages,
         \A f \in DOMAIN messages \cap Nodes : messages[f] \in Underneath!Wire
  PROVE  /\ Cabled(Loops!Tracing!Broadcast(net, n, messages))
         /\ Seen(Loops!Tracing!Broadcast(net, n, messages))
              = Underneath!Tracing!Broadcast(Seen(net), n, messages)
<1> DEFINE more == [f \in Nodes |-> IF f \in DOMAIN messages THEN <<messages[f]>> ELSE <<>>]
<1>1. more \in SendingsOf(Nodes, Underneath!Wire)
  <2>1. \A f \in Nodes : (IF f \in DOMAIN messages THEN <<messages[f]>> ELSE <<>>)
                           \in Seq(Underneath!Wire)
    OBVIOUS
  <2> QED
    BY <2>1 DEF SendingsOf
<1>2. /\ Cabled(MoreSent(Nodes, net, n, more))
      /\ Seen(MoreSent(Nodes, net, n, more)) = MoreSent(Nodes, Seen(net), n, more)
  <2> HIDE DEF more
  <2> QED
    BY <1>1, SeenSending
<1>3. ASSUME NEW any, Cabled(any)
      PROVE  MoreSent(Nodes, any, n, more) =
               [any EXCEPT ![n] = [f \in Nodes |->
                  IF f \in DOMAIN messages THEN Append(@[f], messages[f]) ELSE @[f]]]
  <2>0. any \in [Nodes -> [Nodes -> Seq(Cable)]]
    BY <1>3 DEF Cabled, NetworksOf
  <2>1. ASSUME NEW f \in Nodes
        PROVE  (IF f \in DOMAIN messages THEN Append(any[n][f], messages[f]) ELSE any[n][f])
                 = any[n][f] \o more[f]
    <3>1. any[n][f] \in Seq(Cable)
      BY <2>0
    <3>2. CASE f \in DOMAIN messages
      <4>1. messages[f] \in Cable
        BY <3>2 DEF Cable
      <4> QED
        BY <3>1, <3>2, <4>1
    <3>3. CASE f \notin DOMAIN messages
      BY <3>1, <3>3
    <3> QED
      BY <3>2, <3>3
  <2>2. [f \in Nodes |-> IF f \in DOMAIN messages THEN Append(any[n][f], messages[f]) ELSE any[n][f]]
          = [f \in Nodes |-> any[n][f] \o more[f]]
    BY <2>1
  <2> QED
    BY <2>2 DEF MoreSent
<1>4. Cabled(Seen(net))
  BY SeenCabled
<1>5. Loops!Tracing!Broadcast(net, n, messages) = MoreSent(Nodes, net, n, more)
  BY <1>3 DEF Loops!Tracing!Broadcast
<1>6. Underneath!Tracing!Broadcast(Seen(net), n, messages) = MoreSent(Nodes, Seen(net), n, more)
  BY <1>3, <1>4 DEF Underneath!Tracing!Broadcast
<1> QED
  BY <1>2, <1>5, <1>6

(* A node chooses the same probes for a friend. *)
LEMMA SameVirgin ==
  \A n, f, S : Underneath!Tracing!Probing!Virgin(n, f, S) = Loops!Tracing!Probing!Virgin(n, f, S)
BY DEF Underneath!Tracing!Probing!Virgin, Loops!Tracing!Probing!Virgin

(* The probes engine queues probes. *)
LEMMA SeenQueueing ==
  ASSUME Small, NEW n \in Nodes, NEW status, NEW net, Cabled(net),
         NEW queued \in [Nodes -> SUBSET Introductions],
         offer \in [Nodes -> [Nodes -> SUBSET Introductions]],
         Loops!Tracing!Probing!QueueProbes(n, status, queued, net)
  PROVE  /\ Cabled(network')
         /\ \A shown : shown = Seen(net) =>
              Underneath!Tracing!Probing!QueueProbes(n, status, queued, shown)
<1> DEFINE more == [f \in Nodes |-> Loops!Tracing!Probing!Queued(n, status, queued, f)]
<1>1. \A f \in Nodes :
        /\ Underneath!Tracing!Probing!Flushed(n, status, queued, f)
             = Loops!Tracing!Probing!Flushed(n, status, queued, f)
        /\ Underneath!Tracing!Probing!Raises(status, queued, f)
             = Loops!Tracing!Probing!Raises(status, queued, f)
  BY SameVirgin DEF Underneath!Tracing!Probing!Flushed, Loops!Tracing!Probing!Flushed,
    Underneath!Tracing!Probing!Raises, Loops!Tracing!Probing!Raises
<1>2. ASSUME NEW f \in Nodes
      PROVE  /\ Loops!Tracing!Probing!Queued(n, status, queued, f) \in Seq(Underneath!Wire)
             /\ Underneath!Tracing!Probing!Queued(n, status, queued, f)
                  = Loops!Tracing!Probing!Queued(n, status, queued, f)
  <2> DEFINE S == Loops!Tracing!Probing!Flushed(n, status, queued, f)
  <2>1. S \in SUBSET Introductions
    BY DEF Loops!Tracing!Probing!Flushed, Loops!Tracing!Probing!Virgin
  <2> HIDE DEF S
  <2>2. Underneath!Tracing!Probing!Burst(S) \in Seq(Underneath!Plain)
    BY <2>1, Underneath!BurstPlain, SmallUnderneath
  <2>3. Loops!Tracing!Probing!Burst(S) \in Seq(Underneath!Wire)
    BY <2>2, SameSignals DEF Underneath!Wire
  <2>4. Loops!Tracing!Probing!HaveProbes \in Underneath!Wire
    BY SameSignals DEF Underneath!Wire, Underneath!Plain, Underneath!Tracing!Probing!Messages
  <2>5. (IF Loops!Tracing!Probing!Raises(status, queued, f)
         THEN <<Loops!Tracing!Probing!HaveProbes>> ELSE <<>>) \in Seq(Underneath!Wire)
    BY <2>4
  <2>6. Loops!Tracing!Probing!Queued(n, status, queued, f) \in Seq(Underneath!Wire)
    BY <2>3, <2>5 DEF Loops!Tracing!Probing!Queued, S
  <2>7. Underneath!Tracing!Probing!Queued(n, status, queued, f)
          = Loops!Tracing!Probing!Queued(n, status, queued, f)
    BY <1>1, SameSignals DEF Underneath!Tracing!Probing!Queued, Loops!Tracing!Probing!Queued
  <2> QED
    BY <2>6, <2>7
<1>3. more \in SendingsOf(Nodes, Underneath!Wire)
  BY <1>2 DEF SendingsOf
<1>4. network' = MoreSent(Nodes, net, n, more)
  BY DEF Loops!Tracing!Probing!QueueProbes, MoreSent
<1>5. Cabled(network') /\ Seen(network') = MoreSent(Nodes, Seen(net), n, more)
  <2> HIDE DEF more
  <2> QED
    BY <1>3, <1>4, SeenSending
<1>6. Seen(network') = [Seen(net) EXCEPT ![n] =
                          [f \in Nodes |-> @[f] \o Underneath!Tracing!Probing!Queued(n, status, queued, f)]]
  BY <1>2, <1>5 DEF MoreSent
<1>7. /\ hand' = [hand EXCEPT ![n] = [f \in Nodes |->
           IF Underneath!Tracing!Probing!Raises(status, queued, f) THEN "waiting" ELSE status[f]]]
      /\ offer' = [offer EXCEPT ![n] = [f \in Nodes |-> @[f] \cup queued[f]]]
      /\ to' = [to EXCEPT ![n] = [p \in Underneath!Tracing!Probing!Probes |->
           @[p] \cup {f \in Nodes : p \in Underneath!Tracing!Probing!Flushed(n, status, queued, f)}]]
  BY <1>1 DEF Loops!Tracing!Probing!QueueProbes, Loops!Tracing!Probing!Probes,
    Underneath!Tracing!Probing!Probes
<1> QED
  BY <1>5, <1>6, <1>7 DEF Underneath!Tracing!Probing!QueueProbes, Seen

-----------------------------------------------------------------------------
(***************************************************************************)
(* The steps of the engines are such steps without the balances.           *)
(***************************************************************************)
(* What is known of the state before. *)
NodesOK == Cabled(network) /\ Underneath!LiftInv

(* A message of the engines below arrives. *)
LEMMA SeenArrives ==
  ASSUME Cabled(network), NEW m \in Nodes, NEW n \in Nodes, NEW message \in Underneath!Wire,
         Loops!Tracing!Probing!Arrives(m, n, message)
  PROVE  /\ Underneath!Tracing!Probing!Arrives(m, n, message)
         /\ Cabled(Loops!Tracing!Probing!Taken(m, n))
         /\ Seen(Loops!Tracing!Probing!Taken(m, n)) = Underneath!Tracing!Probing!Taken(m, n)
<1>1. network[m][n] # <<>> /\ Head(network[m][n]) = message /\ message.type # "set-balance"
  BY CableFacts DEF Loops!Tracing!Probing!Arrives
<1> QED
  BY <1>1, SeenTaken DEF Underneath!Tracing!Probing!Arrives, Seen

(* What the probes engine sends. *)
LEMMA SignalsCable ==
  /\ Loops!Tracing!Probing!MeetMessage \in Underneath!Wire
  /\ Loops!Tracing!Probing!HaveProbes \in Underneath!Wire
  /\ Loops!Tracing!Probing!OkayToSendProbes \in Underneath!Wire
  /\ \A p \in Introductions : Loops!Tracing!Probing!ProbeMessage(p) \in Underneath!Wire
  /\ <<Loops!Tracing!Probing!MeetMessage>> \in Seq(Underneath!Wire)
  /\ <<Loops!Tracing!Probing!OkayToSendProbes>> \in Seq(Underneath!Wire)
<1>1. /\ Loops!Tracing!Probing!MeetMessage \in Underneath!Wire
      /\ Loops!Tracing!Probing!HaveProbes \in Underneath!Wire
      /\ Loops!Tracing!Probing!OkayToSendProbes \in Underneath!Wire
      /\ \A p \in Introductions : Loops!Tracing!Probing!ProbeMessage(p) \in Underneath!Wire
  BY SameSignals DEF Underneath!Wire, Underneath!Plain, Underneath!Tracing!Probing!Messages,
    Underneath!Tracing!Probing!Probes
<1> QED
  BY <1>1

(* Two nodes meet. *)
LEMMA SeenMeet ==
  ASSUME Small, NodesOK, NEW a \in Nodes, NEW b \in Nodes, Loops!Tracing!Probing!Meet(a, b)
  PROVE  Cabled(network') /\ Underneath!Tracing!Probing!Meet(a, b)
<1> DEFINE queued == [f \in Nodes |-> IF f = b THEN known[a] \cup {<<a, b>>}
                        ELSE IF f \in Loops!Tracing!Probing!Friends(a) THEN {<<a, b>>} ELSE {}]
           met == Loops!Tracing!Probing!Sent(network, a, b, <<Loops!Tracing!Probing!MeetMessage>>)
           status == [hand[a] EXCEPT ![b] = "talking"]
<1>0. /\ Cabled(network) /\ known \in [Nodes -> SUBSET Introductions]
      /\ offer \in [Nodes -> [Nodes -> SUBSET Introductions]]
  BY DEF NodesOK, Underneath!LiftInv, Underneath!WireOK
<1>1. <<a, b>> \in Introductions /\ known[a] \in SUBSET Introductions
  BY <1>0 DEF Loops!Tracing!Probing!Meet
<1>2. queued \in [Nodes -> SUBSET Introductions]
  BY <1>1
<1>3. /\ Cabled(met)
      /\ Seen(met) = Underneath!Tracing!Probing!Sent(Seen(network), a, b,
                       <<Underneath!Tracing!Probing!MeetMessage>>)
  BY <1>0, SeenSent, SignalsCable, SameSignals
<1>4. /\ Loops!Tracing!Probing!QueueProbes(a, status, queued, met)
      /\ hand[a][b] = "none"
      /\ known' = [known EXCEPT ![a] = @ \cup {<<a, b>>}]
      /\ UNCHANGED <<from, loopbacks>>
  BY DEF Loops!Tracing!Probing!Meet
<1>5. Cabled(network') /\ Underneath!Tracing!Probing!QueueProbes(a, status, queued, Seen(met))
  <2> HIDE DEF queued, met, status
  <2> QED
    BY <1>0, <1>2, <1>3, <1>4, SeenQueueing
<1>6. Underneath!Tracing!Probing!Friends(a) = Loops!Tracing!Probing!Friends(a)
  BY DEF Underneath!Tracing!Probing!Friends, Loops!Tracing!Probing!Friends
<1> QED
  BY <1>1, <1>3, <1>4, <1>5, <1>6 DEF Underneath!Tracing!Probing!Meet, Seen

(* A node hears of a friend. *)
LEMMA SeenHandleMeet ==
  ASSUME Small, NodesOK, NEW m \in Nodes, NEW n \in Nodes, Loops!Tracing!Probing!HandleMeet(m, n)
  PROVE  Cabled(network') /\ Underneath!Tracing!Probing!HandleMeet(m, n)
<1> DEFINE queued == [f \in Nodes |-> IF f = m THEN known[n] ELSE {}]
           rest == Loops!Tracing!Probing!Taken(m, n)
           status == [hand[n] EXCEPT ![m] = "listening"]
<1>0. /\ Cabled(network) /\ known \in [Nodes -> SUBSET Introductions]
      /\ offer \in [Nodes -> [Nodes -> SUBSET Introductions]]
  BY DEF NodesOK, Underneath!LiftInv, Underneath!WireOK
<1>1. queued \in [Nodes -> SUBSET Introductions]
  BY <1>0
<1>2. /\ Loops!Tracing!Probing!Arrives(m, n, Loops!Tracing!Probing!MeetMessage)
      /\ Loops!Tracing!Probing!QueueProbes(n, status, queued, rest)
      /\ UNCHANGED <<known, from, loopbacks>>
  BY DEF Loops!Tracing!Probing!HandleMeet
<1>3. /\ Underneath!Tracing!Probing!Arrives(m, n, Underneath!Tracing!Probing!MeetMessage)
      /\ Cabled(rest) /\ Seen(rest) = Underneath!Tracing!Probing!Taken(m, n)
  BY <1>0, <1>2, SeenArrives, SignalsCable, SameSignals
<1>4. Cabled(network') /\ Underneath!Tracing!Probing!QueueProbes(n, status, queued, Seen(rest))
  <2> HIDE DEF queued, rest, status
  <2> QED
    BY <1>0, <1>1, <1>2, <1>3, SeenQueueing
<1> QED
  BY <1>2, <1>3, <1>4 DEF Underneath!Tracing!Probing!HandleMeet

(* A probe is new to a node. *)
LEMMA SeenFlood ==
  ASSUME Small, NodesOK, NEW m \in Nodes, NEW n \in Nodes, NEW p \in Introductions,
         Loops!Tracing!Probing!FloodNewProbe(m, n, p)
  PROVE  Cabled(network') /\ Underneath!Tracing!Probing!FloodNewProbe(m, n, p)
<1> DEFINE queued == [f \in Nodes |->
                        IF f \in Loops!Tracing!Probing!Friends(n) \ {m} THEN {p} ELSE {}]
           rest == Loops!Tracing!Probing!Taken(m, n)
<1>0. /\ Cabled(network)
      /\ offer \in [Nodes -> [Nodes -> SUBSET Introductions]]
  BY DEF NodesOK, Underneath!LiftInv, Underneath!WireOK
<1>1. queued \in [Nodes -> SUBSET Introductions]
  OBVIOUS
<1>2. /\ Loops!Tracing!Probing!Arrives(m, n, Loops!Tracing!Probing!ProbeMessage(p))
      /\ p \notin known[n]
      /\ known' = [known EXCEPT ![n] = @ \cup {p}]
      /\ from' = [from EXCEPT ![n][p] = @ \cup {m}]
      /\ Loops!Tracing!Probing!QueueProbes(n, hand[n], queued, rest)
      /\ UNCHANGED loopbacks
  BY DEF Loops!Tracing!Probing!FloodNewProbe
<1>3. /\ Underneath!Tracing!Probing!Arrives(m, n, Underneath!Tracing!Probing!ProbeMessage(p))
      /\ Cabled(rest) /\ Seen(rest) = Underneath!Tracing!Probing!Taken(m, n)
  BY <1>0, <1>2, SeenArrives, SignalsCable, SameSignals
<1>4. Cabled(network') /\ Underneath!Tracing!Probing!QueueProbes(n, hand[n], queued, Seen(rest))
  <2> HIDE DEF queued, rest
  <2> QED
    BY <1>0, <1>1, <1>2, <1>3, SeenQueueing
<1>5. Underneath!Tracing!Probing!Friends(n) = Loops!Tracing!Probing!Friends(n)
  BY DEF Underneath!Tracing!Probing!Friends, Loops!Tracing!Probing!Friends
<1> QED
  BY <1>2, <1>3, <1>4, <1>5 DEF Underneath!Tracing!Probing!FloodNewProbe

(* It is not, and has crossed the link before. *)
LEMMA SeenIgnore ==
  ASSUME NodesOK, NEW m \in Nodes, NEW n \in Nodes, NEW p \in Introductions,
         Loops!Tracing!Probing!IgnoreProbe(m, n, p)
  PROVE  Cabled(network') /\ Underneath!Tracing!Probing!IgnoreProbe(m, n, p)
<1>0. Cabled(network)
  BY DEF NodesOK
<1>1. /\ Loops!Tracing!Probing!Arrives(m, n, Loops!Tracing!Probing!ProbeMessage(p))
      /\ p \in known[n]
      /\ Loops!Tracing!Probing!Virgin(n, m, {p}) = {}
      /\ network' = Loops!Tracing!Probing!Taken(m, n)
      /\ UNCHANGED <<hand, known, from, to, offer, loopbacks>>
  BY DEF Loops!Tracing!Probing!IgnoreProbe
<1>2. /\ Underneath!Tracing!Probing!Arrives(m, n, Underneath!Tracing!Probing!ProbeMessage(p))
      /\ Cabled(network') /\ Seen(network') = Underneath!Tracing!Probing!Taken(m, n)
  BY <1>0, <1>1, SeenArrives, SignalsCable, SameSignals
<1> QED
  BY <1>1, <1>2, SameVirgin DEF Underneath!Tracing!Probing!IgnoreProbe, Seen

(* A friend asks to talk. *)
LEMMA SeenHaveProbes ==
  ASSUME NodesOK, NEW m \in Nodes, NEW n \in Nodes, Loops!Tracing!Probing!HandleHaveProbes(m, n)
  PROVE  Cabled(network') /\ Underneath!Tracing!Probing!HandleHaveProbes(m, n)
<1> DEFINE rest == Loops!Tracing!Probing!Taken(m, n)
           okay == <<Loops!Tracing!Probing!OkayToSendProbes>>
<1>0. Cabled(network)
  BY DEF NodesOK
<1>1. /\ Loops!Tracing!Probing!Arrives(m, n, Loops!Tracing!Probing!HaveProbes)
      /\ hand' = [hand EXCEPT ![n][m] = "listening"]
      /\ network' = Loops!Tracing!Probing!Sent(rest, n, m, okay)
      /\ UNCHANGED <<known, from, to, offer, loopbacks>>
  BY DEF Loops!Tracing!Probing!HandleHaveProbes
<1>2. /\ Underneath!Tracing!Probing!Arrives(m, n, Underneath!Tracing!Probing!HaveProbes)
      /\ Cabled(rest) /\ Seen(rest) = Underneath!Tracing!Probing!Taken(m, n)
  BY <1>0, <1>1, SeenArrives, SignalsCable, SameSignals
<1>3. okay \in Seq(Underneath!Wire) /\ okay = <<Underneath!Tracing!Probing!OkayToSendProbes>>
  BY SignalsCable, SameSignals
<1>4. /\ Cabled(network')
      /\ Seen(network') = Underneath!Tracing!Probing!Sent(Seen(rest), n, m, okay)
  <2> HIDE DEF rest, okay
  <2> QED
    BY <1>1, <1>2, <1>3, SeenSent
<1> QED
  BY <1>1, <1>2, <1>3, <1>4 DEF Underneath!Tracing!Probing!HandleHaveProbes, Seen

(* A friend lets it talk. *)
LEMMA SeenOkay ==
  ASSUME Small, NodesOK, NEW m \in Nodes, NEW n \in Nodes,
         Loops!Tracing!Probing!HandleOkayToSendProbes(m, n)
  PROVE  Cabled(network') /\ Underneath!Tracing!Probing!HandleOkayToSendProbes(m, n)
<1> DEFINE rest == Loops!Tracing!Probing!Taken(m, n)
           flushed == Loops!Tracing!Probing!Virgin(n, m, offer[n][m])
           burst == Loops!Tracing!Probing!Burst(flushed)
<1>0. Cabled(network) /\ offer \in [Nodes -> [Nodes -> SUBSET Introductions]]
  BY DEF NodesOK, Underneath!LiftInv, Underneath!WireOK
<1>1. /\ Loops!Tracing!Probing!Arrives(m, n, Loops!Tracing!Probing!OkayToSendProbes)
      /\ hand' = [hand EXCEPT ![n][m] = "talking"]
      /\ to' = [to EXCEPT ![n] =
           [p \in Introductions |-> IF p \in flushed THEN @[p] \cup {m} ELSE @[p]]]
      /\ network' = Loops!Tracing!Probing!Sent(rest, n, m, burst)
      /\ UNCHANGED <<known, from, offer, loopbacks>>
  BY DEF Loops!Tracing!Probing!HandleOkayToSendProbes, Loops!Tracing!Probing!Probes
<1>2. /\ Underneath!Tracing!Probing!Arrives(m, n, Underneath!Tracing!Probing!OkayToSendProbes)
      /\ Cabled(rest) /\ Seen(rest) = Underneath!Tracing!Probing!Taken(m, n)
  BY <1>0, <1>1, SeenArrives, SignalsCable, SameSignals
<1>3. flushed \in SUBSET Introductions
  BY <1>0 DEF Loops!Tracing!Probing!Virgin
<1>4. flushed = Underneath!Tracing!Probing!Virgin(n, m, offer[n][m])
  BY SameVirgin
<1>5. burst \in Seq(Underneath!Wire) /\ burst = Underneath!Tracing!Probing!Burst(flushed)
  <2> HIDE DEF flushed
  <2>1. Underneath!Tracing!Probing!Burst(flushed) \in Seq(Underneath!Plain)
    BY <1>3, Underneath!BurstPlain, SmallUnderneath
  <2> QED
    BY <2>1, SameSignals DEF Underneath!Wire
<1>6. /\ Cabled(network')
      /\ Seen(network') = Underneath!Tracing!Probing!Sent(Seen(rest), n, m, burst)
  <2> HIDE DEF rest, burst
  <2> QED
    BY <1>1, <1>2, <1>5, SeenSent
<1> HIDE DEF flushed, burst
<1> QED
  BY <1>1, <1>2, <1>4, <1>5, <1>6 DEF Underneath!Tracing!Probing!HandleOkayToSendProbes, Seen,
    Underneath!Tracing!Probing!Probes

(* A probe loops back, and a trace starts. *)
LEMMA SeenLoopback ==
  ASSUME NodesOK, NEW m \in Nodes, NEW n \in Nodes, NEW p \in Introductions,
         Loops!Tracing!HandleProbeLoopback(m, n, p)
  PROVE  Cabled(network') /\ Underneath!Tracing!HandleProbeLoopback(m, n, p)
<1> DEFINE t == <<p, n, m>>
           senders == from[n][p] \cup {m}
           messages == [f \in senders |-> Loops!Tracing!TraceMessage(t, f)]
           rest == Loops!Tracing!Probing!Taken(m, n)
<1>0. Cabled(network)
  BY DEF NodesOK
<1>1. /\ Loops!Tracing!Probing!Arrives(m, n, Loops!Tracing!Probing!ProbeMessage(p))
      /\ p \in known[n]
      /\ Loops!Tracing!Probing!Virgin(n, m, {p}) # {}
      /\ from' = [from EXCEPT ![n][p] = @ \cup {m}]
      /\ loopbacks' = [loopbacks EXCEPT ![n] = @ \cup {<<p, m>>}]
      /\ UNCHANGED <<hand, known, to, offer>>
      /\ created' = [created EXCEPT ![n] = @ \cup {<<t, f>> : f \in senders}]
      /\ network' = Loops!Tracing!Broadcast(rest, n, messages)
      /\ UNCHANGED <<forwarded, found>>
  BY DEF Loops!Tracing!HandleProbeLoopback, Loops!Tracing!Probing!RecordLoopback
<1>2. /\ Underneath!Tracing!Probing!Arrives(m, n, Underneath!Tracing!Probing!ProbeMessage(p))
      /\ Cabled(rest) /\ Seen(rest) = Underneath!Tracing!Probing!Taken(m, n)
  BY <1>0, <1>1, SeenArrives, SignalsCable, SameSignals
<1>3. \A f \in DOMAIN messages \cap Nodes : messages[f] \in Underneath!Wire
  BY SameTraces DEF Underneath!Wire, Underneath!Plain, Underneath!Tracing!TraceMessages,
    Underneath!Tracing!Traces
<1>4. messages = [f \in senders |-> Underneath!Tracing!TraceMessage(t, f)]
  BY SameTraces
<1>5. /\ Cabled(network')
      /\ Seen(network') = Underneath!Tracing!Broadcast(Seen(rest), n, messages)
  <2> HIDE DEF rest, messages
  <2> QED
    BY <1>1, <1>2, <1>3, SeenBroadcast
<1> HIDE DEF messages
<1>6. Underneath!Tracing!Probing!RecordLoopback(m, n, p)
  BY <1>1, <1>2, SameVirgin DEF Underneath!Tracing!Probing!RecordLoopback
<1> QED
  BY <1>1, <1>2, <1>4, <1>5, <1>6 DEF Underneath!Tracing!HandleProbeLoopback, Seen

(* The logs are looked up in the same way. *)
LEMMA SameLogs ==
  /\ \A n, t : Underneath!Tracing!Log(n, t) = Loops!Tracing!Log(n, t)
  /\ \A log : /\ Underneath!Tracing!Keys(log) = Loops!Tracing!Keys(log)
              /\ Underneath!Tracing!Values(log) = Loops!Tracing!Values(log)
  /\ \A log, friends : Underneath!Tracing!FirstKey(log, friends) = Loops!Tracing!FirstKey(log, friends)
  /\ \A log, leg : Underneath!Tracing!OtherLegs(log, leg) = Loops!Tracing!OtherLegs(log, leg)
  /\ \A log, friends, order, leg :
       Underneath!Tracing!LoggedAll(log, friends, order, leg)
         = Loops!Tracing!LoggedAll(log, friends, order, leg)
  /\ \A log, f, leg : Underneath!Tracing!Logged(log, f, leg) = Loops!Tracing!Logged(log, f, leg)
  /\ \A S : Underneath!Tracing!Probing!Orders(S) = Loops!Tracing!Probing!Orders(S)
<1>1. \A n, t : Underneath!Tracing!Log(n, t) = Loops!Tracing!Log(n, t)
  BY DEF Underneath!Tracing!Log, Loops!Tracing!Log
<1>2. \A log : /\ Underneath!Tracing!Keys(log) = Loops!Tracing!Keys(log)
               /\ Underneath!Tracing!Values(log) = Loops!Tracing!Values(log)
  BY DEF Underneath!Tracing!Keys, Loops!Tracing!Keys, Underneath!Tracing!Values,
    Loops!Tracing!Values
<1>3. \A s : Underneath!Tracing!Range(s) = Loops!Tracing!Range(s)
  BY DEF Underneath!Tracing!Range, Loops!Tracing!Range
<1>4. \A log, f : Underneath!Tracing!Rank(log, f) = Loops!Tracing!Rank(log, f)
  BY <1>3 DEF Underneath!Tracing!Rank, Loops!Tracing!Rank, Underneath!Tracing!Place,
    Loops!Tracing!Place
<1>5. \A log, friends : Underneath!Tracing!FirstKey(log, friends) = Loops!Tracing!FirstKey(log, friends)
  BY <1>4 DEF Underneath!Tracing!FirstKey, Loops!Tracing!FirstKey
<1>6. \A log, leg : Underneath!Tracing!OtherLegs(log, leg) = Loops!Tracing!OtherLegs(log, leg)
  BY <1>2, <1>3 DEF Underneath!Tracing!OtherLegs, Loops!Tracing!OtherLegs
<1>7. \A log, friends, order, leg :
        Underneath!Tracing!LoggedAll(log, friends, order, leg)
          = Loops!Tracing!LoggedAll(log, friends, order, leg)
  BY DEF Underneath!Tracing!LoggedAll, Loops!Tracing!LoggedAll
<1>8. \A log, f, leg : Underneath!Tracing!Logged(log, f, leg) = Loops!Tracing!Logged(log, f, leg)
  BY <1>2, <1>7 DEF Underneath!Tracing!Logged, Loops!Tracing!Logged
<1>9. \A S : Underneath!Tracing!Probing!Cardinality(S) = Loops!Tracing!Probing!Cardinality(S)
  BY DEF Underneath!Tracing!Probing!Cardinality, Loops!Tracing!Probing!Cardinality
<1>10. \A S : Underneath!Tracing!Probing!Orders(S) = Loops!Tracing!Probing!Orders(S)
  BY <1>9 DEF Underneath!Tracing!Probing!Orders, Loops!Tracing!Probing!Orders,
    Underneath!Tracing!Probing!Injection, Loops!Tracing!Probing!Injection,
    Underneath!Tracing!Probing!IsInjective, Loops!Tracing!Probing!IsInjective
<1> QED
  BY <1>1, <1>2, <1>5, <1>6, <1>7, <1>8, <1>10

(* A trace that arrives is seen to arrive. *)
LEMMA SeenArriving ==
  ASSUME Cabled(network), NEW m \in Nodes, NEW n \in Nodes,
         NEW message \in Loops!Tracing!Arriving(m, n)
  PROVE  /\ message \in Underneath!Tracing!Arriving(m, n)
         /\ message \in Underneath!Tracing!TraceMessages
         /\ message = Underneath!Tracing!TraceMessage(message.trace, message.leg)
         /\ message.trace \in Underneath!Tracing!Traces /\ message.leg \in Nodes
         /\ network[m][n] # <<>> /\ Head(network[m][n]) = message
         /\ Cabled(Loops!Tracing!Probing!Taken(m, n))
         /\ Seen(Loops!Tracing!Probing!Taken(m, n)) = Underneath!Tracing!Probing!Taken(m, n)
<1>1. /\ network[m][n] # <<>> /\ Head(network[m][n]) = message
      /\ message \in Underneath!Tracing!TraceMessages
  BY SameTraces DEF Loops!Tracing!Arriving
<1>2. /\ message = Underneath!Tracing!TraceMessage(message.trace, message.leg)
      /\ message.trace \in Underneath!Tracing!Traces /\ message.leg \in Nodes
  BY <1>1 DEF Underneath!Tracing!TraceMessages, Underneath!Tracing!TraceMessage
<1>3. message \in Underneath!Wire
  BY <1>1 DEF Underneath!Wire, Underneath!Plain
<1>4. Head(network[m][n]).type # "set-balance"
  BY <1>1, <1>3, CableFacts
<1>5. /\ Seen(network)[m][n] # <<>> /\ Head(Seen(network)[m][n]) = message
      /\ Cabled(Loops!Tracing!Probing!Taken(m, n))
      /\ Seen(Loops!Tracing!Probing!Taken(m, n)) = Underneath!Tracing!Probing!Taken(m, n)
  BY <1>1, <1>4, SeenTaken
<1>6. message \in Underneath!Tracing!Arriving(m, n)
  BY <1>1, <1>5 DEF Underneath!Tracing!Arriving, Seen
<1> QED
  BY <1>1, <1>2, <1>5, <1>6

(* A trace is sent on, or is not. *)
LEMMA SeenPassing ==
  ASSUME NEW net, Cabled(net), NEW n \in Nodes, NEW t \in Underneath!Tracing!Traces,
         NEW leg \in Nodes, NEW hops
  PROVE  /\ Cabled(Loops!Tracing!Broadcast(net, n, [f \in hops |-> Loops!Tracing!TraceMessage(t, leg)]))
         /\ Seen(Loops!Tracing!Broadcast(net, n, [f \in hops |-> Loops!Tracing!TraceMessage(t, leg)]))
              = Underneath!Tracing!Broadcast(Seen(net), n,
                  [f \in hops |-> Underneath!Tracing!TraceMessage(t, leg)])
<1> DEFINE messages == [f \in hops |-> Loops!Tracing!TraceMessage(t, leg)]
<1>1. \A f \in DOMAIN messages \cap Nodes : messages[f] \in Underneath!Wire
  BY SameTraces DEF Underneath!Wire, Underneath!Plain, Underneath!Tracing!TraceMessages
<1>2. messages = [f \in hops |-> Underneath!Tracing!TraceMessage(t, leg)]
  BY SameTraces
<1>3. /\ Cabled(Loops!Tracing!Broadcast(net, n, messages))
      /\ Seen(Loops!Tracing!Broadcast(net, n, messages))
           = Underneath!Tracing!Broadcast(Seen(net), n, messages)
  <2> HIDE DEF messages
  <2> QED
    BY <1>1, SeenBroadcast
<1> QED
  BY <1>2, <1>3

(* A trace goes by. *)
LEMMA SeenTrace ==
  ASSUME NodesOK, NEW m \in Nodes, NEW n \in Nodes, Loops!Tracing!PassTrace(m, n)
  PROVE  Cabled(network') /\ Underneath!Tracing!PassTrace(m, n)
<1> DEFINE rest == Loops!Tracing!Probing!Taken(m, n)
<1>0. Cabled(network)
  BY DEF NodesOK
<1>1. PICK message \in Loops!Tracing!Arriving(m, n) :
        /\ \/ Loops!Tracing!IgnoreTrace(m, n, message.trace, message.leg)
           \/ Loops!Tracing!ForwardTrace(m, n, message.trace, message.leg)
           \/ Loops!Tracing!BounceTrace(m, n, message.trace, message.leg)
        /\ UNCHANGED <<hand, known, from, to, offer, loopbacks>>
  BY DEF Loops!Tracing!PassTrace, Loops!Tracing!probing
<1> DEFINE t == message.trace
           leg == message.leg
<1>2. /\ message \in Underneath!Tracing!Arriving(m, n)
      /\ t \in Underneath!Tracing!Traces /\ leg \in Nodes
      /\ Cabled(rest) /\ Seen(rest) = Underneath!Tracing!Probing!Taken(m, n)
  BY <1>0, SeenArriving
<1> HIDE DEF rest, t, leg
<1>3. ASSUME NEW hops
      PROVE  /\ Cabled(Loops!Tracing!Broadcast(rest, n, [f \in hops |-> Loops!Tracing!TraceMessage(t, leg)]))
             /\ Seen(Loops!Tracing!Broadcast(rest, n, [f \in hops |-> Loops!Tracing!TraceMessage(t, leg)]))
                  = Underneath!Tracing!Broadcast(Underneath!Tracing!Probing!Taken(m, n), n,
                      [f \in hops |-> Underneath!Tracing!TraceMessage(t, leg)])
  BY <1>2, SeenPassing
<1>4. /\ Underneath!Tracing!Opposite(m, n, t[1]) = Loops!Tracing!Opposite(m, n, t[1])
      /\ Underneath!Tracing!NewTrace(n, t, leg) = Loops!Tracing!NewTrace(n, t, leg)
      /\ Underneath!Tracing!Bounces(m, n, t, leg) = Loops!Tracing!Bounces(m, n, t, leg)
  BY SameLogs DEF Underneath!Tracing!Opposite, Loops!Tracing!Opposite, Underneath!Tracing!NewTrace,
    Loops!Tracing!NewTrace, Underneath!Tracing!Bounces, Loops!Tracing!Bounces
<1>5. \A log : Loops!Tracing!WriteLog(n, t, log) => Underneath!Tracing!WriteLog(n, t, log)
  BY DEF Underneath!Tracing!WriteLog, Loops!Tracing!WriteLog
<1>6. ASSUME Loops!Tracing!IgnoreTrace(m, n, t, leg)
      PROVE  Cabled(network') /\ Underneath!Tracing!IgnoreTrace(m, n, t, leg)
  <2>1. network' = rest
    BY <1>6 DEF Loops!Tracing!IgnoreTrace, rest
  <2>2. Seen(network') = Underneath!Tracing!Probing!Taken(m, n)
    BY <1>2, <2>1
  <2> QED
    BY <1>2, <1>6, <2>1, <2>2, SameLogs DEF Loops!Tracing!IgnoreTrace, Underneath!Tracing!IgnoreTrace, Seen
<1>7. ASSUME Loops!Tracing!ForwardTrace(m, n, t, leg)
      PROVE  Cabled(network') /\ Underneath!Tracing!ForwardTrace(m, n, t, leg)
  <2> DEFINE hops == Loops!Tracing!Opposite(m, n, t[1])
  <2>1. network' = Loops!Tracing!Broadcast(rest, n, [f \in hops |-> Loops!Tracing!TraceMessage(t, leg)])
    BY <1>7 DEF Loops!Tracing!ForwardTrace, rest
  <2>2. /\ Cabled(network')
        /\ Seen(network') = Underneath!Tracing!Broadcast(Underneath!Tracing!Probing!Taken(m, n), n,
             [f \in hops |-> Underneath!Tracing!TraceMessage(t, leg)])
    BY <1>3, <2>1
  <2> QED
    BY <1>4, <1>5, <1>7, <2>2, SameLogs
       DEF Loops!Tracing!ForwardTrace, Underneath!Tracing!ForwardTrace, Seen
<1>8. ASSUME Loops!Tracing!BounceTrace(m, n, t, leg)
      PROVE  Cabled(network') /\ Underneath!Tracing!BounceTrace(m, n, t, leg)
  <2> DEFINE hops == {Loops!Tracing!FirstKey(Loops!Tracing!Logged(Loops!Tracing!Log(n, t), m, leg),
                        Loops!Tracing!Bounces(m, n, t, leg))}
  <2>1. network' = Loops!Tracing!Broadcast(rest, n, [f \in hops |-> Loops!Tracing!TraceMessage(t, leg)])
    BY <1>8 DEF Loops!Tracing!BounceTrace, rest
  <2>2. /\ Cabled(network')
        /\ Seen(network') = Underneath!Tracing!Broadcast(Underneath!Tracing!Probing!Taken(m, n), n,
             [f \in hops |-> Underneath!Tracing!TraceMessage(t, leg)])
    BY <1>3, <2>1
  <2> QED
    BY <1>4, <1>5, <1>8, <2>2, SameLogs
       DEF Loops!Tracing!BounceTrace, Underneath!Tracing!BounceTrace, Seen
<1> QED
  BY <1>1, <1>2, <1>6, <1>7, <1>8 DEF Underneath!Tracing!PassTrace, Underneath!Tracing!probing, t, leg

(* The loops engine looks up the same. *)
LEMMA SameLifts ==
  /\ \A n, t, leg, m : Underneath!NewHash(n, t, leg, m) = Loops!NewHash(n, t, leg, m)
  /\ \A n, m, h : Underneath!OtherParties(n, m, h) = Loops!OtherParties(n, m, h)
  /\ \A n, m, h : Underneath!OtherParty(n, m, h) = Loops!OtherParty(n, m, h)
  /\ \A n, m, message : Underneath!Accepts(n, m, message) = Loops!Accepts(n, m, message)
  /\ \A n, h, incoming, secret :
       Loops!SetLift(n, h, incoming, secret) => Underneath!SetLift(n, h, incoming, secret)
<1>1. \A S : Underneath!Cardinality(S) = Loops!Cardinality(S)
  BY DEF Underneath!Cardinality, Loops!Cardinality
<1>2. \A n, t, leg, m, k : Underneath!Hash(n, t, leg, m, k) = Loops!Hash(n, t, leg, m, k)
  BY DEF Underneath!Hash, Loops!Hash
<1>3. ASSUME NEW n, NEW t, NEW leg, NEW m
      PROVE  Underneath!NewHash(n, t, leg, m) = Loops!NewHash(n, t, leg, m)
  BY <1>1, <1>2 DEF Underneath!NewHash, Loops!NewHash
<1>4. \A s : Underneath!Range(s) = Loops!Range(s)
  BY DEF Underneath!Range, Loops!Range
<1>5. ASSUME NEW n, NEW m, NEW h
      PROVE  Underneath!OtherParties(n, m, h) = Loops!OtherParties(n, m, h)
  BY <1>4, SameLogs DEF Underneath!OtherParties, Loops!OtherParties
<1>6. ASSUME NEW n, NEW m, NEW h
      PROVE  Underneath!OtherParty(n, m, h) = Loops!OtherParty(n, m, h)
  BY <1>5, SameLogs DEF Underneath!OtherParty, Loops!OtherParty
<1>7. ASSUME NEW n, NEW m, NEW message
      PROVE  Underneath!Accepts(n, m, message) = Loops!Accepts(n, m, message)
  BY <1>5 DEF Underneath!Accepts, Loops!Accepts
<1>8. \A n, h, incoming, secret :
        Loops!SetLift(n, h, incoming, secret) => Underneath!SetLift(n, h, incoming, secret)
  BY DEF Underneath!SetLift, Loops!SetLift
<1> QED
  BY <1>3, <1>5, <1>6, <1>7, <1>8

(* One of its messages is seen to arrive. *)
LEMMA SeenLiftArriving ==
  ASSUME Cabled(network), NEW m \in Nodes, NEW n \in Nodes, NEW type, type # "set-balance",
         NEW message \in Loops!Arriving(m, n, type)
  PROVE  /\ message \in Underneath!Arriving(m, n, type)
         /\ network[m][n] # <<>> /\ Head(network[m][n]).type # "set-balance"
         /\ Cabled(Loops!Probing!Taken(m, n))
         /\ Seen(Loops!Probing!Taken(m, n)) = Underneath!Probing!Taken(m, n)
<1>1. /\ network[m][n] # <<>> /\ Head(network[m][n]) = message /\ message.type = type
      /\ Head(network[m][n]).type # "set-balance"
  BY DEF Loops!Arriving
<1>2. /\ Seen(network)[m][n] # <<>> /\ Head(Seen(network)[m][n]) = message
      /\ Cabled(Loops!Tracing!Probing!Taken(m, n))
      /\ Seen(Loops!Tracing!Probing!Taken(m, n)) = Underneath!Tracing!Probing!Taken(m, n)
  BY <1>1, SeenTaken
<1>3. /\ Loops!Probing!Taken(m, n) = Loops!Tracing!Probing!Taken(m, n)
      /\ Underneath!Probing!Taken(m, n) = Underneath!Tracing!Probing!Taken(m, n)
  BY DEF Loops!Probing!Taken, Loops!Tracing!Probing!Taken, Underneath!Probing!Taken,
    Underneath!Tracing!Probing!Taken
<1> QED
  BY <1>1, <1>2, <1>3 DEF Underneath!Arriving, Seen

(* And answered, or passed on. *)
LEMMA SeenSend ==
  ASSUME Cabled(network), NEW m \in Nodes, NEW n \in Nodes, NEW f, NEW message \in Underneath!Wire,
         network[m][n] # <<>>, Head(network[m][n]).type # "set-balance",
         Loops!Send(m, n, f, message)
  PROVE  Cabled(network') /\ Underneath!Send(m, n, f, message)
<1> DEFINE messages == [g \in {f} |-> message]
           rest == Loops!Probing!Taken(m, n)
<1>1. /\ rest = Loops!Tracing!Probing!Taken(m, n)
      /\ Underneath!Probing!Taken(m, n) = Underneath!Tracing!Probing!Taken(m, n)
  BY DEF Loops!Probing!Taken, Loops!Tracing!Probing!Taken, Underneath!Probing!Taken,
    Underneath!Tracing!Probing!Taken
<1>2. Cabled(rest) /\ Seen(rest) = Underneath!Probing!Taken(m, n)
  <2> HIDE DEF rest
  <2> QED
    BY <1>1, SeenTaken
<1>3. \A g \in DOMAIN messages \cap Nodes : messages[g] \in Underneath!Wire
  OBVIOUS
<1>4. network' = Loops!Tracing!Broadcast(rest, n, messages)
  BY DEF Loops!Send
<1>5. /\ Cabled(network')
      /\ Seen(network') = Underneath!Tracing!Broadcast(Seen(rest), n, messages)
  <2> HIDE DEF rest, messages
  <2> QED
    BY <1>2, <1>3, <1>4, SeenBroadcast
<1> QED
  BY <1>2, <1>5 DEF Underneath!Send, Seen

(* A loop is found. *)
LEMMA SeenFound ==
  ASSUME Small, NodesOK, NEW m \in Nodes, NEW n \in Nodes, Loops!HandleLoopFound(m, n)
  PROVE  Cabled(network') /\ Underneath!HandleLoopFound(m, n)
<1>0. Cabled(network) /\ Underneath!TablesOK
  BY DEF NodesOK, Underneath!LiftInv
<1>1. PICK message \in Loops!Tracing!Arriving(m, n) :
        /\ Loops!Tracing!RecordLoop(m, n, message.trace, message.leg)
        /\ Loops!SetLift(n, Loops!NewHash(n, message.trace, message.leg, m), FALSE, TRUE)
        /\ Loops!Send(m, n, message.leg, Loops!Propose(Loops!NewHash(n, message.trace, message.leg, m)))
        /\ UNCHANGED completed
  BY DEF Loops!HandleLoopFound
<1> DEFINE t == message.trace
           leg == message.leg
           h == Loops!NewHash(n, t, leg, m)
<1>2. /\ message \in Underneath!Tracing!Arriving(m, n)
      /\ message = Underneath!Tracing!TraceMessage(t, leg)
      /\ t \in Underneath!Tracing!Traces /\ leg \in Nodes
      /\ network[m][n] # <<>> /\ Head(network[m][n]) = message
      /\ message \in Underneath!Tracing!TraceMessages
  BY <1>0, SeenArriving
<1>3. message \in Underneath!Wire /\ message.type # "set-balance"
  BY <1>2, CableFacts DEF Underneath!Wire, Underneath!Plain
<1>4. h = Underneath!NewHash(n, t, leg, m)
  BY SameLifts
<1>5. h \in Underneath!Hashes
  <2>1. Underneath!NewHash(n, t, leg, m) \in Underneath!Hashes
    BY <1>0, <1>2, Underneath!NewHashFacts, SmallUnderneath
  <2> QED
    BY <1>4, <2>1
<1>6. Loops!Propose(h) = Underneath!Propose(h) /\ Underneath!Propose(h) \in Underneath!Wire
  BY <1>5, SameTraces DEF Underneath!Wire, Underneath!Proposals
<1>7. Cabled(network') /\ Underneath!Send(m, n, leg, Underneath!Propose(h))
  BY <1>0, <1>1, <1>2, <1>3, <1>6, SeenSend
<1>8. Underneath!SetLift(n, h, FALSE, TRUE)
  BY <1>1, SameLifts
<1>9. Underneath!Tracing!Probing!Arrives(m, n, Underneath!Tracing!TraceMessage(t, leg))
  <2>1. Loops!Tracing!Probing!Arrives(m, n, message)
    BY <1>1, <1>2, SameTraces DEF Loops!Tracing!RecordLoop
  <2> QED
    BY <1>0, <1>2, <1>3, <2>1, SeenArrives
<1> HIDE DEF t, leg, h
<1>10. Underneath!Tracing!RecordLoop(m, n, t, leg)
  BY <1>1, <1>9 DEF Underneath!Tracing!RecordLoop, Loops!Tracing!RecordLoop, t, leg,
    Underneath!Tracing!probing, Loops!Tracing!probing
<1> QED
  BY <1>1, <1>2, <1>4, <1>7, <1>8, <1>10 DEF Underneath!HandleLoopFound, t, leg

(* A proposal passes. *)
LEMMA SeenForward ==
  ASSUME Small, NodesOK, NEW m \in Nodes, NEW n \in Nodes, Loops!ForwardPropose(m, n)
  PROVE  Cabled(network') /\ Underneath!ForwardPropose(m, n)
<1>0. Cabled(network) /\ Underneath!WireOK
  BY DEF NodesOK, Underneath!LiftInv
<1>1. PICK message \in Loops!Arriving(m, n, "propose") :
        /\ Loops!OtherParties(n, m, message.lift) # {}
        /\ message.lift \notin DOMAIN lifts[n]
        /\ Loops!SetLift(n, message.lift, TRUE, FALSE)
        /\ Loops!Send(m, n, Loops!OtherParty(n, m, message.lift), Loops!Propose(message.lift))
        /\ UNCHANGED <<Loops!tracing, completed>>
  BY DEF Loops!ForwardPropose
<1> DEFINE h == message.lift
<1>2. /\ message \in Underneath!Arriving(m, n, "propose")
      /\ network[m][n] # <<>> /\ Head(network[m][n]).type # "set-balance"
  BY <1>0, SeenLiftArriving
<1>3. h \in Underneath!Hashes
  BY <1>0, <1>2, Underneath!ProposalArrives, SmallUnderneath DEF Underneath!WireOK
<1>4. Loops!Propose(h) = Underneath!Propose(h) /\ Underneath!Propose(h) \in Underneath!Wire
  BY <1>3, SameTraces DEF Underneath!Wire, Underneath!Proposals
<1>5. Cabled(network') /\ Underneath!Send(m, n, Underneath!OtherParty(n, m, h), Underneath!Propose(h))
  BY <1>0, <1>1, <1>2, <1>4, SeenSend, SameLifts
<1> QED
  BY <1>1, <1>2, <1>5, SameLifts DEF Underneath!ForwardPropose, Underneath!tracing, Loops!tracing

(* It comes to a node that knows the lift. *)
LEMMA SeenDecide ==
  ASSUME NodesOK, NEW m \in Nodes, NEW n \in Nodes, Loops!DecideOnLift(m, n)
  PROVE  Cabled(network') /\ Underneath!DecideOnLift(m, n)
<1>0. Cabled(network) /\ Underneath!WireOK /\ Underneath!TablesOK
  BY DEF NodesOK, Underneath!LiftInv
<1>1. PICK message \in Loops!Arriving(m, n, "propose") :
        /\ Loops!OtherParties(n, m, message.lift) # {}
        /\ message.lift \in DOMAIN lifts[n]
        /\ Loops!SetLift(n, message.lift, TRUE, lifts[n][message.lift].secret)
        /\ Loops!Send(m, n, m, Loops!Commit(message.lift, lifts[n][message.lift].secret))
        /\ UNCHANGED <<Loops!tracing, completed>>
  BY DEF Loops!DecideOnLift
<1> DEFINE h == message.lift
           secret == lifts[n][h].secret
<1>2. /\ message \in Underneath!Arriving(m, n, "propose")
      /\ network[m][n] # <<>> /\ Head(network[m][n]).type # "set-balance"
  BY <1>0, SeenLiftArriving
<1>3. h \in Underneath!Hashes /\ secret \in BOOLEAN
  BY <1>0, <1>1, <1>2, Underneath!ProposalArrives
     DEF Underneath!WireOK, Underneath!TablesOK, Underneath!Entries
<1> HIDE DEF secret
<1>4. /\ Loops!Commit(h, secret) = Underneath!Commit(h, secret)
      /\ Underneath!Commit(h, secret) \in Underneath!Wire
  BY <1>3, SameTraces DEF Underneath!Wire, Underneath!Commits
<1>5. Cabled(network') /\ Underneath!Send(m, n, m, Underneath!Commit(h, secret))
  BY <1>0, <1>1, <1>2, <1>4, SeenSend DEF secret
<1> QED
  BY <1>1, <1>2, <1>5, SameLifts
     DEF Underneath!DecideOnLift, Underneath!tracing, Loops!tracing, secret

(* The secret comes. *)
LEMMA SeenCommit ==
  ASSUME Small, NodesOK, NEW m \in Nodes, NEW n \in Nodes, Loops!HandleCommit(m, n)
  PROVE  Cabled(network') /\ Underneath!HandleCommit(m, n)
<1>0. Cabled(network) /\ Underneath!WireOK
  BY DEF NodesOK, Underneath!LiftInv
<1>1. PICK message \in Loops!Arriving(m, n, "commit") :
        /\ Loops!Accepts(n, m, message)
        /\ Loops!SetLift(n, message.lift, lifts[n][message.lift].incoming, TRUE)
        /\ IF lifts[n][message.lift].secret
           THEN /\ network' = Loops!Probing!Taken(m, n)
                /\ completed' = [completed EXCEPT ![n] = @ \cup {message.lift}]
           ELSE /\ Loops!Send(m, n, Loops!OtherParty(n, m, message.lift),
                              Loops!Commit(message.lift, TRUE))
                /\ UNCHANGED completed
        /\ UNCHANGED Loops!tracing
  BY DEF Loops!HandleCommit
<1> DEFINE h == message.lift
<1>2. /\ message \in Underneath!Arriving(m, n, "commit")
      /\ network[m][n] # <<>> /\ Head(network[m][n]).type # "set-balance"
      /\ Cabled(Loops!Probing!Taken(m, n))
      /\ Seen(Loops!Probing!Taken(m, n)) = Underneath!Probing!Taken(m, n)
  BY <1>0, SeenLiftArriving
<1>3. h \in Underneath!Hashes
  BY <1>0, <1>2, Underneath!CommitArrives, SmallUnderneath DEF Underneath!WireOK
<1>4. /\ Loops!Commit(h, TRUE) = Underneath!Commit(h, TRUE)
      /\ Underneath!Commit(h, TRUE) \in Underneath!Wire
  <2> HIDE DEF h
  <2>1. Underneath!Commit(h, TRUE) \in Underneath!Commits
    <3>1. \A secret \in BOOLEAN : Underneath!Commit(h, secret) \in Underneath!Commits
      BY <1>3 DEF Underneath!Commits
    <3> QED
      BY <3>1
  <2> QED
    BY <2>1, SameTraces DEF Underneath!Wire
<1>5. ASSUME Loops!Send(m, n, Loops!OtherParty(n, m, h), Loops!Commit(h, TRUE))
      PROVE  Cabled(network')
             /\ Underneath!Send(m, n, Underneath!OtherParty(n, m, h), Underneath!Commit(h, TRUE))
  BY <1>0, <1>2, <1>4, <1>5, SeenSend, SameLifts
<1>6. ASSUME network' = Loops!Probing!Taken(m, n)
      PROVE  Cabled(network') /\ Seen(network') = Underneath!Probing!Taken(m, n)
  BY <1>2, <1>6
<1> QED
  BY <1>1, <1>2, <1>5, <1>6, SameLifts
     DEF Underneath!HandleCommit, Underneath!tracing, Loops!tracing, Seen

(* A message of a lift is dropped. *)
LEMMA SeenDrop ==
  ASSUME NodesOK, NEW m \in Nodes, NEW n \in Nodes, Loops!DropLoopMessage(m, n)
  PROVE  Cabled(network') /\ Underneath!DropLoopMessage(m, n)
<1>0. Cabled(network)
  BY DEF NodesOK
<1>1. /\ network' = Loops!Probing!Taken(m, n)
      /\ UNCHANGED <<Loops!tracing, lifts, completed>>
      /\ \/ \E message \in Loops!Arriving(m, n, "propose") : Loops!OtherParties(n, m, message.lift) = {}
         \/ \E message \in Loops!Arriving(m, n, "commit") : ~Loops!Accepts(n, m, message)
  BY DEF Loops!DropLoopMessage
<1>2. CASE \E message \in Loops!Arriving(m, n, "propose") : Loops!OtherParties(n, m, message.lift) = {}
  <2>1. PICK message \in Loops!Arriving(m, n, "propose") : Loops!OtherParties(n, m, message.lift) = {}
    BY <1>2
  <2>2. /\ message \in Underneath!Arriving(m, n, "propose")
        /\ Cabled(Loops!Probing!Taken(m, n))
        /\ Seen(Loops!Probing!Taken(m, n)) = Underneath!Probing!Taken(m, n)
    BY <1>0, SeenLiftArriving
  <2> QED
    BY <1>1, <2>1, <2>2, SameLifts
       DEF Underneath!DropLoopMessage, Underneath!tracing, Loops!tracing, Seen
<1>3. CASE \E message \in Loops!Arriving(m, n, "commit") : ~Loops!Accepts(n, m, message)
  <2>1. PICK message \in Loops!Arriving(m, n, "commit") : ~Loops!Accepts(n, m, message)
    BY <1>3
  <2>2. /\ message \in Underneath!Arriving(m, n, "commit")
        /\ Cabled(Loops!Probing!Taken(m, n))
        /\ Seen(Loops!Probing!Taken(m, n)) = Underneath!Probing!Taken(m, n)
    BY <1>0, SeenLiftArriving
  <2> QED
    BY <1>1, <2>1, <2>2, SameLifts
       DEF Underneath!DropLoopMessage, Underneath!tracing, Loops!tracing, Seen
<1> QED
  BY <1>1, <1>2, <1>3

(* A node sets a balance, and the other end is told. *)
LEMMA SeenSetBalance ==
  ASSUME NodesOK, NEW a \in Nodes, NEW b \in Nodes, NEW amount \in Balances,
         SetBalance(a, b, amount)
  PROVE  Cabled(network') /\ UNCHANGED Underneath!vars
<1> DEFINE types == {"set-balance"}
           message == SetBalanceMessage(amount)
           more == [f \in Nodes |-> IF f = b THEN <<message>> ELSE <<>>]
           none == [f \in Nodes |-> <<>>]
<1>0. network \in NetworksOf(Nodes, Cable)
  BY DEF NodesOK, Cabled
<1>1. message \in SetBalances /\ \A w \in SetBalances : w.type \in types
  BY CableFacts DEF SetBalances
<1>2. \A f \in Nodes : more[f] \in Seq(SetBalances)
  BY <1>1
<1>3. \A f \in Nodes : Without(more[f], types) = none[f]
  <2> HIDE DEF types, more
  <2> QED
    BY <1>1, <1>2, WithoutAll
<1>4. more \in SendingsOf(Nodes, Cable)
  <2>1. message \in Cable
    BY <1>1 DEF Cable
  <2>2. \A f \in Nodes : more[f] \in Seq(Cable)
    BY <2>1
  <2> QED
    BY <2>2 DEF SendingsOf
<1>5. /\ MoreSent(Nodes, network, a, more) \in NetworksOf(Nodes, Cable)
      /\ Filtered(MoreSent(Nodes, network, a, more), types)
           = MoreSent(Nodes, Filtered(network, types), a, none)
  <2> HIDE DEF types, more, none
  <2> QED
    BY <1>0, <1>3, <1>4, FilteredSent
<1>6. MoreSent(Nodes, network, a, more) = [network EXCEPT ![a][b] = @ \o <<message>>]
  <2> HIDE DEF message
  <2>0. network \in [Nodes -> [Nodes -> Seq(Cable)]]
    BY <1>0 DEF NetworksOf
  <2>1. network[a] \in [Nodes -> Seq(Cable)]
    BY <2>0
  <2>2. \A g \in Nodes : network[a][g] \o <<>> = network[a][g]
    BY <2>1
  <2>3. [g \in Nodes |-> network[a][g] \o more[g]] = [network[a] EXCEPT ![b] = @ \o <<message>>]
    BY <2>1, <2>2
  <2> QED
    BY <2>0, <2>3 DEF MoreSent
<1>7. network' = MoreSent(Nodes, network, a, more)
  <2> HIDE DEF more, message
  <2> QED
    BY <1>6 DEF SetBalance, Loops!Probing!Sent, message
<1>8. MoreSent(Nodes, Filtered(network, types), a, none) = Filtered(network, types)
  <2> HIDE DEF types
  <2>0. Filtered(network, types) \in [Nodes -> [Nodes -> Seq(Cable)]]
    BY <1>0, FilteredKept DEF NetworksOf
  <2>1. \A g \in Nodes : Filtered(network, types)[a][g] \o <<>> = Filtered(network, types)[a][g]
    BY <2>0
  <2>2. [g \in Nodes |-> Filtered(network, types)[a][g] \o none[g]] = Filtered(network, types)[a]
    BY <2>0, <2>1
  <2> QED
    BY <2>0, <2>2 DEF MoreSent
<1> HIDE DEF more, none, message
<1>9. Cabled(network') /\ Filtered(network', types) = Filtered(network, types)
  BY <1>5, <1>7, <1>8 DEF Cabled
<1> QED
  BY <1>9 DEF SetBalance, handled, Underneath!vars, Underneath!tracing

(* It is. *)
LEMMA SeenHandleSetBalance ==
  ASSUME NodesOK, NEW m \in Nodes, NEW n \in Nodes, HandleSetBalance(m, n)
  PROVE  Cabled(network') /\ UNCHANGED Underneath!vars
<1>1. PICK message \in Loops!Arriving(m, n, "set-balance") :
        network' = Loops!Probing!Taken(m, n) /\ UNCHANGED handled
  BY DEF HandleSetBalance
<1>2. network[m][n] # <<>> /\ Head(network[m][n]).type = "set-balance"
  BY DEF Loops!Arriving
<1>3. Cabled(network') /\ Seen(network') = Seen(network)
  BY <1>1, <1>2, SeenBalance DEF NodesOK
<1> QED
  BY <1>1, <1>3 DEF handled, Underneath!vars, Underneath!tracing, Seen

(* At the beginning there is nothing to hide. *)
LEMMA SeenInit == Init => Cabled(network) /\ Underneath!Init
<1> SUFFICES ASSUME Init
             PROVE  Cabled(network) /\ Underneath!Init
  OBVIOUS
<1>1. network = [m \in Nodes |-> [n \in Nodes |-> <<>>]]
  BY DEF Init, Loops!Init, Loops!Tracing!Init, Loops!Tracing!Probing!Init
<1>2. Cabled(network)
  BY <1>1 DEF Cabled, NetworksOf
<1>3. Seen(network) = [m \in Nodes |-> [n \in Nodes |-> <<>>]]
  BY <1>1, WithoutEmpty DEF Seen, Filtered
<1> QED
  BY <1>2, <1>3 DEF Init, Loops!Init, Loops!Tracing!Init, Loops!Tracing!Probing!Init,
    Underneath!Init, Underneath!Tracing!Init, Underneath!Tracing!Probing!Init, Seen,
    Loops!Tracing!Probing!Probes, Underneath!Tracing!Probing!Probes

(* A message of the engines is handled as theirs. *)
LEMMA SeenHandle ==
  ASSUME Small, NodesOK, NEW m \in Nodes, NEW n \in Nodes, Loops!Handle(m, n)
  PROVE  Cabled(network') /\ Underneath!Handle(m, n)
<1>1. CASE Loops!HandleTraces(m, n)
  <2>1. /\ \/ Loops!Tracing!HandleProbes(m, n)
           \/ \E p \in Introductions : Loops!Tracing!HandleProbeLoopback(m, n, p)
           \/ Loops!Tracing!PassTrace(m, n)
        /\ UNCHANGED <<lifts, completed>>
    BY <1>1 DEF Loops!HandleTraces, Loops!Tracing!HandleOwn
  <2>2. CASE Loops!Tracing!HandleProbes(m, n)
    <3>1. /\ \/ Loops!Tracing!Probing!HandleMeet(m, n)
             \/ \E p \in Introductions : Loops!Tracing!Probing!FloodNewProbe(m, n, p)
             \/ \E p \in Introductions : Loops!Tracing!Probing!IgnoreProbe(m, n, p)
             \/ Loops!Tracing!Probing!HandleHaveProbes(m, n)
             \/ Loops!Tracing!Probing!HandleOkayToSendProbes(m, n)
          /\ UNCHANGED <<created, forwarded, found>>
      BY <2>2 DEF Loops!Tracing!HandleProbes
    <3>2. Cabled(network') /\ Underneath!Tracing!HandleProbes(m, n)
      BY <3>1, SeenHandleMeet, SeenFlood, SeenIgnore, SeenHaveProbes, SeenOkay
         DEF Underneath!Tracing!HandleProbes
    <3> QED
      BY <2>1, <3>2 DEF Underneath!Handle, Underneath!HandleTraces, Underneath!Tracing!HandleOwn
  <2>3. CASE \E p \in Introductions : Loops!Tracing!HandleProbeLoopback(m, n, p)
    BY <2>1, <2>3, SeenLoopback
       DEF Underneath!Handle, Underneath!HandleTraces, Underneath!Tracing!HandleOwn
  <2>4. CASE Loops!Tracing!PassTrace(m, n)
    BY <2>1, <2>4, SeenTrace
       DEF Underneath!Handle, Underneath!HandleTraces, Underneath!Tracing!HandleOwn
  <2> QED
    BY <2>1, <2>2, <2>3, <2>4
<1> QED
  BY <1>1, SeenFound, SeenForward, SeenDecide, SeenCommit, SeenDrop
     DEF Loops!Handle, Underneath!Handle

(* Every step is one of the engines, or none. *)
LEMMA SeenStep ==
  ASSUME Small, NodesOK, [Next]_vars
  PROVE  NodesOK' /\ [Underneath!Next]_(Underneath!vars)
<1>1. ASSUME UNCHANGED vars
      PROVE  Cabled(network') /\ UNCHANGED Underneath!vars
  BY <1>1 DEF vars, engines, handled, Underneath!vars, Underneath!tracing, NodesOK
<1>2. ASSUME NEW a \in Nodes, NEW b \in Nodes, NEW amount, Meet(a, b, amount)
      PROVE  Cabled(network') /\ Underneath!Next
  <2>1. Loops!Tracing!Probing!Meet(a, b) /\ UNCHANGED <<created, forwarded, found, lifts, completed>>
    BY <1>2 DEF Meet, Loops!Meet, Loops!Tracing!Meet
  <2> QED
    BY <2>1, SeenMeet DEF Underneath!Next, Underneath!Meet, Underneath!Tracing!Meet
<1>3. ASSUME NEW a \in Nodes, NEW b \in Nodes, NEW amount, ChangeTrust(a, b, amount)
      PROVE  Cabled(network') /\ UNCHANGED Underneath!vars
  BY <1>3 DEF ChangeTrust, engines, handled, Underneath!vars, Underneath!tracing, NodesOK
<1>4. ASSUME NEW m \in Nodes, NEW n \in Nodes, Handle(m, n)
      PROVE  Cabled(network') /\ (Underneath!Next \/ UNCHANGED Underneath!vars)
  BY <1>4, SeenHandle, SeenHandleSetBalance DEF Handle, HandleEngines, Underneath!Next
<1>5. Cabled(network') /\ [Underneath!Next]_(Underneath!vars)
  BY <1>1, <1>2, <1>3, <1>4, SeenSetBalance DEF Next
<1>6. Underneath!LiftInv'
  BY <1>5, SmallUnderneath, Underneath!LiftStep DEF NodesOK
<1> QED
  BY <1>5, <1>6 DEF NodesOK

(* The engines of a node behave underneath its friends engine as they do by themselves:
   when balances are set, and what the nodes tell each other about them, does not change
   what the engines send and record. *)
THEOREM KeepsLoopsEngineSteps ==
  ASSUME Small
  PROVE  Spec => Underneath!Spec
<1>1. Init => NodesOK /\ Underneath!Init
  BY SeenInit, SmallUnderneath, Underneath!LiftInit DEF NodesOK
<1>2. NodesOK /\ [Next]_vars => NodesOK' /\ [Underneath!Next]_(Underneath!vars)
  BY SeenStep
<1> QED
  BY <1>1, <1>2, PTL DEF Spec, Underneath!Spec

-----------------------------------------------------------------------------
(***************************************************************************)
(* So what is proved of the engines holds of the nodes.                    *)
(***************************************************************************)
(* Lifts are the same underneath. *)
LEMMA SameIdeal ==
  /\ Underneath!Ideal!Spec <=> Loops!Ideal!Spec
  /\ Underneath!Ideal!CircleStays <=> Loops!Ideal!CircleStays
  /\ Underneath!Ideal!SecretFromHome <=> Loops!Ideal!SecretFromHome
<1>1. Underneath!Hashes = Loops!Hashes
  BY DEF Underneath!Hashes, Loops!Hashes, Underneath!Tracing!Traces, Loops!Tracing!Traces
<1>2. /\ Underneath!Joined = Loops!Joined
      /\ Underneath!Closed = Loops!Closed
      /\ Underneath!Knowing = Loops!Knowing
  BY DEF Underneath!Joined, Loops!Joined, Underneath!Closed, Loops!Closed, Underneath!Knowing,
    Loops!Knowing
<1>3. Underneath!Ideal!Init <=> Loops!Ideal!Init
  BY <1>2 DEF Underneath!Ideal!Init, Loops!Ideal!Init
<1>4. [Underneath!Ideal!Next]_(Underneath!Ideal!vars) <=> [Loops!Ideal!Next]_(Loops!Ideal!vars)
  BY <1>1 DEF Underneath!Joined, Loops!Joined, Underneath!Closed, Loops!Closed,
    Underneath!Knowing, Loops!Knowing,
    Underneath!Ideal!vars, Loops!Ideal!vars, Underneath!Ideal!Next, Loops!Ideal!Next,
    Underneath!Ideal!SomeoneLearns, Loops!Ideal!SomeoneLearns, Underneath!Ideal!Learn,
    Loops!Ideal!Learn, Underneath!Ideal!Close, Loops!Ideal!Close, Underneath!Ideal!Join,
    Loops!Ideal!Join, Underneath!Ideal!Start, Loops!Ideal!Start
<1>5. Underneath!Ideal!SecretFromHome <=> Loops!Ideal!SecretFromHome
  BY <1>2 DEF Underneath!Ideal!SecretFromHome, Loops!Ideal!SecretFromHome
<1>6. [/\ Underneath!Joined \subseteq Underneath!Joined'
       /\ \A member \in Underneath!Joined' \ Underneath!Joined :
            member[2] \notin Underneath!Closed]_(Underneath!Ideal!vars)
      <=> [/\ Loops!Joined \subseteq Loops!Joined'
           /\ \A member \in Loops!Joined' \ Loops!Joined :
                member[2] \notin Loops!Closed]_(Loops!Ideal!vars)
  BY DEF Underneath!Joined, Loops!Joined, Underneath!Closed, Loops!Closed, Underneath!Knowing,
    Loops!Knowing, Underneath!Ideal!vars, Loops!Ideal!vars
<1> QED
  BY <1>3, <1>4, <1>5, <1>6, PTL DEF Underneath!Ideal!Spec, Loops!Ideal!Spec,
    Underneath!Ideal!CircleStays, Loops!Ideal!CircleStays

(* The lifts of nodes are what Lift says, whatever balances are set in between: nobody has
   the secret of one before its proposal has come home but who started it, and nobody joins
   one that is closed. *)
THEOREM LiftsOfNodes ==
  ASSUME Small
  PROVE  Spec => Loops!Ideal!Spec /\ []Loops!Ideal!SecretFromHome /\ Loops!Ideal!CircleStays
<1>1. Underneath!Spec => Underneath!Ideal!Spec
  BY SmallUnderneath, Underneath!ImplementsLiftSteps, PTL
<1>2. Underneath!Spec => []Underneath!Ideal!SecretFromHome
  BY SmallUnderneath, Underneath!SecretCorrect, PTL
<1>3. Underneath!Spec => Underneath!Ideal!CircleStays
  BY SmallUnderneath, Underneath!CircleStaysInLoops, PTL
<1> QED
  BY <1>1, <1>2, <1>3, SameIdeal, KeepsLoopsEngineSteps, PTL

(* The messages that the probes engine does not see. *)
Others == {"trace", "propose", "commit"}

LEMMA SameFilter ==
  \A net, types : Underneath!Filtered(net, types) = Filtered(net, types)
BY DEF Underneath!Filtered, Filtered, Underneath!Without, Without

(* What it sees of the messages of m for n. *)
LEMMA SeenLink ==
  ASSUME Cabled(network), NEW m \in Nodes, NEW n \in Nodes
  PROVE  /\ Filtered(Seen(network), Others)[m][n]
              = Without(Without(network[m][n], {"set-balance"}), Others)
         /\ network[m][n] \in Seq(Cable)
         /\ Without(network[m][n], {"set-balance"}) \in Seq(Cable)
<1>1. network \in [Nodes -> [Nodes -> Seq(Cable)]]
  BY DEF Cabled, NetworksOf
<1>2. /\ Seen(network) \in [Nodes -> [Nodes -> Seq(Cable)]]
      /\ Seen(network)[m][n] = Without(network[m][n], {"set-balance"})
  BY <1>1, FilteredKept DEF Seen
<1>3. Filtered(Seen(network), Others)[m][n] = Without(Seen(network)[m][n], Others)
  BY <1>2, FilteredKept
<1> QED
  BY <1>1, <1>2, <1>3

(* When no message is under way, none of its messages is. *)
LEMMA SeenQuiet ==
  ASSUME Cabled(network), Loops!Probing!Quiet
  PROVE  Underneath!Alone!Quiet
<1>1. ASSUME NEW m \in Nodes, NEW n \in Nodes
      PROVE  Filtered(Seen(network), Others)[m][n] = <<>>
  <2>1. network[m][n] = <<>>
    BY DEF Loops!Probing!Quiet
  <2>2. Filtered(Seen(network), Others)[m][n]
          = Without(Without(network[m][n], {"set-balance"}), Others)
    BY SeenLink
  <2> QED
    BY <2>1, <2>2, WithoutEmpty
<1> QED
  BY <1>1, SameFilter DEF Underneath!Alone!Quiet, Seen, Others

(* Its messages are under way as it sees them. *)
LEMMA SeenTransit ==
  ASSUME Cabled(network), NEW m \in Nodes, NEW n \in Nodes, NEW w,
         w.type \notin Others, w.type # "set-balance"
  PROVE  Underneath!Alone!InTransit(m, n, w) <=> Loops!Probing!InTransit(m, n, w)
<1> DEFINE s == network[m][n]
           u == Without(s, {"set-balance"})
           v == Without(u, Others)
           Holds(x) == \E i \in 1..Len(x) : x[i] = w
<1>1. s \in Seq(Cable) /\ u \in Seq(Cable) /\ Filtered(Seen(network), Others)[m][n] = v
  BY SeenLink
<1>2. Holds(u) <=> Holds(s)
  <2> DEFINE types == {"set-balance"}
  <2>1. w.type \notin types
    OBVIOUS
  <2>2. s \in Seq(Cable)
    BY <1>1
  <2> HIDE DEF types, s, u, v, Holds
  <2>3. (\E i \in 1..Len(Without(s, types)) : Without(s, types)[i] = w)
           <=> (\E i \in 1..Len(s) : s[i] = w)
    BY <2>1, <2>2, WithoutHolds
  <2> QED
    BY <2>3 DEF types, u, Holds
<1>3. Holds(v) <=> Holds(u)
  <2> HIDE DEF u
  <2> QED
    BY <1>1, WithoutHolds
<1>4. v \in Seq(Cable)
  BY <1>1, WithoutSeq
<1>5. ASSUME NEW x \in Seq(Cable)
      PROVE  (w \in {x[i] : i \in DOMAIN x}) <=> Holds(x)
  OBVIOUS
<1>6. Underneath!Alone!InTransit(m, n, w) <=> w \in {v[i] : i \in DOMAIN v}
  BY <1>1, SameFilter DEF Underneath!Alone!InTransit, Underneath!Alone!Range, Seen, Others
<1>7. Loops!Probing!InTransit(m, n, w) <=> w \in {s[i] : i \in DOMAIN s}
  BY DEF Loops!Probing!InTransit, Loops!Probing!Range
<1> HIDE DEF s, u, v, Holds
<1> QED
  BY <1>1, <1>2, <1>3, <1>4, <1>5, <1>6, <1>7

(* Nothing is ever under way but messages of the engines and 'set-balance'. *)
LEMMA NodesCabled ==
  ASSUME Small
  PROVE  Spec => []Cabled(network)
<1>1. Init => NodesOK
  BY SeenInit, SmallUnderneath, Underneath!LiftInit DEF NodesOK
<1>2. NodesOK /\ [Next]_vars => NodesOK'
  BY SeenStep
<1>3. NodesOK => Cabled(network)
  BY DEF NodesOK
<1> QED
  BY <1>1, <1>2, <1>3, PTL DEF Spec

(* The engines' friends and probes are those underneath. *)
LEMMA SameProbing ==
  /\ \A n : Underneath!Alone!Friends(n) = Loops!Probing!Friends(n)
  /\ \A n, f, S : Underneath!Alone!Virgin(n, f, S) = Loops!Probing!Virgin(n, f, S)
  /\ Underneath!Alone!Probes = Loops!Probing!Probes
BY DEF Underneath!Alone!Friends, Loops!Probing!Friends, Underneath!Alone!Virgin,
  Loops!Probing!Virgin, Underneath!Alone!Probes, Loops!Probing!Probes

(* Nodes flood as their probes engines do, in any network: once no message is under way
   every probe has crossed every link of the part of the network that it reached, and has
   looped back only where there is a loop. *)
THEOREM FloodOfNodes ==
  ASSUME Small, \A n \in Nodes : <<n, n>> \notin Introductions
  PROVE  Spec => [](Loops!Probing!FloodedWhenQuiet /\ Loops!Probing!LoopbackMeansLoop)
<1>1. Underneath!Spec => [](Underneath!Alone!FloodedWhenQuiet /\ Underneath!Alone!LoopbackMeansLoop)
  <2>1. Underneath!NobodyMeetsItself
    BY DEF Underneath!NobodyMeetsItself
  <2> QED
    BY <2>1, SmallUnderneath, Underneath!FloodUnderneath, PTL
<1>2. Cabled(network) /\ Underneath!Alone!FloodedWhenQuiet => Loops!Probing!FloodedWhenQuiet
  BY SameProbing, SeenQuiet DEF Underneath!Alone!FloodedWhenQuiet, Loops!Probing!FloodedWhenQuiet
<1>3. Underneath!Alone!LoopbackMeansLoop => Loops!Probing!LoopbackMeansLoop
  BY DEF Underneath!Alone!LoopbackMeansLoop, Loops!Probing!LoopbackMeansLoop,
    Underneath!Alone!LeftElsewhere, Loops!Probing!LeftElsewhere,
    Underneath!Alone!Probes, Loops!Probing!Probes
<1> QED
  BY <1>1, <1>2, <1>3, NodesCabled, KeepsLoopsEngineSteps, PTL

(* Between nodes introduced from one side a link has one end that may talk, no two copies of
   a probe pass each other in mid-air, and no probe is forgotten; once no message is under
   way each has looped back once for every independent loop. *)
THEOREM TalkingOfNodes ==
  ASSUME Small, Loops!Probing!OneSided
  PROVE  Spec => [](/\ Loops!Probing!OneTalker
                    /\ Loops!Probing!NoMidAirCrossing
                    /\ Loops!Probing!NothingForgotten
                    /\ Loops!Probing!EveryLoopFound)
<1>1. Underneath!Spec => [](/\ Underneath!Alone!OneTalker
                            /\ Underneath!Alone!NoMidAirCrossing
                            /\ Underneath!Alone!NothingForgotten
                            /\ Underneath!Alone!EveryLoopFound)
  <2>1. Underneath!Underneath!OneSided
    BY DEF Loops!Probing!OneSided, Underneath!Underneath!OneSided
  <2> QED
    BY <2>1, SmallUnderneath, Underneath!TalkingUnderneath, PTL
<1>2. Underneath!Alone!NoMidAirCrossing => Loops!Probing!NoMidAirCrossing
  BY DEF Underneath!Alone!NoMidAirCrossing, Loops!Probing!NoMidAirCrossing,
    Underneath!Alone!Probes, Loops!Probing!Probes
<1>3. Underneath!Alone!NothingForgotten => Loops!Probing!NothingForgotten
  BY SameProbing DEF Underneath!Alone!NothingForgotten, Loops!Probing!NothingForgotten
<1>4. Cabled(network) /\ Underneath!Alone!EveryLoopFound => Loops!Probing!EveryLoopFound
  <2>1. /\ \A S : Underneath!Alone!LinksAmong(S) = Loops!Probing!LinksAmong(S)
        /\ \A p : Underneath!Alone!LoopbacksOf(p) = Loops!Probing!LoopbacksOf(p)
        /\ \A S : Underneath!Alone!Cardinality(S) = Loops!Probing!Cardinality(S)
    BY DEF Underneath!Alone!LinksAmong, Loops!Probing!LinksAmong, Underneath!Alone!LoopbacksOf,
      Loops!Probing!LoopbacksOf, Underneath!Alone!Cardinality, Loops!Probing!Cardinality
  <2> QED
    BY SameProbing, <2>1, SeenQuiet DEF Underneath!Alone!EveryLoopFound, Loops!Probing!EveryLoopFound
<1>5. Cabled(network) /\ Underneath!Alone!OneTalker => Loops!Probing!OneTalker
  <2> SUFFICES ASSUME Cabled(network), Underneath!Alone!OneTalker
               PROVE  Loops!Probing!OneTalker
    OBVIOUS
  <2>1. /\ Underneath!Alone!OkayToSendProbes = Loops!Probing!OkayToSendProbes
        /\ Loops!Probing!OkayToSendProbes.type \notin Others
        /\ Loops!Probing!OkayToSendProbes.type # "set-balance"
    BY DEF Underneath!Alone!OkayToSendProbes, Loops!Probing!OkayToSendProbes, Others
  <2>2. \A n, f \in Nodes : Underneath!Alone!InTransit(f, n, Loops!Probing!OkayToSendProbes)
                              <=> Loops!Probing!InTransit(f, n, Loops!Probing!OkayToSendProbes)
    BY <2>1, SeenTransit
  <2>3. \A n, f \in Nodes : Underneath!Alone!MayTalk(n, f) <=> Loops!Probing!MayTalk(n, f)
    BY <2>1, <2>2 DEF Underneath!Alone!MayTalk, Loops!Probing!MayTalk
  <2> QED
    BY <2>3 DEF Underneath!Alone!OneTalker, Loops!Probing!OneTalker
<1> QED
  BY <1>1, <1>2, <1>3, <1>4, <1>5, NodesCabled, KeepsLoopsEngineSteps, PTL

-----------------------------------------------------------------------------
(***************************************************************************)
(* Balances.  Where one end of each trustline sets the balance, and does   *)
(* so when it has the other for a friend, the ends agree on it.            *)
(***************************************************************************)
(* The messages of s about balances: none; the last is of this amount; none comes before
   'meet'. *)
NoneSet(s) == \A i \in 1..Len(s) : s[i].type # "set-balance"

LastSet(s, amount) ==
  \E i \in 1..Len(s) :
    /\ s[i].type = "set-balance" /\ s[i].amount = amount
    /\ \A j \in 1..Len(s) : i < j => s[j].type # "set-balance"

MeetFirst(s) ==
  \E i \in 1..Len(s) :
    /\ s[i].type = "meet"
    /\ \A j \in 1..Len(s) : j < i => s[j].type # "set-balance"

NoMeet(s) == \A i \in 1..Len(s) : s[i].type # "meet"

(* What the engines send to friends. *)
Routine == {message \in Underneath!Wire : message.type # "meet"}

(* More of that on every link. *)
Grows(net, more) ==
  \A x, y \in Nodes : \E w \in Seq(Routine) : more[x][y] = net[x][y] \o w

(* Such messages are not about balances. *)
LEMMA RoutineFacts ==
  ASSUME NEW w \in Seq(Routine)
  PROVE  NoneSet(w) /\ NoMeet(w) /\ w \in Seq(Cable)
<1>1. \A message \in Routine : message.type # "set-balance" /\ message.type # "meet"
                               /\ message \in Cable
  BY CableFacts DEF Routine, Cable
<1>2. \A i \in 1..Len(w) : w[i] \in Routine
  OBVIOUS
<1>3. w \in Seq(Cable)
  BY <1>1
<1> QED
  BY <1>1, <1>2, <1>3 DEF NoneSet, NoMeet

(* What remains when more is sent. *)
LEMMA AfterMore ==
  ASSUME NEW s \in Seq(Cable), NEW w \in Seq(Cable)
  PROVE  /\ NoneSet(s \o w) <=> NoneSet(s) /\ NoneSet(w)
         /\ NoMeet(s \o w) <=> NoMeet(s) /\ NoMeet(w)
         /\ MeetFirst(s) => MeetFirst(s \o w)
         /\ NoneSet(s) /\ MeetFirst(w) => MeetFirst(s \o w)
         /\ NoneSet(w) => \A amount : LastSet(s \o w, amount) => LastSet(s, amount)
<1> DEFINE u == s \o w
<1>1. /\ Len(u) = Len(s) + Len(w) /\ Len(s) \in Nat /\ Len(w) \in Nat
      /\ \A i \in 1..Len(s) : i \in 1..Len(u) /\ u[i] = s[i]
      /\ \A i \in 1..Len(w) : i + Len(s) \in 1..Len(u) /\ u[i + Len(s)] = w[i]
      /\ \A i \in 1..Len(u) : i \in 1..Len(s) \/ (i - Len(s) \in 1..Len(w) /\ u[i] = w[i - Len(s)])
  OBVIOUS
<1> HIDE DEF u
<1>2. NoneSet(u) <=> NoneSet(s) /\ NoneSet(w)
  BY <1>1 DEF NoneSet
<1>3. NoMeet(u) <=> NoMeet(s) /\ NoMeet(w)
  BY <1>1 DEF NoMeet
<1>4. MeetFirst(s) => MeetFirst(u)
  <2> SUFFICES ASSUME NEW i \in 1..Len(s), s[i].type = "meet",
                      \A j \in 1..Len(s) : j < i => s[j].type # "set-balance"
               PROVE  MeetFirst(u)
    BY DEF MeetFirst
  <2>1. i \in 1..Len(u) /\ u[i].type = "meet"
    BY <1>1
  <2>2. \A j \in 1..Len(u) : j < i => u[j].type # "set-balance"
    BY <1>1
  <2> QED
    BY <2>1, <2>2 DEF MeetFirst
<1>5. NoneSet(s) /\ MeetFirst(w) => MeetFirst(u)
  <2> SUFFICES ASSUME NoneSet(s), NEW i \in 1..Len(w), w[i].type = "meet",
                      \A j \in 1..Len(w) : j < i => w[j].type # "set-balance"
               PROVE  MeetFirst(u)
    BY DEF MeetFirst
  <2>1. i + Len(s) \in 1..Len(u) /\ u[i + Len(s)].type = "meet"
    BY <1>1
  <2>2. ASSUME NEW j \in 1..Len(u), j < i + Len(s)
        PROVE  u[j].type # "set-balance"
    <3>1. CASE j \in 1..Len(s)
      BY <1>1, <3>1 DEF NoneSet
    <3>2. CASE j - Len(s) \in 1..Len(w) /\ u[j] = w[j - Len(s)]
      <4>1. j - Len(s) < i
        BY <1>1, <2>2
      <4> QED
        BY <3>2, <4>1
    <3> QED
      BY <1>1, <3>1, <3>2
  <2> QED
    BY <2>1, <2>2 DEF MeetFirst
<1>6. ASSUME NoneSet(w), NEW amount, LastSet(u, amount)
      PROVE  LastSet(s, amount)
  <2>1. PICK i \in 1..Len(u) :
          /\ u[i].type = "set-balance" /\ u[i].amount = amount
          /\ \A j \in 1..Len(u) : i < j => u[j].type # "set-balance"
    BY <1>6 DEF LastSet
  <2>2. i \in 1..Len(s) /\ u[i] = s[i]
    BY <1>1, <1>6, <2>1 DEF NoneSet
  <2>3. \A j \in 1..Len(s) : i < j => s[j].type # "set-balance"
    BY <1>1, <2>1
  <2> QED
    BY <2>1, <2>2, <2>3 DEF LastSet
<1> QED
  BY <1>2, <1>3, <1>4, <1>5, <1>6 DEF u

(* What remains when the first message is taken. *)
LEMMA AfterFirst ==
  ASSUME NEW s \in Seq(Cable), s # <<>>
  PROVE  /\ Tail(s) \in Seq(Cable)
         /\ NoMeet(s) => NoMeet(Tail(s)) /\ Head(s).type # "meet"
         /\ NoneSet(s) => NoneSet(Tail(s)) /\ Head(s).type # "set-balance"
         /\ NoneSet(Tail(s)) /\ Head(s).type # "set-balance" => NoneSet(s)
         /\ NoneSet(Tail(s)) /\ Head(s).type = "set-balance" => LastSet(s, Head(s).amount)
         /\ MeetFirst(s) => Head(s).type # "set-balance"
         /\ MeetFirst(s) /\ Head(s).type # "meet" => MeetFirst(Tail(s))
         /\ \A amount : LastSet(Tail(s), amount) => LastSet(s, amount)
<1> DEFINE u == Tail(s)
<1>1. /\ u \in Seq(Cable) /\ Len(s) \in Nat /\ Len(s) = Len(u) + 1 /\ Len(u) \in Nat
      /\ 1 \in 1..Len(s) /\ Head(s) = s[1]
      /\ \A i \in 1..Len(u) : i + 1 \in 1..Len(s) /\ s[i + 1] = u[i]
      /\ \A i \in 1..Len(s) : i # 1 => i - 1 \in 1..Len(u) /\ u[i - 1] = s[i]
  OBVIOUS
<1> HIDE DEF u
<1>2. NoMeet(s) => NoMeet(u) /\ Head(s).type # "meet"
  BY <1>1 DEF NoMeet
<1>3. NoneSet(s) => NoneSet(u) /\ Head(s).type # "set-balance"
  BY <1>1 DEF NoneSet
<1>4. ASSUME NoneSet(u), Head(s).type # "set-balance"
      PROVE  NoneSet(s)
  BY <1>1, <1>4 DEF NoneSet
<1>5. ASSUME NoneSet(u), Head(s).type = "set-balance"
      PROVE  LastSet(s, Head(s).amount)
  <2>1. \A j \in 1..Len(s) : 1 < j => s[j].type # "set-balance"
    BY <1>1, <1>5 DEF NoneSet
  <2> QED
    BY <1>1, <1>5, <2>1 DEF LastSet
<1>6. ASSUME MeetFirst(s)
      PROVE  Head(s).type # "set-balance" /\ (Head(s).type # "meet" => MeetFirst(u))
  <2>1. PICK i \in 1..Len(s) :
          /\ s[i].type = "meet"
          /\ \A j \in 1..Len(s) : j < i => s[j].type # "set-balance"
    BY <1>6 DEF MeetFirst
  <2>2. CASE i = 1
    BY <1>1, <2>1, <2>2
  <2>3. CASE i # 1
    <3>1. i - 1 \in 1..Len(u) /\ u[i - 1].type = "meet" /\ 1 < i
      BY <1>1, <2>1, <2>3
    <3>2. \A j \in 1..Len(u) : j < i - 1 => u[j].type # "set-balance"
      <4> SUFFICES ASSUME NEW j \in 1..Len(u), j < i - 1
                   PROVE  u[j].type # "set-balance"
        OBVIOUS
      <4>1. j + 1 \in 1..Len(s) /\ s[j + 1] = u[j] /\ j + 1 < i
        BY <1>1
      <4> QED
        BY <2>1, <4>1
    <3> QED
      BY <1>1, <2>1, <3>1, <3>2 DEF MeetFirst
  <2> QED
    BY <2>2, <2>3
<1>7. ASSUME NEW amount, LastSet(u, amount)
      PROVE  LastSet(s, amount)
  <2>1. PICK i \in 1..Len(u) :
          /\ u[i].type = "set-balance" /\ u[i].amount = amount
          /\ \A j \in 1..Len(u) : i < j => u[j].type # "set-balance"
    BY <1>7 DEF LastSet
  <2>2. i + 1 \in 1..Len(s) /\ s[i + 1] = u[i]
    BY <1>1
  <2>3. \A j \in 1..Len(s) : i + 1 < j => s[j].type # "set-balance"
    <3> SUFFICES ASSUME NEW j \in 1..Len(s), i + 1 < j
                 PROVE  s[j].type # "set-balance"
      OBVIOUS
    <3>1. j - 1 \in 1..Len(u) /\ u[j - 1] = s[j] /\ i < j - 1
      BY <1>1
    <3> QED
      BY <2>1, <3>1
  <2> QED
    BY <2>1, <2>2, <2>3 DEF LastSet
<1> QED
  BY <1>1, <1>2, <1>3, <1>4, <1>5, <1>6, <1>7 DEF u

(* The amount set last is one. *)
LEMMA LastOnly ==
  ASSUME NEW s \in Seq(Cable), NEW message \in Cable, message.type = "set-balance",
         NEW amount, LastSet(s \o <<message>>, amount)
  PROVE  amount = message.amount
<1> DEFINE u == s \o <<message>>
<1>1. Len(s) \in Nat /\ Len(u) = Len(s) + 1 /\ u[Len(u)] = message /\ Len(u) \in 1..Len(u)
  OBVIOUS
<1> HIDE DEF u
<1>2. PICK i \in 1..Len(u) :
        /\ u[i].type = "set-balance" /\ u[i].amount = amount
        /\ \A j \in 1..Len(u) : i < j => u[j].type # "set-balance"
  BY DEF LastSet, u
<1>3. i = Len(u)
  BY <1>1, <1>2
<1> QED
  BY <1>1, <1>2, <1>3

-----------------------------------------------------------------------------
(***************************************************************************)
(* What the engines do to the messages about balances: nothing.            *)
(***************************************************************************)
(* The messages of the engines but 'meet'. *)
LEMMA RoutineMessages ==
  /\ Loops!Tracing!Probing!HaveProbes \in Routine
  /\ Loops!Tracing!Probing!OkayToSendProbes \in Routine
  /\ \A message \in Underneath!Tracing!TraceMessages : message \in Routine
  /\ \A h : Underneath!Propose(h) \in Underneath!Wire => Underneath!Propose(h) \in Routine
  /\ \A h, secret : Underneath!Commit(h, secret) \in Underneath!Wire =>
                      Underneath!Commit(h, secret) \in Routine
<1>1. /\ Loops!Tracing!Probing!HaveProbes.type # "meet"
      /\ Loops!Tracing!Probing!OkayToSendProbes.type # "meet"
  BY DEF Loops!Tracing!Probing!HaveProbes, Loops!Tracing!Probing!OkayToSendProbes
<1>2. \A message \in Underneath!Tracing!TraceMessages :
        message.type # "meet" /\ message \in Underneath!Wire
  BY DEF Underneath!Tracing!TraceMessages, Underneath!Tracing!TraceMessage, Underneath!Wire,
    Underneath!Plain
<1>3. \A h : Underneath!Propose(h).type # "meet"
  BY DEF Underneath!Propose
<1>4. \A h, secret : Underneath!Commit(h, secret).type # "meet"
  BY DEF Underneath!Commit
<1> QED
  BY <1>1, <1>2, <1>3, <1>4, SignalsCable DEF Routine

(* A burst of probes. *)
LEMMA RoutineBurst ==
  ASSUME Small, NEW S \in SUBSET Introductions
  PROVE  Loops!Tracing!Probing!Burst(S) \in Seq(Routine)
<1> DEFINE burst == Loops!Tracing!Probing!Burst(S)
<1>1. burst \in Seq(Underneath!Wire)
  <2>1. Underneath!Tracing!Probing!Burst(S) \in Seq(Underneath!Plain)
    BY Underneath!BurstPlain, SmallUnderneath
  <2> QED
    BY <2>1, SameSignals DEF Underneath!Wire
<1>2. ASSUME NEW i \in 1..Len(burst)
      PROVE  burst[i].type # "meet"
  <2>1. burst = [j \in 1..Loops!Tracing!Probing!Cardinality(S) |->
                   Loops!Tracing!Probing!ProbeMessage(Loops!Tracing!Probing!AnOrder(S)[j])]
    BY DEF Loops!Tracing!Probing!Burst
  <2>2. i \in DOMAIN burst
    <3> HIDE DEF burst
    <3> QED
      BY <1>1, <1>2
  <2>3. burst[i] = Loops!Tracing!Probing!ProbeMessage(Loops!Tracing!Probing!AnOrder(S)[i])
    BY <2>1, <2>2
  <2> QED
    BY <2>3 DEF Loops!Tracing!Probing!ProbeMessage
<1> HIDE DEF burst
<1>3. burst \in Seq({message \in Underneath!Wire : message.type # "meet"})
  BY <1>1, <1>2
<1> QED
  BY <1>3 DEF Routine, burst

(* One node sends to some others. *)
LEMMA GrowsMore ==
  ASSUME NEW net, Cabled(net), NEW n \in Nodes, NEW more \in SendingsOf(Nodes, Routine)
  PROVE  Grows(net, MoreSent(Nodes, net, n, more))
<1>1. ASSUME NEW x \in Nodes, NEW y \in Nodes
      PROVE  \E w \in Seq(Routine) : MoreSent(Nodes, net, n, more)[x][y] = net[x][y] \o w
  <2>1. net \in [Nodes -> [Nodes -> Seq(Cable)]] /\ more[y] \in Seq(Routine)
    BY DEF Cabled, NetworksOf, SendingsOf
  <2>2. CASE x = n
    <3>1. MoreSent(Nodes, net, n, more)[x][y] = net[x][y] \o more[y]
      BY <2>1, <2>2 DEF MoreSent
    <3> QED
      BY <2>1, <3>1
  <2>3. CASE x # n
    <3>1. net[x][y] \in Seq(Cable)
      BY <2>1
    <3>2. MoreSent(Nodes, net, n, more)[x][y] = net[x][y] \o <<>> /\ <<>> \in Seq(Routine)
      BY <2>1, <2>3, <3>1 DEF MoreSent
    <3> QED
      BY <3>2
  <2> QED
    BY <2>2, <2>3
<1> QED
  BY <1>1 DEF Grows

(* To one. *)
LEMMA GrowsSent ==
  ASSUME NEW net, Cabled(net), NEW n \in Nodes, NEW f \in Nodes, NEW messages \in Seq(Routine)
  PROVE  Grows(net, Loops!Tracing!Probing!Sent(net, n, f, messages))
<1>1. ASSUME NEW x \in Nodes, NEW y \in Nodes
      PROVE  \E w \in Seq(Routine) :
               Loops!Tracing!Probing!Sent(net, n, f, messages)[x][y] = net[x][y] \o w
  <2>1. net \in [Nodes -> [Nodes -> Seq(Cable)]]
    BY DEF Cabled, NetworksOf
  <2>2. CASE x = n /\ y = f
    BY <2>1, <2>2 DEF Loops!Tracing!Probing!Sent
  <2>3. CASE ~(x = n /\ y = f)
    <3>1. net[x][y] \in Seq(Cable)
      BY <2>1
    <3>2. Loops!Tracing!Probing!Sent(net, n, f, messages)[x][y] = net[x][y]
      BY <2>1, <2>3 DEF Loops!Tracing!Probing!Sent
    <3>3. net[x][y] = net[x][y] \o <<>> /\ <<>> \in Seq(Routine)
      BY <3>1
    <3> QED
      BY <3>2, <3>3
  <2> QED
    BY <2>2, <2>3
<1> QED
  BY <1>1 DEF Grows

(* One message to each of some. *)
LEMMA GrowsBroadcast ==
  ASSUME NEW net, Cabled(net), NEW n \in Nodes, NEW messages,
         \A f \in DOMAIN messages \cap Nodes : messages[f] \in Routine
  PROVE  Grows(net, Loops!Tracing!Broadcast(net, n, messages))
<1>1. ASSUME NEW x \in Nodes, NEW y \in Nodes
      PROVE  \E w \in Seq(Routine) :
               Loops!Tracing!Broadcast(net, n, messages)[x][y] = net[x][y] \o w
  <2>1. net \in [Nodes -> [Nodes -> Seq(Cable)]] /\ net[x][y] \in Seq(Cable)
    BY DEF Cabled, NetworksOf
  <2>2. CASE x = n /\ y \in DOMAIN messages
    <3>1. messages[y] \in Routine /\ messages[y] \in Cable
      BY <2>2 DEF Routine, Cable
    <3>2. Loops!Tracing!Broadcast(net, n, messages)[x][y] = Append(net[x][y], messages[y])
      BY <2>1, <2>2 DEF Loops!Tracing!Broadcast
    <3>3. Append(net[x][y], messages[y]) = net[x][y] \o <<messages[y]>>
      <4>1. \A s \in Seq(Cable), w \in Cable : Append(s, w) = s \o <<w>>
        OBVIOUS
      <4> QED
        BY <2>1, <3>1, <4>1
    <3>4. <<messages[y]>> \in Seq(Routine)
      BY <3>1
    <3> QED
      BY <3>2, <3>3, <3>4
  <2>3. CASE ~(x = n /\ y \in DOMAIN messages)
    <3>1. Loops!Tracing!Broadcast(net, n, messages)[x][y] = net[x][y]
      BY <2>1, <2>3 DEF Loops!Tracing!Broadcast
    <3>2. net[x][y] = net[x][y] \o <<>> /\ <<>> \in Seq(Routine)
      BY <2>1
    <3> QED
      BY <3>1, <3>2
  <2> QED
    BY <2>2, <2>3
<1> QED
  BY <1>1 DEF Grows

(* Probes that are queued. *)
LEMMA GrowsQueueing ==
  ASSUME Small, NEW n \in Nodes, NEW status, NEW net, Cabled(net),
         NEW queued \in [Nodes -> SUBSET Introductions],
         offer \in [Nodes -> [Nodes -> SUBSET Introductions]],
         Loops!Tracing!Probing!QueueProbes(n, status, queued, net)
  PROVE  Grows(net, network')
<1> DEFINE more == [f \in Nodes |-> Loops!Tracing!Probing!Queued(n, status, queued, f)]
<1>1. ASSUME NEW f \in Nodes
      PROVE  Loops!Tracing!Probing!Queued(n, status, queued, f) \in Seq(Routine)
  <2> DEFINE S == Loops!Tracing!Probing!Flushed(n, status, queued, f)
  <2>1. S \in SUBSET Introductions
    BY DEF Loops!Tracing!Probing!Flushed, Loops!Tracing!Probing!Virgin
  <2> HIDE DEF S
  <2>2. Loops!Tracing!Probing!Burst(S) \in Seq(Routine)
    BY <2>1, RoutineBurst
  <2>3. (IF Loops!Tracing!Probing!Raises(status, queued, f)
         THEN <<Loops!Tracing!Probing!HaveProbes>> ELSE <<>>) \in Seq(Routine)
    BY RoutineMessages
  <2> QED
    BY <2>2, <2>3 DEF Loops!Tracing!Probing!Queued, S
<1>2. more \in SendingsOf(Nodes, Routine)
  BY <1>1 DEF SendingsOf
<1>3. network' = MoreSent(Nodes, net, n, more)
  BY DEF Loops!Tracing!Probing!QueueProbes, MoreSent
<1> HIDE DEF more
<1> QED
  BY <1>2, <1>3, GrowsMore

(* Nothing. *)
LEMMA GrowsNot ==
  ASSUME NEW net, Cabled(net)
  PROVE  Grows(net, net)
<1>1. ASSUME NEW x \in Nodes, NEW y \in Nodes
      PROVE  \E w \in Seq(Routine) : net[x][y] = net[x][y] \o w
  <2>1. net[x][y] \in Seq(Cable)
    BY DEF Cabled, NetworksOf
  <2>2. net[x][y] = net[x][y] \o <<>> /\ <<>> \in Seq(Routine)
    BY <2>1
  <2> QED
    BY <2>2
<1> QED
  BY <1>1 DEF Grows

(* No friend is added but by 'meet'. *)
Befriends(m, n) ==
  \A x, y \in Nodes :
    hand'[x][y] = "none" <=>
      hand[x][y] = "none" /\ ~(x = n /\ y = m /\ Head(network[m][n]).type = "meet")

(* A handler takes a message that is not about balances and sends some that are not,
   and no 'meet'. *)
Routinely(m, n) ==
  /\ network[m][n] # <<>> /\ Head(network[m][n]).type # "set-balance"
  /\ Grows(Loops!Tracing!Probing!Taken(m, n), network')
  /\ Befriends(m, n)

(* What is known of the engines. *)
EnginesOK == NodesOK /\ Underneath!Alone!TypeOK /\ Underneath!Alone!NoStranger

(* The friends of a node, and who has not met it. *)
LEMMA Acquaintance ==
  ASSUME EnginesOK
  PROVE  /\ \E statuses : hand \in [Nodes -> [Nodes -> statuses]]
         /\ \A m, n \in Nodes :
              network[m][n] # <<>> /\ Head(network[m][n]).type \in {"have-probes", "okay-to-send-probes"}
                => hand[n][m] # "none"
<1>1. hand \in [Nodes -> [Nodes -> Underneath!Alone!HandRaisingStatus]]
  BY DEF EnginesOK, Underneath!Alone!TypeOK, Underneath!Alone!Statuses
<1>2. ASSUME NEW m \in Nodes, NEW n \in Nodes, network[m][n] # <<>>,
             Head(network[m][n]).type \in {"have-probes", "okay-to-send-probes"}
      PROVE  hand[n][m] # "none"
  <2> DEFINE s == network[m][n]
             u == Without(s, {"set-balance"})
             v == Without(u, Others)
  <2>1. s \in Seq(Cable) /\ u \in Seq(Cable) /\ Filtered(Seen(network), Others)[m][n] = v
    BY SeenLink DEF EnginesOK, NodesOK
  <2>2. s # <<>> /\ Head(s).type \notin {"set-balance"} /\ Head(s).type \notin Others
        /\ Head(s).type # "meet"
    BY <1>2 DEF Others
  <2> HIDE DEF s
  <2>3. u # <<>> /\ Head(u) = Head(s)
    <3> DEFINE types == {"set-balance"}
    <3>1. Head(s).type \notin types
      BY <2>2
    <3> HIDE DEF types
    <3>2. Without(s, types) # <<>> /\ Head(Without(s, types)) = Head(s)
      BY <2>1, <2>2, <3>1, WithoutTail
    <3> QED
      BY <3>2 DEF types
  <2> HIDE DEF u
  <2>4. v # <<>> /\ Head(v) = Head(s)
    BY <2>1, <2>2, <2>3, WithoutTail
  <2> HIDE DEF v
  <2>5. Head(v) # Underneath!Alone!MeetMessage
    BY <2>2, <2>4 DEF Underneath!Alone!MeetMessage
  <2>6. \A x, y \in Nodes :
          Filtered(Seen(network), Others)[x][y] # <<>> /\ hand[y][x] = "none" =>
            Head(Filtered(Seen(network), Others)[x][y]) = Underneath!Alone!MeetMessage
    BY SameFilter DEF EnginesOK, Underneath!Alone!NoStranger, Seen, Others
  <2> QED
    BY <2>1, <2>4, <2>5, <2>6
<1> QED
  BY <1>1, <1>2

(* What the probes engine queues, it queues for friends. *)
LEMMA QueueingBefriends ==
  ASSUME NEW n \in Nodes, NEW status, NEW net, NEW queued,
         NEW statuses, hand \in [Nodes -> [Nodes -> statuses]],
         Loops!Tracing!Probing!QueueProbes(n, status, queued, net)
  PROVE  \A x, y \in Nodes : hand'[x][y] = "none" <=> (IF x = n THEN status[y] ELSE hand[x][y]) = "none"
<1>1. hand' = [hand EXCEPT ![n] = [f \in Nodes |->
                 IF Loops!Tracing!Probing!Raises(status, queued, f) THEN "waiting" ELSE status[f]]]
  BY DEF Loops!Tracing!Probing!QueueProbes
<1>2. \A f : Loops!Tracing!Probing!Raises(status, queued, f) => status[f] = "listening"
  BY DEF Loops!Tracing!Probing!Raises
<1> QED
  BY <1>1, <1>2

LEMMA RoutineHandleMeet ==
  ASSUME Small, EnginesOK, NEW m \in Nodes, NEW n \in Nodes, Loops!Tracing!Probing!HandleMeet(m, n)
  PROVE  Routinely(m, n)
<1> DEFINE queued == [f \in Nodes |-> IF f = m THEN known[n] ELSE {}]
           rest == Loops!Tracing!Probing!Taken(m, n)
           status == [hand[n] EXCEPT ![m] = "listening"]
<1>0. /\ Cabled(network) /\ known \in [Nodes -> SUBSET Introductions]
      /\ offer \in [Nodes -> [Nodes -> SUBSET Introductions]]
  BY DEF EnginesOK, NodesOK, Underneath!LiftInv, Underneath!WireOK
<1>1. queued \in [Nodes -> SUBSET Introductions]
  BY <1>0
<1>2. /\ Loops!Tracing!Probing!Arrives(m, n, Loops!Tracing!Probing!MeetMessage)
      /\ Loops!Tracing!Probing!QueueProbes(n, status, queued, rest)
  BY DEF Loops!Tracing!Probing!HandleMeet
<1>3. network[m][n] # <<>> /\ Head(network[m][n]).type = "meet"
  BY <1>2 DEF Loops!Tracing!Probing!Arrives, Loops!Tracing!Probing!MeetMessage
<1>4. Cabled(rest)
  BY <1>0, <1>2, SeenArrives, SignalsCable
<1>5. PICK statuses : hand \in [Nodes -> [Nodes -> statuses]]
  BY Acquaintance
<1>6. \A y \in Nodes : status[y] = (IF y = m THEN "listening" ELSE hand[n][y])
  BY <1>5
<1> HIDE DEF queued, rest, status
<1>7. Grows(rest, network')
  BY <1>0, <1>1, <1>2, <1>4, GrowsQueueing
<1>8. \A x, y \in Nodes : hand'[x][y] = "none" <=> (IF x = n THEN status[y] ELSE hand[x][y]) = "none"
  BY <1>2, <1>5, QueueingBefriends
<1> QED
  BY <1>3, <1>6, <1>7, <1>8 DEF Routinely, Befriends, rest

LEMMA RoutineFlood ==
  ASSUME Small, EnginesOK, NEW m \in Nodes, NEW n \in Nodes, NEW p \in Introductions,
         Loops!Tracing!Probing!FloodNewProbe(m, n, p)
  PROVE  Routinely(m, n)
<1> DEFINE queued == [f \in Nodes |->
                        IF f \in Loops!Tracing!Probing!Friends(n) \ {m} THEN {p} ELSE {}]
           rest == Loops!Tracing!Probing!Taken(m, n)
<1>0. /\ Cabled(network)
      /\ offer \in [Nodes -> [Nodes -> SUBSET Introductions]]
  BY DEF EnginesOK, NodesOK, Underneath!LiftInv, Underneath!WireOK
<1>1. queued \in [Nodes -> SUBSET Introductions]
  OBVIOUS
<1>2. /\ Loops!Tracing!Probing!Arrives(m, n, Loops!Tracing!Probing!ProbeMessage(p))
      /\ Loops!Tracing!Probing!QueueProbes(n, hand[n], queued, rest)
  BY DEF Loops!Tracing!Probing!FloodNewProbe
<1>3. network[m][n] # <<>> /\ Head(network[m][n]).type = "probe"
  BY <1>2 DEF Loops!Tracing!Probing!Arrives, Loops!Tracing!Probing!ProbeMessage
<1>4. Cabled(rest)
  BY <1>0, <1>2, SeenArrives, SignalsCable
<1>5. PICK statuses : hand \in [Nodes -> [Nodes -> statuses]]
  BY Acquaintance
<1> HIDE DEF queued, rest
<1>6. Grows(rest, network')
  BY <1>0, <1>1, <1>2, <1>4, GrowsQueueing
<1>7. \A x, y \in Nodes : hand'[x][y] = "none" <=> (IF x = n THEN hand[n][y] ELSE hand[x][y]) = "none"
  BY <1>2, <1>5, QueueingBefriends
<1> QED
  BY <1>3, <1>6, <1>7 DEF Routinely, Befriends, rest

(* A handler that adds no friend. *)
LEMMA RoutineOther ==
  ASSUME NEW m \in Nodes, NEW n \in Nodes, network[m][n] # <<>>,
         Head(network[m][n]).type # "set-balance", Head(network[m][n]).type # "meet",
         UNCHANGED hand, Grows(Loops!Tracing!Probing!Taken(m, n), network')
  PROVE  Routinely(m, n)
BY DEF Routinely, Befriends

LEMMA RoutineIgnore ==
  ASSUME EnginesOK, NEW m \in Nodes, NEW n \in Nodes, NEW p \in Introductions,
         Loops!Tracing!Probing!IgnoreProbe(m, n, p)
  PROVE  Routinely(m, n)
<1>1. /\ Loops!Tracing!Probing!Arrives(m, n, Loops!Tracing!Probing!ProbeMessage(p))
      /\ network' = Loops!Tracing!Probing!Taken(m, n)
      /\ UNCHANGED hand
  BY DEF Loops!Tracing!Probing!IgnoreProbe
<1>2. network[m][n] # <<>> /\ Head(network[m][n]).type = "probe"
  BY <1>1 DEF Loops!Tracing!Probing!Arrives, Loops!Tracing!Probing!ProbeMessage
<1>3. Cabled(Loops!Tracing!Probing!Taken(m, n))
  BY <1>1, SeenArrives, SignalsCable DEF EnginesOK, NodesOK
<1>4. Grows(Loops!Tracing!Probing!Taken(m, n), network')
  BY <1>1, <1>3, GrowsNot
<1> QED
  BY <1>1, <1>2, <1>4, RoutineOther

LEMMA RoutineHaveProbes ==
  ASSUME EnginesOK, NEW m \in Nodes, NEW n \in Nodes, Loops!Tracing!Probing!HandleHaveProbes(m, n)
  PROVE  Routinely(m, n)
<1> DEFINE rest == Loops!Tracing!Probing!Taken(m, n)
           okay == <<Loops!Tracing!Probing!OkayToSendProbes>>
<1>1. /\ Loops!Tracing!Probing!Arrives(m, n, Loops!Tracing!Probing!HaveProbes)
      /\ hand' = [hand EXCEPT ![n][m] = "listening"]
      /\ network' = Loops!Tracing!Probing!Sent(rest, n, m, okay)
  BY DEF Loops!Tracing!Probing!HandleHaveProbes
<1>2. network[m][n] # <<>> /\ Head(network[m][n]).type = "have-probes"
  BY <1>1 DEF Loops!Tracing!Probing!Arrives, Loops!Tracing!Probing!HaveProbes
<1>3. Cabled(rest)
  BY <1>1, SeenArrives, SignalsCable DEF EnginesOK, NodesOK
<1>4. okay \in Seq(Routine)
  BY RoutineMessages
<1> HIDE DEF rest, okay
<1>5. Grows(rest, network')
  BY <1>1, <1>3, <1>4, GrowsSent
<1>6. hand[n][m] # "none"
  BY <1>2, Acquaintance
<1>7. PICK statuses : hand \in [Nodes -> [Nodes -> statuses]]
  BY Acquaintance
<1>8. Befriends(m, n)
  BY <1>1, <1>2, <1>6, <1>7 DEF Befriends
<1> QED
  BY <1>2, <1>5, <1>8 DEF Routinely, rest

LEMMA RoutineOkay ==
  ASSUME Small, EnginesOK, NEW m \in Nodes, NEW n \in Nodes,
         Loops!Tracing!Probing!HandleOkayToSendProbes(m, n)
  PROVE  Routinely(m, n)
<1> DEFINE rest == Loops!Tracing!Probing!Taken(m, n)
           flushed == Loops!Tracing!Probing!Virgin(n, m, offer[n][m])
           burst == Loops!Tracing!Probing!Burst(flushed)
<1>0. Cabled(network) /\ offer \in [Nodes -> [Nodes -> SUBSET Introductions]]
  BY DEF EnginesOK, NodesOK, Underneath!LiftInv, Underneath!WireOK
<1>1. /\ Loops!Tracing!Probing!Arrives(m, n, Loops!Tracing!Probing!OkayToSendProbes)
      /\ hand' = [hand EXCEPT ![n][m] = "talking"]
      /\ network' = Loops!Tracing!Probing!Sent(rest, n, m, burst)
  BY DEF Loops!Tracing!Probing!HandleOkayToSendProbes
<1>2. network[m][n] # <<>> /\ Head(network[m][n]).type = "okay-to-send-probes"
  BY <1>1 DEF Loops!Tracing!Probing!Arrives, Loops!Tracing!Probing!OkayToSendProbes
<1>3. Cabled(rest)
  BY <1>0, <1>1, SeenArrives, SignalsCable
<1>4. burst \in Seq(Routine)
  <2>1. flushed \in SUBSET Introductions
    BY <1>0 DEF Loops!Tracing!Probing!Virgin
  <2> HIDE DEF flushed
  <2> QED
    BY <2>1, RoutineBurst
<1> HIDE DEF rest, burst
<1>5. Grows(rest, network')
  BY <1>1, <1>3, <1>4, GrowsSent
<1>6. hand[n][m] # "none"
  BY <1>2, Acquaintance
<1>7. PICK statuses : hand \in [Nodes -> [Nodes -> statuses]]
  BY Acquaintance
<1>8. Befriends(m, n)
  BY <1>1, <1>2, <1>6, <1>7 DEF Befriends
<1> QED
  BY <1>2, <1>5, <1>8 DEF Routinely, rest

LEMMA RoutineLoopback ==
  ASSUME EnginesOK, NEW m \in Nodes, NEW n \in Nodes, NEW p \in Introductions,
         Loops!Tracing!HandleProbeLoopback(m, n, p)
  PROVE  Routinely(m, n)
<1> DEFINE t == <<p, n, m>>
           senders == from[n][p] \cup {m}
           messages == [f \in senders |-> Loops!Tracing!TraceMessage(t, f)]
           rest == Loops!Tracing!Probing!Taken(m, n)
<1>1. /\ Loops!Tracing!Probing!Arrives(m, n, Loops!Tracing!Probing!ProbeMessage(p))
      /\ UNCHANGED hand
      /\ network' = Loops!Tracing!Broadcast(rest, n, messages)
  BY DEF Loops!Tracing!HandleProbeLoopback, Loops!Tracing!Probing!RecordLoopback
<1>2. network[m][n] # <<>> /\ Head(network[m][n]).type = "probe"
  BY <1>1 DEF Loops!Tracing!Probing!Arrives, Loops!Tracing!Probing!ProbeMessage
<1>3. Cabled(rest)
  BY <1>1, SeenArrives, SignalsCable DEF EnginesOK, NodesOK
<1>4. \A f \in DOMAIN messages \cap Nodes : messages[f] \in Routine
  <2>1. \A f \in DOMAIN messages \cap Nodes : messages[f] \in Underneath!Tracing!TraceMessages
    BY SameTraces DEF Underneath!Tracing!TraceMessages, Underneath!Tracing!Traces
  <2> QED
    BY <2>1, RoutineMessages
<1> HIDE DEF rest, messages
<1>5. Grows(rest, network')
  BY <1>1, <1>3, <1>4, GrowsBroadcast
<1> QED
  BY <1>1, <1>2, <1>5, RoutineOther DEF rest

LEMMA RoutineTrace ==
  ASSUME EnginesOK, NEW m \in Nodes, NEW n \in Nodes, Loops!Tracing!PassTrace(m, n)
  PROVE  Routinely(m, n)
<1> DEFINE rest == Loops!Tracing!Probing!Taken(m, n)
<1>0. Cabled(network)
  BY DEF EnginesOK, NodesOK
<1>1. PICK message \in Loops!Tracing!Arriving(m, n) :
        /\ \/ Loops!Tracing!IgnoreTrace(m, n, message.trace, message.leg)
           \/ Loops!Tracing!ForwardTrace(m, n, message.trace, message.leg)
           \/ Loops!Tracing!BounceTrace(m, n, message.trace, message.leg)
        /\ UNCHANGED <<hand, known, from, to, offer, loopbacks>>
  BY DEF Loops!Tracing!PassTrace, Loops!Tracing!probing
<1> DEFINE t == message.trace
           leg == message.leg
<1>2. /\ message \in Underneath!Tracing!TraceMessages
      /\ t \in Underneath!Tracing!Traces /\ leg \in Nodes
      /\ network[m][n] # <<>> /\ Head(network[m][n]) = message
      /\ Cabled(rest)
  BY <1>0, SeenArriving
<1>3. message \in Routine
  BY <1>2, RoutineMessages
<1>4. message.type # "set-balance" /\ message.type # "meet"
  BY <1>3, CableFacts DEF Routine
<1> HIDE DEF rest, t, leg
<1>5. ASSUME NEW hops
      PROVE  Grows(rest, Loops!Tracing!Broadcast(rest, n,
                           [f \in hops |-> Loops!Tracing!TraceMessage(t, leg)]))
  <2> DEFINE messages == [f \in hops |-> Loops!Tracing!TraceMessage(t, leg)]
  <2>1. Loops!Tracing!TraceMessage(t, leg) \in Routine
    BY <1>2, SameTraces, RoutineMessages DEF Underneath!Tracing!TraceMessages
  <2>2. \A f \in DOMAIN messages \cap Nodes : messages[f] \in Routine
    BY <2>1
  <2> HIDE DEF messages
  <2>3. Grows(rest, Loops!Tracing!Broadcast(rest, n, messages))
    BY <1>2, <2>2, GrowsBroadcast
  <2> QED
    BY <2>3 DEF messages
<1>6. ASSUME Loops!Tracing!IgnoreTrace(m, n, t, leg)
      PROVE  Grows(rest, network')
  <2>1. network' = rest
    BY <1>6 DEF Loops!Tracing!IgnoreTrace, rest
  <2> QED
    BY <1>2, <2>1, GrowsNot
<1>7. ASSUME Loops!Tracing!ForwardTrace(m, n, t, leg)
      PROVE  Grows(rest, network')
  <2> DEFINE hops == Loops!Tracing!Opposite(m, n, t[1])
  <2>1. network' = Loops!Tracing!Broadcast(rest, n, [f \in hops |-> Loops!Tracing!TraceMessage(t, leg)])
    BY <1>7 DEF Loops!Tracing!ForwardTrace, rest
  <2> QED
    BY <1>5, <2>1
<1>8. ASSUME Loops!Tracing!BounceTrace(m, n, t, leg)
      PROVE  Grows(rest, network')
  <2> DEFINE hops == {Loops!Tracing!FirstKey(Loops!Tracing!Logged(Loops!Tracing!Log(n, t), m, leg),
                        Loops!Tracing!Bounces(m, n, t, leg))}
  <2>1. network' = Loops!Tracing!Broadcast(rest, n, [f \in hops |-> Loops!Tracing!TraceMessage(t, leg)])
    BY <1>8 DEF Loops!Tracing!BounceTrace, rest
  <2> QED
    BY <1>5, <2>1
<1>9. Grows(rest, network')
  BY <1>1, <1>6, <1>7, <1>8 DEF t, leg
<1> QED
  BY <1>1, <1>2, <1>4, <1>9, RoutineOther DEF rest

(* A message of a lift arrives. *)
LEMMA RoutineArriving ==
  ASSUME EnginesOK, NEW m \in Nodes, NEW n \in Nodes, NEW type, type # "set-balance", type # "meet",
         NEW message \in Loops!Arriving(m, n, type)
  PROVE  /\ network[m][n] # <<>>
         /\ Head(network[m][n]).type # "set-balance" /\ Head(network[m][n]).type # "meet"
         /\ Cabled(Loops!Tracing!Probing!Taken(m, n))
         /\ Loops!Probing!Taken(m, n) = Loops!Tracing!Probing!Taken(m, n)
<1>1. network[m][n] # <<>> /\ Head(network[m][n]).type = type
  BY DEF Loops!Arriving
<1>2. Cabled(Loops!Tracing!Probing!Taken(m, n))
  BY <1>1, SeenTaken DEF EnginesOK, NodesOK
<1>3. Loops!Probing!Taken(m, n) = Loops!Tracing!Probing!Taken(m, n)
  BY DEF Loops!Probing!Taken, Loops!Tracing!Probing!Taken
<1> QED
  BY <1>1, <1>2, <1>3

(* And is answered, or passed on. *)
LEMMA RoutineSend ==
  ASSUME NEW m \in Nodes, NEW n \in Nodes, NEW f, NEW message \in Routine,
         network[m][n] # <<>>, Head(network[m][n]).type # "set-balance",
         Head(network[m][n]).type # "meet", Cabled(Loops!Tracing!Probing!Taken(m, n)),
         UNCHANGED hand, Loops!Send(m, n, f, message)
  PROVE  Routinely(m, n)
<1> DEFINE messages == [g \in {f} |-> message]
           rest == Loops!Tracing!Probing!Taken(m, n)
<1>1. Loops!Probing!Taken(m, n) = rest
  BY DEF Loops!Probing!Taken, Loops!Tracing!Probing!Taken
<1>2. \A g \in DOMAIN messages \cap Nodes : messages[g] \in Routine
  OBVIOUS
<1>3. network' = Loops!Tracing!Broadcast(rest, n, messages)
  BY <1>1 DEF Loops!Send
<1>4. Grows(rest, network')
  <2> HIDE DEF rest, messages
  <2>1. Cabled(rest)
    BY DEF rest
  <2> QED
    BY <1>2, <1>3, <2>1, GrowsBroadcast
<1> QED
  BY <1>4, RoutineOther

LEMMA RoutineFound ==
  ASSUME Small, EnginesOK, NEW m \in Nodes, NEW n \in Nodes, Loops!HandleLoopFound(m, n)
  PROVE  Routinely(m, n)
<1>0. Cabled(network) /\ Underneath!TablesOK
  BY DEF EnginesOK, NodesOK, Underneath!LiftInv
<1>1. PICK message \in Loops!Tracing!Arriving(m, n) :
        /\ Loops!Tracing!RecordLoop(m, n, message.trace, message.leg)
        /\ Loops!Send(m, n, message.leg, Loops!Propose(Loops!NewHash(n, message.trace, message.leg, m)))
  BY DEF Loops!HandleLoopFound
<1> DEFINE t == message.trace
           leg == message.leg
           h == Loops!NewHash(n, t, leg, m)
<1>2. /\ message \in Underneath!Tracing!Arriving(m, n)
      /\ message \in Underneath!Tracing!TraceMessages
      /\ message = Underneath!Tracing!TraceMessage(t, leg)
      /\ t \in Underneath!Tracing!Traces /\ leg \in Nodes
      /\ network[m][n] # <<>> /\ Head(network[m][n]) = message
      /\ Cabled(Loops!Tracing!Probing!Taken(m, n))
  BY <1>0, SeenArriving
<1>3. message.type # "set-balance" /\ message.type # "meet"
  BY <1>2, RoutineMessages, CableFacts DEF Routine
<1>4. h \in Underneath!Hashes
  <2>1. Underneath!NewHash(n, t, leg, m) \in Underneath!Hashes
    BY <1>0, <1>2, Underneath!NewHashFacts, SmallUnderneath
  <2> QED
    BY <2>1, SameLifts
<1>5. Loops!Propose(h) \in Routine
  <2> HIDE DEF h
  <2>1. Underneath!Propose(h) \in Underneath!Wire
    BY <1>4 DEF Underneath!Wire, Underneath!Proposals
  <2> QED
    BY <2>1, SameTraces, RoutineMessages
<1>6. UNCHANGED hand
  BY <1>1 DEF Loops!Tracing!RecordLoop, Loops!Tracing!probing
<1>7. Loops!Send(m, n, leg, Loops!Propose(h))
  BY <1>1
<1> HIDE DEF h, leg
<1> QED
  BY <1>2, <1>3, <1>5, <1>6, <1>7, RoutineSend

LEMMA RoutineForward ==
  ASSUME Small, EnginesOK, NEW m \in Nodes, NEW n \in Nodes, Loops!ForwardPropose(m, n)
  PROVE  Routinely(m, n)
<1>0. Cabled(network) /\ Underneath!WireOK
  BY DEF EnginesOK, NodesOK, Underneath!LiftInv
<1>1. PICK message \in Loops!Arriving(m, n, "propose") :
        /\ Loops!Send(m, n, Loops!OtherParty(n, m, message.lift), Loops!Propose(message.lift))
        /\ UNCHANGED hand
  BY DEF Loops!ForwardPropose, Loops!tracing
<1> DEFINE h == message.lift
<1>2. message \in Underneath!Arriving(m, n, "propose")
  BY <1>0, SeenLiftArriving
<1>3. h \in Underneath!Hashes
  BY <1>0, <1>2, Underneath!ProposalArrives, SmallUnderneath DEF Underneath!WireOK
<1>4. Loops!Propose(h) \in Routine
  <2> HIDE DEF h
  <2>1. Underneath!Propose(h) \in Underneath!Wire
    BY <1>3 DEF Underneath!Wire, Underneath!Proposals
  <2> QED
    BY <2>1, SameTraces, RoutineMessages
<1> DEFINE f == Loops!OtherParty(n, m, h)
<1>5. Loops!Send(m, n, f, Loops!Propose(h))
  BY <1>1
<1> HIDE DEF f, h
<1>6. /\ network[m][n] # <<>>
      /\ Head(network[m][n]).type # "set-balance" /\ Head(network[m][n]).type # "meet"
      /\ Cabled(Loops!Tracing!Probing!Taken(m, n))
  BY RoutineArriving
<1> QED
  BY <1>1, <1>4, <1>5, <1>6, RoutineSend

LEMMA RoutineDecide ==
  ASSUME EnginesOK, NEW m \in Nodes, NEW n \in Nodes, Loops!DecideOnLift(m, n)
  PROVE  Routinely(m, n)
<1>0. Cabled(network) /\ Underneath!WireOK /\ Underneath!TablesOK
  BY DEF EnginesOK, NodesOK, Underneath!LiftInv
<1>1. PICK message \in Loops!Arriving(m, n, "propose") :
        /\ message.lift \in DOMAIN lifts[n]
        /\ Loops!Send(m, n, m, Loops!Commit(message.lift, lifts[n][message.lift].secret))
        /\ UNCHANGED hand
  BY DEF Loops!DecideOnLift, Loops!tracing
<1> DEFINE h == message.lift
           secret == lifts[n][h].secret
<1>2. message \in Underneath!Arriving(m, n, "propose")
  BY <1>0, SeenLiftArriving
<1>3. h \in Underneath!Hashes /\ secret \in BOOLEAN
  BY <1>0, <1>1, <1>2, Underneath!ProposalArrives
     DEF Underneath!WireOK, Underneath!TablesOK, Underneath!Entries
<1>4. Loops!Send(m, n, m, Loops!Commit(h, secret))
  BY <1>1
<1> HIDE DEF secret, h
<1>5. Loops!Commit(h, secret) \in Routine
  <2>1. Underneath!Commit(h, secret) \in Underneath!Wire
    BY <1>3 DEF Underneath!Wire, Underneath!Commits
  <2> QED
    BY <2>1, SameTraces, RoutineMessages
<1>6. /\ network[m][n] # <<>>
      /\ Head(network[m][n]).type # "set-balance" /\ Head(network[m][n]).type # "meet"
      /\ Cabled(Loops!Tracing!Probing!Taken(m, n))
  BY RoutineArriving
<1> QED
  BY <1>1, <1>4, <1>5, <1>6, RoutineSend

LEMMA RoutineCommit ==
  ASSUME Small, EnginesOK, NEW m \in Nodes, NEW n \in Nodes, Loops!HandleCommit(m, n)
  PROVE  Routinely(m, n)
<1>0. Cabled(network) /\ Underneath!WireOK
  BY DEF EnginesOK, NodesOK, Underneath!LiftInv
<1>1. PICK message \in Loops!Arriving(m, n, "commit") :
        /\ \/ network' = Loops!Probing!Taken(m, n)
           \/ Loops!Send(m, n, Loops!OtherParty(n, m, message.lift), Loops!Commit(message.lift, TRUE))
        /\ UNCHANGED hand
  <2>1. PICK message \in Loops!Arriving(m, n, "commit") :
          /\ IF lifts[n][message.lift].secret
             THEN /\ network' = Loops!Probing!Taken(m, n)
                  /\ completed' = [completed EXCEPT ![n] = @ \cup {message.lift}]
             ELSE /\ Loops!Send(m, n, Loops!OtherParty(n, m, message.lift),
                                Loops!Commit(message.lift, TRUE))
                  /\ UNCHANGED completed
          /\ UNCHANGED Loops!tracing
    BY DEF Loops!HandleCommit
  <2> QED
    BY <2>1 DEF Loops!tracing
<1> DEFINE h == message.lift
           f == Loops!OtherParty(n, m, h)
<1>2. message \in Underneath!Arriving(m, n, "commit")
  BY <1>0, SeenLiftArriving
<1>3. h \in Underneath!Hashes
  BY <1>0, <1>2, Underneath!CommitArrives, SmallUnderneath DEF Underneath!WireOK
<1>4. network' = Loops!Probing!Taken(m, n) \/ Loops!Send(m, n, f, Loops!Commit(h, TRUE))
  BY <1>1
<1> HIDE DEF f, h
<1>5. Loops!Commit(h, TRUE) \in Routine
  <2>1. Underneath!Commit(h, TRUE) \in Underneath!Commits
    <3>1. \A secret \in BOOLEAN : Underneath!Commit(h, secret) \in Underneath!Commits
      BY <1>3 DEF Underneath!Commits
    <3> QED
      BY <3>1
  <2>2. Underneath!Commit(h, TRUE) \in Underneath!Wire
    BY <2>1 DEF Underneath!Wire
  <2> QED
    BY <2>2, SameTraces, RoutineMessages
<1>6. /\ network[m][n] # <<>>
      /\ Head(network[m][n]).type # "set-balance" /\ Head(network[m][n]).type # "meet"
      /\ Cabled(Loops!Tracing!Probing!Taken(m, n))
      /\ Loops!Probing!Taken(m, n) = Loops!Tracing!Probing!Taken(m, n)
  BY RoutineArriving
<1>7. ASSUME network' = Loops!Probing!Taken(m, n)
      PROVE  Routinely(m, n)
  BY <1>1, <1>6, <1>7, GrowsNot, RoutineOther
<1>8. ASSUME Loops!Send(m, n, f, Loops!Commit(h, TRUE))
      PROVE  Routinely(m, n)
  BY <1>1, <1>5, <1>6, <1>8, RoutineSend
<1> QED
  BY <1>4, <1>7, <1>8

LEMMA RoutineDrop ==
  ASSUME EnginesOK, NEW m \in Nodes, NEW n \in Nodes, Loops!DropLoopMessage(m, n)
  PROVE  Routinely(m, n)
<1>1. /\ Loops!Arriving(m, n, "propose") # {} \/ Loops!Arriving(m, n, "commit") # {}
      /\ network' = Loops!Probing!Taken(m, n)
      /\ UNCHANGED hand
  BY DEF Loops!DropLoopMessage, Loops!tracing
<1>2. /\ network[m][n] # <<>>
      /\ Head(network[m][n]).type # "set-balance" /\ Head(network[m][n]).type # "meet"
      /\ Cabled(Loops!Tracing!Probing!Taken(m, n))
      /\ Loops!Probing!Taken(m, n) = Loops!Tracing!Probing!Taken(m, n)
  BY <1>1, RoutineArriving
<1> QED
  BY <1>1, <1>2, GrowsNot, RoutineOther

(* No handler of the engines takes or sends a message about balances, sends 'meet', or
   adds a friend but by 'meet'. *)
LEMMA RoutineHandle ==
  ASSUME Small, EnginesOK, NEW m \in Nodes, NEW n \in Nodes, Loops!Handle(m, n)
  PROVE  Routinely(m, n)
<1>1. CASE Loops!HandleTraces(m, n)
  <2>1. \/ Loops!Tracing!Probing!HandleMeet(m, n)
        \/ \E p \in Introductions : Loops!Tracing!Probing!FloodNewProbe(m, n, p)
        \/ \E p \in Introductions : Loops!Tracing!Probing!IgnoreProbe(m, n, p)
        \/ Loops!Tracing!Probing!HandleHaveProbes(m, n)
        \/ Loops!Tracing!Probing!HandleOkayToSendProbes(m, n)
        \/ \E p \in Introductions : Loops!Tracing!HandleProbeLoopback(m, n, p)
        \/ Loops!Tracing!PassTrace(m, n)
    BY <1>1 DEF Loops!HandleTraces, Loops!Tracing!HandleOwn, Loops!Tracing!HandleProbes
  <2> QED
    BY <2>1, RoutineHandleMeet, RoutineFlood, RoutineIgnore, RoutineHaveProbes, RoutineOkay,
       RoutineLoopback, RoutineTrace
<1> QED
  BY <1>1, RoutineFound, RoutineForward, RoutineDecide, RoutineCommit, RoutineDrop
     DEF Loops!Handle

-----------------------------------------------------------------------------
(***************************************************************************)
(* Why the ends agree.                                                     *)
(***************************************************************************)
(* One end of each trustline sets the balance. *)
OneSetter == \A a, b \in Nodes : <<a, b>> \in Accounts => a # b /\ <<b, a>> \notin Accounts

(* It does so when it has the other for a friend. *)
SetsOfFriends ==
  \A a, b \in Nodes : \A amount \in Balances : SetBalance(a, b, amount) => AreFriends(a, b)

(* The balance that x sets with y: y has it, or will when what is under way has arrived, and
   'meet' arrives before it. *)
AccountOK(x, y) ==
  /\ hand[x][y] = "none" => balance[x][y] = 0 /\ NoneSet(network[x][y])
  /\ hand[y][x] = "none" => balance[y][x] = 0
  /\ hand[x][y] # "none" /\ hand[y][x] = "none" => MeetFirst(network[x][y])
  /\ NoneSet(network[x][y]) => balance[x][y] = balance[y][x]
  /\ \A amount : LastSet(network[x][y], amount) => amount = balance[x][y]

LinkBalance(x, y) ==
  /\ ~NoMeet(network[x][y]) => hand[x][y] # "none"
  /\ <<x, y>> \notin Accounts => NoneSet(network[x][y])
  /\ <<x, y>> \notin Accounts /\ <<y, x>> \notin Accounts => balance[x][y] = 0
  /\ <<x, y>> \in Accounts => AccountOK(x, y)

BalanceInv == \A x, y \in Nodes : LinkBalance(x, y)

(* At first there is no balance. *)
LEMMA BalanceInit ==
  ASSUME Init
  PROVE  BalanceInv /\ TypeOK
<1>1. /\ \A x, y \in Nodes : hand[x][y] = "none" /\ network[x][y] = <<>> /\ balance[x][y] = 0
      /\ TypeOK
  BY DEF Init, Loops!Init, Loops!Tracing!Init, Loops!Tracing!Probing!Init, TypeOK
<1>2. NoMeet(<<>>) /\ NoneSet(<<>>) /\ \A amount : ~LastSet(<<>>, amount)
  BY DEF NoMeet, NoneSet, LastSet
<1> QED
  BY <1>1, <1>2 DEF BalanceInv, LinkBalance, AccountOK

(* What is under way from x to y. *)
LEMMA Stream ==
  ASSUME Cabled(network), NEW x \in Nodes, NEW y \in Nodes
  PROVE  network[x][y] \in Seq(Cable)
BY DEF Cabled, NetworksOf

(* After a handler of the engines the same amounts are. *)
LEMMA RoutineLink ==
  ASSUME Cabled(network), NEW m \in Nodes, NEW n \in Nodes, Routinely(m, n),
         NEW x \in Nodes, NEW y \in Nodes
  PROVE  /\ NoMeet(network[x][y]) => NoMeet(network'[x][y])
         /\ NoneSet(network'[x][y]) <=> NoneSet(network[x][y])
         /\ MeetFirst(network[x][y]) /\ ~(x = m /\ y = n /\ Head(network[m][n]).type = "meet")
              => MeetFirst(network'[x][y])
         /\ \A amount : LastSet(network'[x][y], amount) => LastSet(network[x][y], amount)
<1> DEFINE s == network[x][y]
           r == IF x = m /\ y = n THEN Tail(s) ELSE s
<1>1. /\ network \in [Nodes -> [Nodes -> Seq(Cable)]] /\ s \in Seq(Cable)
      /\ network[m][n] # <<>> /\ Head(network[m][n]).type # "set-balance"
  BY Stream DEF Cabled, NetworksOf, Routinely
<1>2. Loops!Tracing!Probing!Taken(m, n)[x][y] = r
  <2>1. Loops!Tracing!Probing!Taken(m, n) = [network EXCEPT ![m][n] = Tail(network[m][n])]
    BY <1>1 DEF Loops!Tracing!Probing!Taken
  <2>2. CASE x = m /\ y = n
    BY <1>1, <2>1, <2>2
  <2>3. CASE ~(x = m /\ y = n)
    BY <1>1, <2>1, <2>3
  <2> QED
    BY <2>2, <2>3
<1>3. PICK w \in Seq(Routine) : network'[x][y] = r \o w
  <2> HIDE DEF r
  <2> QED
    BY <1>2 DEF Routinely, Grows
<1>4. NoneSet(w) /\ NoMeet(w) /\ w \in Seq(Cable)
  BY RoutineFacts
<1>5. ASSUME x = m, y = n
      PROVE  s # <<>> /\ Head(s).type # "set-balance" /\ r = Tail(s)
             /\ Head(s) = Head(network[m][n])
  BY <1>1, <1>5
<1>6. ASSUME ~(x = m /\ y = n)
      PROVE  r = s
  BY <1>6
<1> HIDE DEF s, r
<1>7. /\ r \in Seq(Cable)
      /\ NoMeet(s) => NoMeet(r)
      /\ NoneSet(r) <=> NoneSet(s)
      /\ MeetFirst(s) /\ ~(x = m /\ y = n /\ Head(network[m][n]).type = "meet") => MeetFirst(r)
      /\ \A amount : LastSet(r, amount) => LastSet(s, amount)
  <2>1. CASE x = m /\ y = n
    BY <1>1, <1>5, <2>1, AfterFirst
  <2>2. CASE ~(x = m /\ y = n)
    BY <1>1, <1>6, <2>2
  <2> QED
    BY <2>1, <2>2
<1>8. /\ NoneSet(r \o w) <=> NoneSet(r)
      /\ NoMeet(r) => NoMeet(r \o w)
      /\ MeetFirst(r) => MeetFirst(r \o w)
      /\ \A amount : LastSet(r \o w, amount) => LastSet(r, amount)
  BY <1>4, <1>7, AfterMore
<1> QED
  BY <1>3, <1>7, <1>8 DEF s

(* So it keeps the balances in order. *)
LEMMA RoutineBalance ==
  ASSUME EnginesOK, BalanceInv, OneSetter, NEW m \in Nodes, NEW n \in Nodes, Routinely(m, n),
         UNCHANGED balance
  PROVE  BalanceInv'
<1> SUFFICES ASSUME NEW x \in Nodes, NEW y \in Nodes
             PROVE  LinkBalance(x, y)'
  BY DEF BalanceInv
<1>0. LinkBalance(x, y) /\ LinkBalance(y, x) /\ Cabled(network)
  BY DEF BalanceInv, EnginesOK, NodesOK
<1>1. /\ NoMeet(network[x][y]) => NoMeet(network'[x][y])
      /\ NoneSet(network'[x][y]) <=> NoneSet(network[x][y])
      /\ MeetFirst(network[x][y]) /\ ~(x = m /\ y = n /\ Head(network[m][n]).type = "meet")
           => MeetFirst(network'[x][y])
      /\ \A amount : LastSet(network'[x][y], amount) => LastSet(network[x][y], amount)
  BY <1>0, RoutineLink
<1>2. /\ hand'[x][y] = "none" <=>
           hand[x][y] = "none" /\ ~(x = n /\ y = m /\ Head(network[m][n]).type = "meet")
      /\ hand'[y][x] = "none" <=>
           hand[y][x] = "none" /\ ~(y = n /\ x = m /\ Head(network[m][n]).type = "meet")
  BY DEF Routinely, Befriends
<1>3. ASSUME x = n, y = m, Head(network[m][n]).type = "meet"
      PROVE  hand[y][x] # "none"
  <2>1. network[m][n] \in Seq(Cable) /\ network[m][n] # <<>>
    BY <1>0, Stream DEF Routinely
  <2>2. ~NoMeet(network[m][n])
    BY <1>3, <2>1, AfterFirst
  <2> QED
    BY <1>0, <1>3, <2>2 DEF LinkBalance
<1>4. ASSUME <<x, y>> \in Accounts
      PROVE  AccountOK(x, y)'
  <2>1. AccountOK(x, y) /\ x # y
    BY <1>0, <1>4 DEF LinkBalance, OneSetter
  <2>2. hand'[x][y] # "none" /\ hand'[y][x] = "none" =>
          /\ hand[x][y] # "none" /\ hand[y][x] = "none"
          /\ ~(x = m /\ y = n /\ Head(network[m][n]).type = "meet")
    BY <1>2, <1>3
  <2> QED
    BY <1>1, <1>2, <2>1, <2>2 DEF AccountOK
<1> QED
  BY <1>0, <1>1, <1>2, <1>4 DEF LinkBalance

(* Two nodes meet: 'meet' goes before anything about their balance. *)
LEMMA MeetBalance ==
  ASSUME Small, EnginesOK, BalanceInv, OneSetter, NEW a \in Nodes, NEW b \in Nodes,
         Loops!Tracing!Probing!Meet(a, b), UNCHANGED balance
  PROVE  BalanceInv'
<1> DEFINE queued == [f \in Nodes |-> IF f = b THEN known[a] \cup {<<a, b>>}
                        ELSE IF f \in Loops!Tracing!Probing!Friends(a) THEN {<<a, b>>} ELSE {}]
           one == <<Loops!Tracing!Probing!MeetMessage>>
           met == Loops!Tracing!Probing!Sent(network, a, b, one)
           status == [hand[a] EXCEPT ![b] = "talking"]
<1>0. /\ Cabled(network) /\ known \in [Nodes -> SUBSET Introductions]
      /\ offer \in [Nodes -> [Nodes -> SUBSET Introductions]]
  BY DEF EnginesOK, NodesOK, Underneath!LiftInv, Underneath!WireOK
<1>1. <<a, b>> \in Introductions /\ known[a] \in SUBSET Introductions
  BY <1>0 DEF Loops!Tracing!Probing!Meet
<1>2. queued \in [Nodes -> SUBSET Introductions]
  BY <1>1
<1>3. Cabled(met)
  BY <1>0, SeenSent, SignalsCable
<1>4. Loops!Tracing!Probing!QueueProbes(a, status, queued, met) /\ hand[a][b] = "none"
  BY DEF Loops!Tracing!Probing!Meet
<1>5. PICK statuses : hand \in [Nodes -> [Nodes -> statuses]]
  BY Acquaintance
<1>6. \A y \in Nodes : status[y] = (IF y = b THEN "talking" ELSE hand[a][y])
  BY <1>5
<1>7. one \in Seq(Cable) /\ Len(one) = 1 /\ one[1].type = "meet"
  BY SignalsCable DEF Cable, Loops!Tracing!Probing!MeetMessage
<1>8. \A x, y \in Nodes : met[x][y] = IF x = a /\ y = b THEN network[x][y] \o one ELSE network[x][y]
  BY <1>0 DEF Loops!Tracing!Probing!Sent, Cabled, NetworksOf
<1> HIDE DEF queued, met, status, one
<1>9. Grows(met, network')
  BY <1>0, <1>2, <1>3, <1>4, GrowsQueueing
<1>10. \A x, y \in Nodes : hand'[x][y] = "none" <=> hand[x][y] = "none" /\ ~(x = a /\ y = b)
  <2>1. \A x, y \in Nodes : hand'[x][y] = "none" <=> (IF x = a THEN status[y] ELSE hand[x][y]) = "none"
    BY <1>4, <1>5, QueueingBefriends
  <2> QED
    BY <1>4, <1>6, <2>1
<1>11. NoneSet(one) /\ MeetFirst(one)
  BY <1>7 DEF NoneSet, MeetFirst
<1> SUFFICES ASSUME NEW x \in Nodes, NEW y \in Nodes
             PROVE  LinkBalance(x, y)'
  BY DEF BalanceInv
<1> DEFINE s == network[x][y]
           r == met[x][y]
<1>12. LinkBalance(x, y) /\ s \in Seq(Cable)
  BY <1>0, Stream DEF BalanceInv
<1>13. PICK w \in Seq(Routine) : network'[x][y] = r \o w
  BY <1>9 DEF Grows
<1>14. NoneSet(w) /\ NoMeet(w) /\ w \in Seq(Cable)
  BY RoutineFacts
<1>15. r = IF x = a /\ y = b THEN s \o one ELSE s
  BY <1>8
<1> HIDE DEF s, r
<1>16. /\ r \in Seq(Cable)
       /\ NoMeet(s) /\ ~(x = a /\ y = b) => NoMeet(r)
       /\ NoneSet(r) <=> NoneSet(s)
       /\ MeetFirst(s) => MeetFirst(r)
       /\ NoneSet(s) /\ x = a /\ y = b => MeetFirst(r)
       /\ \A amount : LastSet(r, amount) => LastSet(s, amount)
  <2>1. CASE x = a /\ y = b
    <3>1. r = s \o one /\ r \in Seq(Cable)
      BY <1>7, <1>12, <1>15, <2>1
    <3> QED
      BY <1>7, <1>11, <1>12, <2>1, <3>1, AfterMore
  <2>2. CASE ~(x = a /\ y = b)
    BY <1>12, <1>15, <2>2
  <2> QED
    BY <2>1, <2>2
<1>17. /\ NoneSet(r \o w) <=> NoneSet(r)
       /\ NoMeet(r) => NoMeet(r \o w)
       /\ MeetFirst(r) => MeetFirst(r \o w)
       /\ \A amount : LastSet(r \o w, amount) => LastSet(r, amount)
  BY <1>14, <1>16, AfterMore
<1>18. /\ NoMeet(network[x][y]) /\ ~(x = a /\ y = b) => NoMeet(network'[x][y])
       /\ NoneSet(network'[x][y]) <=> NoneSet(network[x][y])
       /\ MeetFirst(network[x][y]) => MeetFirst(network'[x][y])
       /\ NoneSet(network[x][y]) /\ x = a /\ y = b => MeetFirst(network'[x][y])
       /\ \A amount : LastSet(network'[x][y], amount) => LastSet(network[x][y], amount)
  BY <1>13, <1>16, <1>17 DEF s
<1>19. ASSUME <<x, y>> \in Accounts
       PROVE  AccountOK(x, y)'
  <2>1. AccountOK(x, y)
    BY <1>12, <1>19 DEF LinkBalance
  <2> QED
    BY <1>4, <1>10, <1>18, <2>1 DEF AccountOK
<1> QED
  BY <1>10, <1>12, <1>18, <1>19 DEF LinkBalance

(* One end sets the balance and tells the other. *)
LEMMA SetBalanceKeeps ==
  ASSUME EnginesOK, BalanceInv, TypeOK, OneSetter, NEW a \in Nodes, NEW b \in Nodes,
         NEW v \in Balances, SetBalance(a, b, v), AreFriends(a, b)
  PROVE  BalanceInv'
<1> DEFINE message == SetBalanceMessage(v)
<1>0. Cabled(network) /\ network \in [Nodes -> [Nodes -> Seq(Cable)]]
  BY DEF EnginesOK, NodesOK, Cabled, NetworksOf
<1>1. /\ <<a, b>> \in Accounts /\ a # b /\ <<b, a>> \notin Accounts
      /\ hand[a][b] # "none" /\ UNCHANGED hand
      /\ network' = [network EXCEPT ![a][b] = @ \o <<message>>]
      /\ balance' = [balance EXCEPT ![a][b] = v]
  BY DEF SetBalance, Credit, AreFriends, OneSetter, Loops!Probing!Sent, handled
<1>2. message \in Cable /\ message.type = "set-balance" /\ message.amount = v
      /\ message.type # "meet"
  BY CableFacts DEF Cable, SetBalances
<1>3. <<message>> \in Seq(Cable) /\ NoMeet(<<message>>) /\ ~NoneSet(<<message>>)
  <2> HIDE DEF message
  <2> QED
    BY <1>2 DEF NoMeet, NoneSet
<1> SUFFICES ASSUME NEW x \in Nodes, NEW y \in Nodes
             PROVE  LinkBalance(x, y)'
  BY DEF BalanceInv
<1>4. LinkBalance(x, y) /\ network[x][y] \in Seq(Cable)
  BY <1>0 DEF BalanceInv
<1> HIDE DEF message
<1>5. CASE x = a /\ y = b
  <2>1. network'[x][y] = network[x][y] \o <<message>> /\ balance'[x][y] = v
        /\ balance'[y][x] = balance[y][x]
    BY <1>0, <1>1, <1>5 DEF TypeOK
  <2> DEFINE s == network[x][y]
             u == network'[x][y]
  <2>2. u = s \o <<message>> /\ s \in Seq(Cable)
    BY <1>4, <2>1
  <2> HIDE DEF s, u
  <2>3. /\ ~NoneSet(u)
        /\ NoMeet(s) => NoMeet(u)
        /\ MeetFirst(s) => MeetFirst(u)
    BY <1>3, <2>2, AfterMore
  <2>4. \A amount : LastSet(u, amount) => amount = v
    BY <1>2, <2>2, LastOnly
  <2>5. AccountOK(x, y)
    BY <1>1, <1>4, <1>5 DEF LinkBalance
  <2>6. AccountOK(x, y)'
    BY <1>1, <1>5, <2>1, <2>3, <2>4, <2>5 DEF AccountOK, s, u
  <2> QED
    BY <1>1, <1>4, <1>5, <2>3, <2>6 DEF LinkBalance, s, u
<1>6. CASE ~(x = a /\ y = b)
  <2>1. network'[x][y] = network[x][y] /\ balance'[x][y] = balance[x][y]
    BY <1>0, <1>1, <1>6 DEF TypeOK
  <2>2. <<x, y>> \in Accounts => balance'[y][x] = balance[y][x]
    <3>1. <<x, y>> \in Accounts => ~(y = a /\ x = b)
      BY <1>1
    <3> QED
      BY <1>1, <3>1 DEF TypeOK
  <2> QED
    BY <1>1, <1>4, <2>1, <2>2 DEF LinkBalance, AccountOK
<1> QED
  BY <1>5, <1>6

(* The other takes it over: it has met the one that tells it. *)
LEMMA HandleSetBalanceKeeps ==
  ASSUME EnginesOK, BalanceInv, TypeOK, OneSetter, NEW m \in Nodes, NEW n \in Nodes,
         HandleSetBalance(m, n)
  PROVE  BalanceInv'
<1>0. Cabled(network) /\ network \in [Nodes -> [Nodes -> Seq(Cable)]]
  BY DEF EnginesOK, NodesOK, Cabled, NetworksOf
<1>1. PICK message \in Loops!Arriving(m, n, "set-balance") :
        /\ Credit(n, m, message.amount)
        /\ network' = Loops!Probing!Taken(m, n)
        /\ UNCHANGED hand
  BY DEF HandleSetBalance, handled
<1>2. /\ network[m][n] # <<>> /\ Head(network[m][n]) = message /\ message.type = "set-balance"
      /\ network' = [network EXCEPT ![m][n] = Tail(@)]
  BY <1>1 DEF Loops!Arriving, Loops!Probing!Taken
<1> DEFINE s == network[m][n]
           u == Tail(s)
           v == message.amount
<1>3. s \in Seq(Cable) /\ s # <<>> /\ Head(s).type = "set-balance" /\ Head(s).amount = v
  BY <1>0, <1>2
<1> HIDE DEF s, u, v
<1>4. /\ u \in Seq(Cable) /\ ~NoneSet(s) /\ ~MeetFirst(s)
      /\ NoMeet(s) => NoMeet(u)
      /\ NoneSet(u) => LastSet(s, v)
      /\ \A amount : LastSet(u, amount) => LastSet(s, amount)
  BY <1>3, AfterFirst DEF u
<1>5. LinkBalance(m, n)
  BY DEF BalanceInv
<1>6. <<m, n>> \in Accounts
  BY <1>4, <1>5 DEF LinkBalance, s
<1>7. AccountOK(m, n) /\ m # n /\ <<n, m>> \notin Accounts
  BY <1>5, <1>6 DEF LinkBalance, OneSetter
<1>8. hand[m][n] # "none" /\ hand[n][m] # "none"
  BY <1>4, <1>7 DEF AccountOK, s
<1>9. balance' = [balance EXCEPT ![n][m] = v]
  BY <1>1, <1>8 DEF Credit, AreFriends, v
<1> SUFFICES ASSUME NEW x \in Nodes, NEW y \in Nodes
             PROVE  LinkBalance(x, y)'
  BY DEF BalanceInv
<1>10. LinkBalance(x, y)
  BY DEF BalanceInv
<1>11. CASE x = m /\ y = n
  <2>1. network'[x][y] = u /\ balance'[y][x] = v /\ balance'[x][y] = balance[x][y]
    BY <1>0, <1>2, <1>7, <1>9, <1>11 DEF TypeOK, u, s
  <2>2. AccountOK(x, y)'
    BY <1>1, <1>4, <1>7, <1>8, <1>11, <2>1 DEF AccountOK, s
  <2> QED
    BY <1>1, <1>6, <1>8, <1>11, <2>1, <2>2 DEF LinkBalance
<1>12. CASE ~(x = m /\ y = n)
  <2>1. network'[x][y] = network[x][y]
    BY <1>0, <1>2, <1>12
  <2>2. ~(x = n /\ y = m) => balance'[x][y] = balance[x][y]
    BY <1>9 DEF TypeOK
  <2>3. <<x, y>> \in Accounts => balance'[x][y] = balance[x][y] /\ balance'[y][x] = balance[y][x]
    BY <1>7, <1>9, <1>12 DEF TypeOK
  <2>4. <<x, y>> \notin Accounts /\ <<y, x>> \notin Accounts => ~(x = n /\ y = m)
    BY <1>6
  <2> QED
    BY <1>1, <1>10, <2>1, <2>2, <2>3, <2>4 DEF LinkBalance, AccountOK
<1> QED
  BY <1>11, <1>12

(* The tables keep their types. *)
LEMMA TypeStep ==
  ASSUME NodesOK, TypeOK, [Next]_vars
  PROVE  TypeOK'
<1>1. CASE UNCHANGED vars
  BY <1>1 DEF vars, TypeOK
<1>2. ASSUME NEW a \in Nodes, NEW b \in Nodes, NEW amount \in Trusts,
             Meet(a, b, amount) \/ ChangeTrust(a, b, amount)
      PROVE  TypeOK'
  <2>1. trust' = [trust EXCEPT ![a][b] = amount] /\ balance' = balance
    BY <1>2 DEF Meet, ChangeTrust
  <2>2. amount \in Trusts \cup {0}
    OBVIOUS
  <2> QED
    BY <2>1, <2>2 DEF TypeOK
<1>3. ASSUME NEW a \in Nodes, NEW b \in Nodes, NEW amount \in Balances, SetBalance(a, b, amount)
      PROVE  TypeOK'
  BY <1>3 DEF SetBalance, Credit, TypeOK
<1>4. ASSUME NEW m \in Nodes, NEW n \in Nodes, HandleEngines(m, n)
      PROVE  TypeOK'
  BY <1>4 DEF HandleEngines, TypeOK
<1>5. ASSUME NEW m \in Nodes, NEW n \in Nodes, HandleSetBalance(m, n)
      PROVE  TypeOK'
  <2>1. PICK message \in Loops!Arriving(m, n, "set-balance") :
          Credit(n, m, message.amount) /\ UNCHANGED trust
    BY <1>5 DEF HandleSetBalance
  <2>2. network[m][n] # <<>> /\ Head(network[m][n]) = message /\ message.type = "set-balance"
    BY <2>1 DEF Loops!Arriving
  <2>3. message \in Cable
    <3>1. network[m][n] \in Seq(Cable)
      BY Stream DEF NodesOK
    <3> QED
      BY <2>2, <3>1
  <2>4. message \in SetBalances
    BY <2>2, <2>3, CableFacts DEF Cable
  <2>5. message.amount \in Balances
    BY <2>4, CableFacts DEF SetBalances
  <2> QED
    BY <2>1, <2>5 DEF Credit, TypeOK
<1> QED
  BY <1>1, <1>2, <1>3, <1>4, <1>5 DEF Next, Handle

(* The friends engines keep amounts for trust and balance. *)
THEOREM NodeTypesCorrect ==
  ASSUME Small
  PROVE  Spec => []TypeOK
<1>1. Init => NodesOK /\ TypeOK
  BY SeenInit, SmallUnderneath, Underneath!LiftInit, BalanceInit DEF NodesOK
<1>2. NodesOK /\ TypeOK /\ [Next]_vars => NodesOK' /\ TypeOK'
  BY SeenStep, TypeStep
<1> QED
  BY <1>1, <1>2, PTL DEF Spec

(* Every step keeps the balances in order. *)
LEMMA BalanceStep ==
  ASSUME Small, OneSetter, EnginesOK, TypeOK, BalanceInv, [Next]_vars, [SetsOfFriends]_vars
  PROVE  BalanceInv'
<1>1. CASE UNCHANGED vars
  BY <1>1 DEF vars, engines, handled, BalanceInv, LinkBalance, AccountOK
<1>2. ASSUME NEW a \in Nodes, NEW b \in Nodes, NEW amount, Meet(a, b, amount)
      PROVE  BalanceInv'
  <2>1. Loops!Tracing!Probing!Meet(a, b) /\ UNCHANGED balance
    BY <1>2 DEF Meet, Loops!Meet, Loops!Tracing!Meet
  <2> QED
    BY <2>1, MeetBalance
<1>3. ASSUME NEW a \in Nodes, NEW b \in Nodes, NEW amount, ChangeTrust(a, b, amount)
      PROVE  BalanceInv'
  BY <1>3 DEF ChangeTrust, engines, handled, BalanceInv, LinkBalance, AccountOK
<1>4. ASSUME NEW a \in Nodes, NEW b \in Nodes, NEW amount \in Balances, SetBalance(a, b, amount)
      PROVE  BalanceInv'
  <2>1. CASE SetsOfFriends
    BY <1>4, <2>1, SetBalanceKeeps DEF SetsOfFriends
  <2> QED
    BY <1>1, <2>1
<1>5. ASSUME NEW m \in Nodes, NEW n \in Nodes, HandleEngines(m, n)
      PROVE  BalanceInv'
  <2>1. Loops!Handle(m, n) /\ UNCHANGED balance
    BY <1>5 DEF HandleEngines
  <2> QED
    BY <2>1, RoutineHandle, RoutineBalance
<1> QED
  BY <1>1, <1>2, <1>3, <1>4, <1>5, HandleSetBalanceKeeps DEF Next, Handle

(* Both ends of a trustline have the same balance, in the code even with the same sign, when
   nothing about it is under way. *)
LEMMA BalanceAgrees ==
  ASSUME Cabled(network), BalanceInv, TypeOK
  PROVE  EndsAgree
<1> SUFFICES ASSUME NEW n \in Nodes, NEW f \in Nodes, ~Settling(n, f)
             PROVE  balance[n][f] = balance[f][n]
  BY DEF EndsAgree
<1>1. network[n][f] \in Seq(Cable) /\ network[f][n] \in Seq(Cable)
  BY Stream
<1>2. NoneSet(network[n][f]) /\ NoneSet(network[f][n])
  BY <1>1 DEF Settling, Range, NoneSet
<1>3. LinkBalance(n, f) /\ LinkBalance(f, n)
  BY DEF BalanceInv
<1> QED
  BY <1>2, <1>3 DEF LinkBalance, AccountOK

(* Where one end of each trustline sets the balance, when it has the other for a friend, the
   ends agree on it as soon as nothing about it is under way: whoever introduces whom, also
   if both do, and however often the balance is set. *)
THEOREM EndsAgreeCorrect ==
  ASSUME Small, OneSetter, \A n \in Nodes : <<n, n>> \notin Introductions
  PROVE  Spec /\ [][SetsOfFriends]_vars => []EndsAgree
<1>1. Init => NodesOK /\ BalanceInv
  BY SeenInit, SmallUnderneath, Underneath!LiftInit, BalanceInit DEF NodesOK
<1>2. NodesOK /\ [Next]_vars => NodesOK'
  BY SeenStep
<1>3. Underneath!Spec => [](Underneath!Alone!TypeOK /\ Underneath!Alone!NoStranger)
  <2>1. Underneath!NobodyMeetsItself
    BY DEF Underneath!NobodyMeetsItself
  <2> QED
    BY <2>1, SmallUnderneath, Underneath!FloodUnderneath, PTL
<1>4. NodesOK /\ Underneath!Alone!TypeOK /\ Underneath!Alone!NoStranger /\ TypeOK /\ BalanceInv
        /\ [Next]_vars /\ [SetsOfFriends]_vars => BalanceInv'
  BY BalanceStep DEF EnginesOK
<1>5. NodesOK /\ BalanceInv /\ TypeOK => EndsAgree
  BY BalanceAgrees DEF NodesOK
<1> QED
  BY <1>1, <1>2, <1>3, <1>4, <1>5, KeepsLoopsEngineSteps, NodeTypesCorrect, PTL DEF Spec

=============================================================================
