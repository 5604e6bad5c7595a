-------------------------- MODULE LoopsEngineProofs --------------------------
(***************************************************************************)
(* LoopsEngine implements Lift, for every set of nodes and introductions:  *)
(* the steps of the detailed lift are steps of the abstract one.  And what *)
(* is underneath does not notice it: without the messages of the engines   *)
(* that it feeds, the network of LoopsEngine behaves as ProbesEngine       *)
(* allows, and so all that is proved of the probes engine holds of it.     *)
(***************************************************************************)
EXTENDS LoopsEngine, MessageFilterProofs, FiniteSetTheorems, TLAPS

-----------------------------------------------------------------------------
(***************************************************************************)
(* Messages.                                                               *)
(***************************************************************************)

(* What the engines below send. *)
Plain == Tracing!Probing!Messages \cup Tracing!TraceMessages

(* What the loops engines send. *)
Proposals == {Propose(h) : h \in Hashes}
Commits == {Commit(h, secret) : h \in Hashes, secret \in BOOLEAN}

Wire == Plain \cup Proposals \cup Commits

(* The messages of the engines are told apart by their types. *)
LEMMA PlainFacts ==
  ASSUME NEW message \in Plain
  PROVE  message.type \notin {"propose", "commit"}
BY DEF Plain, Tracing!Probing!Messages, Tracing!Probing!MeetMessage, Tracing!Probing!HaveProbes,
  Tracing!Probing!OkayToSendProbes, Tracing!Probing!ProbeMessage, Tracing!TraceMessages,
  Tracing!TraceMessage

(* A hash, and the secret, can be read off a message. *)
LEMMA LiftFacts ==
  /\ \A h : Propose(h).type = "propose" /\ Propose(h).lift = h
  /\ \A h, secret :
       /\ Commit(h, secret).type = "commit"
       /\ Commit(h, secret).lift = h
       /\ Commit(h, secret).secret = secret
BY DEF Propose, Commit

(* A proposal that arrives is the oldest message, and of a lift. *)
LEMMA ProposalArrives ==
  ASSUME NEW m \in Nodes, NEW n \in Nodes, NEW message \in Arriving(m, n, "propose"),
         network \in [Nodes -> [Nodes -> Seq(Wire)]]
  PROVE  /\ network[m][n] # <<>>
         /\ message.lift \in Hashes
         /\ network[m][n][1] = Propose(message.lift)
<1>1. network[m][n] # <<>> /\ message = Head(network[m][n]) /\ message.type = "propose"
  BY DEF Arriving
<1>2. network[m][n] \in Seq(Wire)
  OBVIOUS
<1>3. message = network[m][n][1] /\ message \in Wire
  BY <1>1, <1>2
<1>4. message \in Proposals
  BY <1>1, <1>3, PlainFacts, LiftFacts DEF Wire, Commits
<1> QED
  BY <1>1, <1>3, <1>4, LiftFacts DEF Proposals

(* The same for a commit. *)
LEMMA CommitArrives ==
  ASSUME NEW m \in Nodes, NEW n \in Nodes, NEW message \in Arriving(m, n, "commit"),
         network \in [Nodes -> [Nodes -> Seq(Wire)]]
  PROVE  /\ network[m][n] # <<>>
         /\ message.lift \in Hashes /\ message.secret \in BOOLEAN
         /\ network[m][n][1] = Commit(message.lift, message.secret)
<1>1. network[m][n] # <<>> /\ message = Head(network[m][n]) /\ message.type = "commit"
  BY DEF Arriving
<1>2. network[m][n] \in Seq(Wire)
  OBVIOUS
<1>3. message = network[m][n][1] /\ message \in Wire
  BY <1>1, <1>2
<1>4. message \in Commits
  BY <1>1, <1>3, PlainFacts, LiftFacts DEF Wire, Proposals
<1> QED
  BY <1>1, <1>3, <1>4, LiftFacts DEF Commits

-----------------------------------------------------------------------------
(***************************************************************************)
(* Sending and taking.                                                     *)
(***************************************************************************)

(* s is what is left of t, from the d-th on, with messages of the other engines. *)
Follows(s, t, d) ==
  \A i \in 1..Len(s) : s[i] \in Plain \/ (i + d \in 1..Len(t) /\ s[i] = t[i + d])

(* net has nothing new to the loops engines. *)
Keeps(net) ==
  /\ net \in [Nodes -> [Nodes -> Seq(Wire)]]
  /\ \A x, y \in Nodes : \E d \in {0, 1} : Follows(net[x][y], network[x][y], d)

(* Nothing happens. *)
LEMMA KeepsSame ==
  ASSUME network \in [Nodes -> [Nodes -> Seq(Wire)]]
  PROVE  Keeps(network)
<1>1. ASSUME NEW x \in Nodes, NEW y \in Nodes
      PROVE  Follows(network[x][y], network[x][y], 0)
  BY DEF Follows
<1> QED
  BY <1>1 DEF Keeps

(* A message is taken. *)
LEMMA KeepsTaken ==
  ASSUME NEW m \in Nodes, NEW n \in Nodes, network[m][n] # <<>>,
         network \in [Nodes -> [Nodes -> Seq(Wire)]]
  PROVE  Keeps([network EXCEPT ![m][n] = Tail(@)])
<1> DEFINE net == [network EXCEPT ![m][n] = Tail(@)]
<1>1. network[m][n] \in Seq(Wire) /\ Tail(network[m][n]) \in Seq(Wire)
  OBVIOUS
<1>2. net \in [Nodes -> [Nodes -> Seq(Wire)]]
  BY <1>1
<1>3. Follows(Tail(network[m][n]), network[m][n], 1)
  BY <1>1 DEF Follows
<1>4. ASSUME NEW x \in Nodes, NEW y \in Nodes
      PROVE  \E d \in {0, 1} : Follows(net[x][y], network[x][y], d)
  <2>1. CASE x = m /\ y = n
    BY <1>3, <2>1
  <2>2. CASE ~(x = m /\ y = n)
    <3>1. net[x][y] = network[x][y]
      BY <2>2
    <3>2. Follows(network[x][y], network[x][y], 0)
      BY DEF Follows
    <3> QED
      BY <3>1, <3>2
  <2> QED
    BY <2>1, <2>2
<1> QED
  BY <1>2, <1>4 DEF Keeps

(* Messages of the other engines are sent by n. *)
LEMMA KeepsSending ==
  ASSUME NEW net, Keeps(net), NEW n \in Nodes,
         NEW more \in [Nodes -> Seq(Plain)]
  PROVE  Keeps([net EXCEPT ![n] = [f \in Nodes |-> @[f] \o more[f]]])
<1> DEFINE after == [net EXCEPT ![n] = [f \in Nodes |-> @[f] \o more[f]]]
<1>1. net \in [Nodes -> [Nodes -> Seq(Wire)]]
  BY DEF Keeps
<1>2. \A f \in Nodes : more[f] \in Seq(Plain) /\ more[f] \in Seq(Wire)
  <2>1. ASSUME NEW f \in Nodes
        PROVE  more[f] \in Seq(Wire)
    <3>1. more[f] \in Seq(Plain)
      OBVIOUS
    <3> QED
      BY <3>1 DEF Wire
  <2> QED
    BY <2>1
<1>3. \A f \in Nodes : net[n][f] \o more[f] \in Seq(Wire)
  BY <1>1, <1>2
<1>4. after \in [Nodes -> [Nodes -> Seq(Wire)]]
  BY <1>1, <1>3
<1>5. ASSUME NEW x \in Nodes, NEW y \in Nodes
      PROVE  \E d \in {0, 1} : Follows(after[x][y], network[x][y], d)
  <2>1. PICK d \in {0, 1} : Follows(net[x][y], network[x][y], d)
    BY DEF Keeps
  <2>2. CASE x # n
    BY <1>1, <2>1, <2>2
  <2>3. CASE x = n
    <3>1. after[x][y] = net[x][y] \o more[y]
      BY <1>1, <2>3
    <3>2. net[x][y] \in Seq(Wire) /\ more[y] \in Seq(Plain)
      BY <1>1, <1>2
    <3>3. Follows(net[x][y] \o more[y], network[x][y], d)
      BY <2>1, <3>2 DEF Follows
    <3> QED
      BY <3>1, <3>3
  <2> QED
    BY <2>2, <2>3
<1> QED
  BY <1>4, <1>5 DEF Keeps

(* The same for one receiver. *)
LEMMA KeepsSent ==
  ASSUME NEW net, Keeps(net), NEW n \in Nodes, NEW f \in Nodes, NEW messages \in Seq(Plain)
  PROVE  Keeps(Tracing!Probing!Sent(net, n, f, messages))
<1> DEFINE more == [g \in Nodes |-> IF g = f THEN messages ELSE <<>>]
<1>1. more \in [Nodes -> Seq(Plain)]
  OBVIOUS
<1>2. Keeps([net EXCEPT ![n] = [g \in Nodes |-> @[g] \o more[g]]])
  BY <1>1, KeepsSending
<1>3. net \in [Nodes -> [Nodes -> Seq(Wire)]]
  BY DEF Keeps
<1>4. \A g \in Nodes : net[n][g] \o <<>> = net[n][g]
  BY <1>3
<1>5. [g \in Nodes |-> net[n][g] \o more[g]] = [net[n] EXCEPT ![f] = @ \o messages]
  BY <1>3, <1>4
<1>6. [net EXCEPT ![n] = [g \in Nodes |-> @[g] \o more[g]]] = [net EXCEPT ![n][f] = @ \o messages]
  BY <1>3, <1>5
<1> QED
  BY <1>2, <1>6 DEF Tracing!Probing!Sent

(* The same for one message to each of some receivers. *)
LEMMA KeepsBroadcast ==
  ASSUME NEW net, Keeps(net), NEW n \in Nodes, NEW messages,
         \A f \in DOMAIN messages \cap Nodes : messages[f] \in Plain
  PROVE  Keeps(Tracing!Broadcast(net, n, messages))
<1> DEFINE more == [f \in Nodes |-> IF f \in DOMAIN messages THEN <<messages[f]>> ELSE <<>>]
<1>1. more \in [Nodes -> Seq(Plain)]
  OBVIOUS
<1>2. Keeps([net EXCEPT ![n] = [f \in Nodes |-> @[f] \o more[f]]])
  BY <1>1, KeepsSending
<1>3. net \in [Nodes -> [Nodes -> Seq(Wire)]]
  BY DEF Keeps
<1>4. ASSUME NEW f \in Nodes
      PROVE  (IF f \in DOMAIN messages THEN Append(net[n][f], messages[f]) ELSE net[n][f])
               = net[n][f] \o more[f]
  <2>1. net[n][f] \in Seq(Wire)
    BY <1>3
  <2>2. CASE f \in DOMAIN messages
    <3>1. messages[f] \in Wire
      BY <2>2 DEF Wire
    <3> QED
      BY <2>1, <2>2, <3>1
  <2>3. CASE f \notin DOMAIN messages
    BY <2>1, <2>3
  <2> QED
    BY <2>2, <2>3
<1>5. [f \in Nodes |-> IF f \in DOMAIN messages THEN Append(net[n][f], messages[f]) ELSE net[n][f]]
        = [f \in Nodes |-> net[n][f] \o more[f]]
  BY <1>4
<1>6. Tracing!Broadcast(net, n, messages) = [net EXCEPT ![n] = [f \in Nodes |-> @[f] \o more[f]]]
  BY <1>5 DEF Tracing!Broadcast
<1> QED
  BY <1>2, <1>6

(* Finitely many probes make a burst. *)
LEMMA BurstPlain ==
  ASSUME NEW S \in SUBSET Introductions
  PROVE  /\ Tracing!Probing!Burst(S) \in Seq(Tracing!Probing!Messages)
         /\ Tracing!Probing!Burst(S) \in Seq(Plain)
<1>1. IsFiniteSet(S)
  <2>1. IsFiniteSet(Nodes \X Nodes)
    BY NetworkAssumption, FS_Product
  <2> QED
    BY <2>1, NetworkAssumption, FS_Subset
<1> DEFINE k == Cardinality(S)
<1>2. k \in Nat /\ ExistsBijection(1..k, S)
  BY <1>1, FS_CardinalityType
<1>3. Tracing!Probing!Cardinality(S) = k
  BY DEF Tracing!Probing!Cardinality, Cardinality
<1>4. PICK g \in [1..k -> S] : \A a, b \in 1..k : g[a] = g[b] => a = b
  BY <1>2 DEF ExistsBijection, Bijection, Injection, IsInjective
<1> HIDE DEF k
<1>5. Tracing!Probing!AnOrder(S) \in [1..k -> S]
  BY <1>3, <1>4 DEF Tracing!Probing!AnOrder, Tracing!Probing!Orders, Tracing!Probing!Injection,
    Tracing!Probing!IsInjective
<1>6. \A i \in 1..k : Tracing!Probing!ProbeMessage(Tracing!Probing!AnOrder(S)[i]) \in Tracing!Probing!Messages
  BY <1>5 DEF Tracing!Probing!Messages, Tracing!Probing!Probes
<1>7. Tracing!Probing!Burst(S) = [i \in 1..k |-> Tracing!Probing!ProbeMessage(Tracing!Probing!AnOrder(S)[i])]
  BY <1>3 DEF Tracing!Probing!Burst
<1> QED
  BY <1>2, <1>6, <1>7 DEF Plain

(* What a probes engine queues is of no concern either. *)
LEMMA KeepsQueueing ==
  ASSUME NEW n \in Nodes, NEW status, NEW net, Keeps(net),
         NEW queued \in [Nodes -> SUBSET Introductions],
         offer \in [Nodes -> [Nodes -> SUBSET Introductions]],
         Tracing!Probing!QueueProbes(n, status, queued, net)
  PROVE  Keeps(network') /\ offer' \in [Nodes -> [Nodes -> SUBSET Introductions]]
<1> DEFINE more == [f \in Nodes |-> Tracing!Probing!Queued(n, status, queued, f)]
<1>1. ASSUME NEW f \in Nodes
      PROVE  Tracing!Probing!Queued(n, status, queued, f) \in Seq(Plain)
  <2> DEFINE S == Tracing!Probing!Flushed(n, status, queued, f)
  <2>1. S \in SUBSET Introductions
    BY DEF Tracing!Probing!Flushed, Tracing!Probing!Virgin
  <2>2. Tracing!Probing!Burst(S) \in Seq(Plain)
    BY <2>1, BurstPlain
  <2>3. Tracing!Probing!HaveProbes \in Plain
    BY DEF Plain, Tracing!Probing!Messages
  <2> HIDE DEF S
  <2>4. (IF Tracing!Probing!Raises(status, queued, f) THEN <<Tracing!Probing!HaveProbes>> ELSE <<>>)
          \in Seq(Plain)
    BY <2>3
  <2> QED
    BY <2>2, <2>4 DEF Tracing!Probing!Queued, S
<1>2. more \in [Nodes -> Seq(Plain)]
  BY <1>1
<1>3. Keeps([net EXCEPT ![n] = [f \in Nodes |-> @[f] \o more[f]]])
  BY <1>2, KeepsSending
<1>4. network' = [net EXCEPT ![n] = [f \in Nodes |-> @[f] \o more[f]]]
  BY DEF Tracing!Probing!QueueProbes
<1>5. offer' \in [Nodes -> [Nodes -> SUBSET Introductions]]
  BY DEF Tracing!Probing!QueueProbes
<1> QED
  BY <1>3, <1>4, <1>5

-----------------------------------------------------------------------------
(***************************************************************************)
(* The steps of the engines below send nothing of a lift.                  *)
(***************************************************************************)
WireOK ==
  /\ network \in [Nodes -> [Nodes -> Seq(Wire)]]
  /\ known \in [Nodes -> SUBSET Introductions]
  /\ offer \in [Nodes -> [Nodes -> SUBSET Introductions]]

(* What is the same after such a step. *)
Below ==
  /\ Keeps(network')
  /\ known' \in [Nodes -> SUBSET Introductions]
  /\ offer' \in [Nodes -> [Nodes -> SUBSET Introductions]]

(* A message arrives and is taken. *)
LEMMA Arrival ==
  ASSUME NEW m \in Nodes, NEW n \in Nodes, NEW message, WireOK,
         Tracing!Probing!Arrives(m, n, message)
  PROVE  Keeps(Tracing!Probing!Taken(m, n))
BY KeepsTaken DEF WireOK, Tracing!Probing!Arrives, Tracing!Probing!Taken

(* What the probes engines send for themselves. *)
LEMMA SignalsPlain ==
  /\ <<Tracing!Probing!MeetMessage>> \in Seq(Plain)
  /\ <<Tracing!Probing!OkayToSendProbes>> \in Seq(Plain)
<1>1. Tracing!Probing!MeetMessage \in Plain /\ Tracing!Probing!OkayToSendProbes \in Plain
  BY DEF Plain, Tracing!Probing!Messages
<1> QED
  BY <1>1

(* Meeting sends what the probes engine sends. *)
LEMMA MeetBelow ==
  ASSUME NEW a \in Nodes, NEW b \in Nodes, WireOK, Tracing!Probing!Meet(a, b)
  PROVE  Below
<1> DEFINE queued == [f \in Nodes |-> IF f = b THEN known[a] \cup {<<a, b>>}
                        ELSE IF f \in Tracing!Probing!Friends(a) THEN {<<a, b>>} ELSE {}]
<1>1. <<a, b>> \in Introductions /\ known[a] \in SUBSET Introductions
  BY DEF Tracing!Probing!Meet, WireOK
<1>2. queued \in [Nodes -> SUBSET Introductions]
  BY <1>1
<1>3. Keeps(Tracing!Probing!Sent(network, a, b, <<Tracing!Probing!MeetMessage>>))
  BY KeepsSame, KeepsSent, SignalsPlain DEF WireOK
<1>4. /\ Tracing!Probing!QueueProbes(a, [hand[a] EXCEPT ![b] = "talking"], queued,
           Tracing!Probing!Sent(network, a, b, <<Tracing!Probing!MeetMessage>>))
      /\ known' = [known EXCEPT ![a] = @ \cup {<<a, b>>}]
  BY DEF Tracing!Probing!Meet
<1>5. Keeps(network') /\ offer' \in [Nodes -> [Nodes -> SUBSET Introductions]]
  BY <1>2, <1>3, <1>4, KeepsQueueing DEF WireOK
<1>6. known' \in [Nodes -> SUBSET Introductions]
  BY <1>1, <1>4 DEF WireOK
<1> QED
  BY <1>5, <1>6 DEF Below

(* So do the handlers of the probes engine. *)
LEMMA ProbesBelow ==
  ASSUME NEW m \in Nodes, NEW n \in Nodes, WireOK, Tracing!HandleProbes(m, n)
  PROVE  Below
<1>1. CASE Tracing!Probing!HandleMeet(m, n)
  <2> DEFINE queued == [f \in Nodes |-> IF f = m THEN known[n] ELSE {}]
  <2>1. queued \in [Nodes -> SUBSET Introductions]
    BY DEF WireOK
  <2>2. Keeps(Tracing!Probing!Taken(m, n))
    BY <1>1, Arrival DEF Tracing!Probing!HandleMeet
  <2>3. /\ Tracing!Probing!QueueProbes(n, [hand[n] EXCEPT ![m] = "listening"], queued,
             Tracing!Probing!Taken(m, n))
        /\ known' = known
    BY <1>1 DEF Tracing!Probing!HandleMeet
  <2>4. Keeps(network') /\ offer' \in [Nodes -> [Nodes -> SUBSET Introductions]]
    BY <2>1, <2>2, <2>3, KeepsQueueing DEF WireOK
  <2> QED
    BY <2>3, <2>4 DEF Below, WireOK
<1>2. ASSUME NEW p \in Introductions, Tracing!Probing!FloodNewProbe(m, n, p)
      PROVE  Below
  <2> DEFINE queued == [f \in Nodes |-> IF f \in Tracing!Probing!Friends(n) \ {m} THEN {p} ELSE {}]
  <2>1. queued \in [Nodes -> SUBSET Introductions]
    OBVIOUS
  <2>2. Keeps(Tracing!Probing!Taken(m, n))
    BY <1>2, Arrival DEF Tracing!Probing!FloodNewProbe
  <2>3. /\ Tracing!Probing!QueueProbes(n, hand[n], queued, Tracing!Probing!Taken(m, n))
        /\ known' = [known EXCEPT ![n] = @ \cup {p}]
    BY <1>2 DEF Tracing!Probing!FloodNewProbe
  <2>4. Keeps(network') /\ offer' \in [Nodes -> [Nodes -> SUBSET Introductions]]
    BY <2>1, <2>2, <2>3, KeepsQueueing DEF WireOK
  <2>5. known' \in [Nodes -> SUBSET Introductions]
    BY <2>3 DEF WireOK
  <2> QED
    BY <2>4, <2>5 DEF Below
<1>3. ASSUME NEW p \in Introductions, Tracing!Probing!IgnoreProbe(m, n, p)
      PROVE  Below
  BY <1>3, Arrival DEF Tracing!Probing!IgnoreProbe, Below, WireOK
<1>4. CASE Tracing!Probing!HandleHaveProbes(m, n)
  <2>1. Keeps(Tracing!Probing!Taken(m, n))
    BY <1>4, Arrival DEF Tracing!Probing!HandleHaveProbes
  <2>2. Keeps(Tracing!Probing!Sent(Tracing!Probing!Taken(m, n), n, m,
                <<Tracing!Probing!OkayToSendProbes>>))
    BY <2>1, KeepsSent, SignalsPlain
  <2> QED
    BY <1>4, <2>2 DEF Tracing!Probing!HandleHaveProbes, Below, WireOK
<1>5. CASE Tracing!Probing!HandleOkayToSendProbes(m, n)
  <2> DEFINE flushed == Tracing!Probing!Virgin(n, m, offer[n][m])
  <2>1. flushed \in SUBSET Introductions
    BY DEF Tracing!Probing!Virgin, WireOK
  <2>2. Tracing!Probing!Burst(flushed) \in Seq(Plain)
    BY <2>1, BurstPlain
  <2>3. Keeps(Tracing!Probing!Taken(m, n))
    BY <1>5, Arrival DEF Tracing!Probing!HandleOkayToSendProbes
  <2>4. Keeps(Tracing!Probing!Sent(Tracing!Probing!Taken(m, n), n, m, Tracing!Probing!Burst(flushed)))
    BY <2>2, <2>3, KeepsSent
  <2> QED
    BY <1>5, <2>4 DEF Tracing!Probing!HandleOkayToSendProbes, Below, WireOK
<1> QED
  BY <1>1, <1>2, <1>3, <1>4, <1>5 DEF Tracing!HandleProbes

(* The traces engine sends traces. *)
LEMMA TracesBelow ==
  ASSUME NEW m \in Nodes, NEW n \in Nodes, WireOK,
         \/ \E p \in Introductions : Tracing!HandleProbeLoopback(m, n, p)
         \/ Tracing!PassTrace(m, n)
  PROVE  Below
<1>1. ASSUME NEW p \in Introductions, Tracing!HandleProbeLoopback(m, n, p)
      PROVE  Below
  <2> DEFINE t == <<p, n, m>>
             senders == from[n][p] \cup {m}
             messages == [f \in senders |-> Tracing!TraceMessage(t, f)]
  <2>1. Keeps(Tracing!Probing!Taken(m, n))
    BY <1>1, Arrival DEF Tracing!HandleProbeLoopback, Tracing!Probing!RecordLoopback
  <2>2. t \in Tracing!Traces
    BY DEF Tracing!Traces
  <2>3. \A f \in DOMAIN messages \cap Nodes : messages[f] \in Plain
    BY <2>2 DEF Plain, Tracing!TraceMessages
  <2>4. Keeps(Tracing!Broadcast(Tracing!Probing!Taken(m, n), n, messages))
    BY <2>1, <2>3, KeepsBroadcast
  <2> QED
    BY <1>1, <2>4 DEF Tracing!HandleProbeLoopback, Tracing!Probing!RecordLoopback, Below, WireOK
<1>2. ASSUME Tracing!PassTrace(m, n)
      PROVE  Below
  <2>1. PICK message \in Tracing!Arriving(m, n) :
          /\ \/ Tracing!IgnoreTrace(m, n, message.trace, message.leg)
             \/ Tracing!ForwardTrace(m, n, message.trace, message.leg)
             \/ Tracing!BounceTrace(m, n, message.trace, message.leg)
          /\ UNCHANGED <<known, offer>>
    BY <1>2 DEF Tracing!PassTrace, Tracing!probing
  <2> DEFINE same == Tracing!TraceMessage(message.trace, message.leg)
  <2>2. network[m][n] # <<>> /\ message \in Tracing!TraceMessages
    BY DEF Tracing!Arriving
  <2>3. same \in Plain
    BY <2>2 DEF Tracing!TraceMessages, Tracing!TraceMessage, Plain
  <2>4. Keeps(Tracing!Probing!Taken(m, n))
    BY <2>2, KeepsTaken DEF WireOK, Tracing!Probing!Taken
  <2>5. ASSUME NEW hops
        PROVE  Keeps(Tracing!Broadcast(Tracing!Probing!Taken(m, n), n, [f \in hops |-> same]))
    <3> DEFINE messages == [f \in hops |-> same]
    <3>1. \A f \in DOMAIN messages \cap Nodes : messages[f] \in Plain
      BY <2>3
    <3> QED
      BY <2>4, <3>1, KeepsBroadcast
  <2>6. Keeps(network')
    BY <2>1, <2>4, <2>5 DEF Tracing!IgnoreTrace, Tracing!ForwardTrace, Tracing!BounceTrace
  <2> QED
    BY <2>1, <2>6 DEF Below, WireOK
<1> QED
  BY <1>1, <1>2

-----------------------------------------------------------------------------
(***************************************************************************)
(* The proposal of a lift is a token: there is one at most.                *)
(***************************************************************************)
Under(w) == \E x, y \in Nodes : \E i \in 1..Len(network[x][y]) : network[x][y][i] = w

(* The i-th message from x to y proposes h. *)
ProposalAt(h, x, y, i) == i \in 1..Len(network[x][y]) /\ network[x][y][i] = Propose(h)

OneProposal ==
  \A h \in Hashes, x, y, u, v \in Nodes, i, j \in Nat :
    ProposalAt(h, x, y, i) /\ ProposalAt(h, u, v, j) => x = u /\ y = v /\ i = j

(* What is new is of no concern. *)
LEMMA KeepsUnder ==
  ASSUME Keeps(network'), NEW w, w \notin Plain, Under(w)'
  PROVE  Under(w)
<1>1. PICK x \in Nodes, y \in Nodes : \E i \in 1..Len(network'[x][y]) : network'[x][y][i] = w
  BY DEF Under
<1>2. PICK i \in 1..Len(network'[x][y]) : network'[x][y][i] = w
  BY <1>1
<1>3. PICK d \in {0, 1} : Follows(network'[x][y], network[x][y], d)
  BY DEF Keeps
<1>4. i + d \in 1..Len(network[x][y]) /\ network[x][y][i + d] = w
  BY <1>2, <1>3 DEF Follows
<1> QED
  BY <1>4 DEF Under

(* No proposal is doubled by what is of no concern. *)
LEMMA KeepsOneProposal ==
  ASSUME Keeps(network'), OneProposal
  PROVE  OneProposal'
<1>1. ASSUME NEW h \in Hashes, NEW x \in Nodes, NEW y \in Nodes, NEW d \in {0, 1},
             Follows(network'[x][y], network[x][y], d),
             NEW i \in Nat, ProposalAt(h, x, y, i)'
      PROVE  ProposalAt(h, x, y, i + d) /\ i + d \in Nat
  <2>1. Propose(h) \notin Plain
    BY PlainFacts, LiftFacts
  <2> QED
    BY <1>1, <2>1 DEF Follows, ProposalAt
<1> SUFFICES ASSUME NEW h \in Hashes, NEW x \in Nodes, NEW y \in Nodes, NEW u \in Nodes, NEW v \in Nodes,
                    NEW i \in Nat, NEW j \in Nat, ProposalAt(h, x, y, i)', ProposalAt(h, u, v, j)'
             PROVE  x = u /\ y = v /\ i = j
  BY DEF OneProposal
<1>2. PICK d \in {0, 1} : Follows(network'[x][y], network[x][y], d)
  BY DEF Keeps
<1>3. PICK e \in {0, 1} : Follows(network'[u][v], network[u][v], e)
  BY DEF Keeps
<1>4. ProposalAt(h, x, y, i + d) /\ i + d \in Nat
  BY <1>1, <1>2
<1>5. ProposalAt(h, u, v, j + e) /\ j + e \in Nat
  BY <1>1, <1>3
<1>6. x = u /\ y = v
  BY <1>4, <1>5 DEF OneProposal
<1>7. ProposalAt(h, x, y, j + d) /\ j + d \in Nat
  BY <1>1, <1>2, <1>6
<1>8. i + d = j + d
  BY <1>4, <1>7 DEF OneProposal
<1> QED
  BY <1>6, <1>8

(* The i-th message from x to y is the one it was before n took one from m. *)
Lag(m, n, x, y) == IF x = m /\ y = n THEN 1 ELSE 0

Former(m, n, x, y, i) ==
  /\ i + Lag(m, n, x, y) \in 1..Len(network[x][y])
  /\ network'[x][y][i] = network[x][y][i + Lag(m, n, x, y)]

(* It is the one that n has sent to f. *)
Newest(n, f, w, x, y, i) ==
  x = n /\ y = f /\ i = Len(network'[x][y]) /\ network'[x][y][i] = w

(* What is left of a sequence. *)
LEMMA TailFacts ==
  ASSUME NEW S, NEW s \in Seq(S), s # <<>>
  PROVE  \A k \in 1..Len(Tail(s)) : k + 1 \in 1..Len(s) /\ Tail(s)[k] = s[k + 1]
<1> DEFINE length == Len(s)
<1>1. length \in Nat /\ Len(Tail(s)) = length - 1
  OBVIOUS
<1> HIDE DEF length
<1>2. \A k \in 1..(length - 1) : k + 1 \in 1..length
  BY <1>1
<1>3. \A k \in 1..Len(Tail(s)) : Tail(s)[k] = s[k + 1]
  OBVIOUS
<1> QED
  BY <1>1, <1>2, <1>3 DEF length

(* A loops engine that has taken a message of m and sends one. *)
LEMMA Sending ==
  ASSUME network \in [Nodes -> [Nodes -> Seq(Wire)]],
         NEW m \in Nodes, NEW n \in Nodes, network[m][n] # <<>>, NEW f, NEW w \in Wire,
         Send(m, n, f, w)
  PROVE  /\ network' \in [Nodes -> [Nodes -> Seq(Wire)]]
         /\ \A x, y \in Nodes : \A i \in 1..Len(network'[x][y]) :
              Newest(n, f, w, x, y, i) \/ Former(m, n, x, y, i)
<1> DEFINE net == [network EXCEPT ![m][n] = Tail(@)]
<1>1. network[m][n] \in Seq(Wire) /\ Tail(network[m][n]) \in Seq(Wire)
  OBVIOUS
<1>2. net \in [Nodes -> [Nodes -> Seq(Wire)]]
  BY <1>1
<1>3. network' = [net EXCEPT ![n] = [g \in Nodes |-> IF g \in {f} THEN Append(@[g], w) ELSE @[g]]]
  BY DEF Send, Tracing!Broadcast, Probing!Taken
<1>4. \A g \in Nodes : (IF g \in {f} THEN Append(net[n][g], w) ELSE net[n][g]) \in Seq(Wire)
  BY <1>2
<1>5. network' \in [Nodes -> [Nodes -> Seq(Wire)]]
  BY <1>2, <1>3, <1>4
<1>6. ASSUME NEW x \in Nodes, NEW y \in Nodes, NEW i \in 1..Len(network'[x][y])
      PROVE  Newest(n, f, w, x, y, i) \/ Former(m, n, x, y, i)
  <2>1. network[x][y] \in Seq(Wire) /\ net[x][y] \in Seq(Wire)
    BY <1>2
  <2>2. net[x][y] = IF x = m /\ y = n THEN Tail(network[x][y]) ELSE network[x][y]
    OBVIOUS
  <2> HIDE DEF net
  <2>3. \A k \in 1..Len(net[x][y]) :
          /\ k + Lag(m, n, x, y) \in 1..Len(network[x][y])
          /\ net[x][y][k] = network[x][y][k + Lag(m, n, x, y)]
    <3>1. CASE x = m /\ y = n
      <4>1. net[x][y] = Tail(network[x][y]) /\ network[x][y] # <<>> /\ Lag(m, n, x, y) = 1
        BY <2>2, <3>1 DEF Lag
      <4>2. \A k \in 1..Len(Tail(network[x][y])) :
              k + 1 \in 1..Len(network[x][y]) /\ Tail(network[x][y])[k] = network[x][y][k + 1]
        BY <2>1, <4>1, TailFacts
      <4> QED
        BY <4>1, <4>2
    <3>2. CASE ~(x = m /\ y = n)
      <4>1. net[x][y] = network[x][y] /\ Lag(m, n, x, y) = 0
        BY <2>2, <3>2 DEF Lag
      <4> QED
        BY <2>1, <4>1
    <3> QED
      BY <3>1, <3>2
  <2>4. CASE x = n /\ y = f
    <3> DEFINE old == net[x][y]
    <3> DEFINE length == Len(old)
    <3>1. network'[x][y] = Append(old, w)
      BY <1>2, <1>3, <2>4
    <3>2. old \in Seq(Wire)
      BY <2>1
    <3>3. \A k \in 1..length :
            /\ k + Lag(m, n, x, y) \in 1..Len(network[x][y])
            /\ old[k] = network[x][y][k + Lag(m, n, x, y)]
      BY <2>3
    <3> HIDE DEF old
    <3>4. length \in Nat /\ Len(Append(old, w)) = length + 1
      BY <3>2
    <3>5. Append(old, w)[length + 1] = w
      BY <3>2
    <3>6. \A k \in 1..length : Append(old, w)[k] = old[k]
      BY <3>2
    <3> HIDE DEF length
    <3>7. i = length + 1 \/ i \in 1..length
      BY <3>1, <3>4
    <3>8. CASE i = length + 1
      BY <2>4, <3>1, <3>4, <3>5, <3>8 DEF Newest
    <3>9. CASE i \in 1..length
      BY <3>1, <3>3, <3>6, <3>9 DEF Former
    <3> QED
      BY <3>7, <3>8, <3>9
  <2>5. CASE ~(x = n /\ y = f)
    <3>1. network'[x][y] = net[x][y]
      BY <1>2, <1>3, <2>5
    <3> QED
      BY <2>3, <3>1 DEF Former
  <2> QED
    BY <2>4, <2>5
<1> QED
  BY <1>5, <1>6

(* Nothing else than w is new. *)
LEMMA SendingUnder ==
  ASSUME network \in [Nodes -> [Nodes -> Seq(Wire)]],
         NEW m \in Nodes, NEW n \in Nodes, network[m][n] # <<>>, NEW f, NEW w \in Wire,
         Send(m, n, f, w), NEW v, v # w, Under(v)'
  PROVE  Under(v)
<1>1. PICK x \in Nodes, y \in Nodes : \E i \in 1..Len(network'[x][y]) : network'[x][y][i] = v
  BY DEF Under
<1>2. PICK i \in 1..Len(network'[x][y]) : network'[x][y][i] = v
  BY <1>1
<1>3. Newest(n, f, w, x, y, i) \/ Former(m, n, x, y, i)
  BY Sending
<1>4. Former(m, n, x, y, i)
  BY <1>2, <1>3 DEF Newest
<1> QED
  BY <1>2, <1>4 DEF Former, Under

(* A proposal that arrives is gone, unless n passes it on; and n makes no other. *)
LEMMA SendingOneProposal ==
  ASSUME network \in [Nodes -> [Nodes -> Seq(Wire)]], OneProposal,
         NEW m \in Nodes, NEW n \in Nodes, network[m][n] # <<>>, NEW f, NEW w \in Wire,
         Send(m, n, f, w), NEW g \in Hashes,
         network[m][n][1] = Propose(g) \/ ~Under(Propose(g))
  PROVE  /\ w # Propose(g) => ~Under(Propose(g))'
         /\ w \notin Proposals \ {Propose(g)} => OneProposal'
<1>1. ASSUME NEW h \in Hashes, NEW x \in Nodes, NEW y \in Nodes, NEW i \in Nat, ProposalAt(h, x, y, i)'
      PROVE  \/ Newest(n, f, w, x, y, i) /\ w = Propose(h)
             \/ ProposalAt(h, x, y, i + Lag(m, n, x, y)) /\ i + Lag(m, n, x, y) \in Nat
  <2>1. i \in 1..Len(network'[x][y]) /\ network'[x][y][i] = Propose(h)
    BY <1>1 DEF ProposalAt
  <2>2. Newest(n, f, w, x, y, i) \/ Former(m, n, x, y, i)
    BY <2>1, Sending
  <2>3. Newest(n, f, w, x, y, i) => w = Propose(h)
    BY <2>1 DEF Newest
  <2> DEFINE k == i + Lag(m, n, x, y)
  <2>4. k \in Nat
    BY DEF Lag
  <2>5. Former(m, n, x, y, i) => k \in 1..Len(network[x][y]) /\ network[x][y][k] = Propose(h)
    BY <2>1 DEF Former
  <2> HIDE DEF k
  <2>6. Former(m, n, x, y, i) => ProposalAt(h, x, y, k)
    BY <2>5 DEF ProposalAt
  <2> QED
    BY <2>2, <2>3, <2>4, <2>6 DEF k
<1>2. ASSUME NEW x \in Nodes, NEW y \in Nodes, NEW i \in Nat, ProposalAt(g, x, y, i)'
      PROVE  Newest(n, f, w, x, y, i) /\ w = Propose(g)
  <2> DEFINE k == i + Lag(m, n, x, y)
  <2>1. i >= 1 /\ (k = 1 => ~(x = m /\ y = n))
    BY <1>2 DEF ProposalAt, Lag
  <2>2. (Newest(n, f, w, x, y, i) /\ w = Propose(g)) \/ (ProposalAt(g, x, y, k) /\ k \in Nat)
    BY <1>1, <1>2
  <2> HIDE DEF k
  <2>3. ASSUME ProposalAt(g, x, y, k), k \in Nat
        PROVE  FALSE
    <3>1. Under(Propose(g))
      BY <2>3 DEF ProposalAt, Under
    <3>2. ProposalAt(g, m, n, 1)
      <4>1. network[m][n] \in Seq(Wire)
        OBVIOUS
      <4> QED
        BY <3>1, <4>1 DEF ProposalAt
    <3>3. x = m /\ y = n /\ k = 1
      BY <2>3, <3>2 DEF OneProposal
    <3> QED
      BY <2>1, <3>3
  <2> QED
    BY <2>2, <2>3
<1>3. w # Propose(g) => ~Under(Propose(g))'
  <2> SUFFICES ASSUME Under(Propose(g))'
               PROVE  w = Propose(g)
    OBVIOUS
  <2>1. PICK x \in Nodes, y \in Nodes : \E i \in 1..Len(network'[x][y]) : network'[x][y][i] = Propose(g)
    BY DEF Under
  <2>2. PICK i \in 1..Len(network'[x][y]) : network'[x][y][i] = Propose(g)
    BY <2>1
  <2>3. i \in Nat /\ ProposalAt(g, x, y, i)'
    BY <2>2 DEF ProposalAt
  <2> QED
    BY <1>2, <2>3
<1>4. ASSUME w \notin Proposals \ {Propose(g)}, NEW h \in Hashes,
             NEW x \in Nodes, NEW y \in Nodes, NEW u \in Nodes, NEW v \in Nodes,
             NEW i \in Nat, NEW j \in Nat, ProposalAt(h, x, y, i)', ProposalAt(h, u, v, j)'
      PROVE  x = u /\ y = v /\ i = j
  <2>1. CASE h = g
    <3>1. ProposalAt(g, x, y, i)' /\ ProposalAt(g, u, v, j)'
      BY <1>4, <2>1
    <3>2. Newest(n, f, w, x, y, i) /\ Newest(n, f, w, u, v, j)
      BY <1>2, <3>1
    <3> QED
      BY <3>2 DEF Newest
  <2>2. CASE h # g
    <3>1. w # Propose(h)
      <4>1. Propose(h) \in Proposals /\ Propose(h) # Propose(g)
        BY <2>2 DEF Proposals, Propose
      <4> QED
        BY <1>4, <4>1
    <3> DEFINE k == i + Lag(m, n, x, y)
               l == j + Lag(m, n, u, v)
    <3>2. ProposalAt(h, x, y, k) /\ k \in Nat
      BY <1>1, <1>4, <3>1
    <3>3. ProposalAt(h, u, v, l) /\ l \in Nat
      BY <1>1, <1>4, <3>1
    <3> HIDE DEF k, l
    <3>4. x = u /\ y = v /\ k = l
      BY <3>2, <3>3 DEF OneProposal
    <3>5. CASE x = m /\ y = n
      BY <3>4, <3>5 DEF k, l, Lag
    <3>6. CASE ~(x = m /\ y = n)
      BY <3>4, <3>6 DEF k, l, Lag
    <3> QED
      BY <3>4, <3>5, <3>6
  <2> QED
    BY <2>1, <2>2
<1> QED
  BY <1>3, <1>4 DEF OneProposal

-----------------------------------------------------------------------------
(***************************************************************************)
(* The tables of lifts.                                                    *)
(***************************************************************************)
Entries == [incoming : BOOLEAN, secret : BOOLEAN]

TablesOK ==
  /\ DOMAIN lifts = Nodes
  /\ \A n \in Nodes : IsFiniteSet(DOMAIN lifts[n])
  /\ \A n \in Nodes : DOMAIN lifts[n] \subseteq Hashes
  /\ \A n \in Nodes : \A h \in DOMAIN lifts[n] : lifts[n][h] \in Entries

Member(n, h) == h \in DOMAIN lifts[n]

IsClosed(h) == lifts[h.initiator][h].incoming

LoopOf(h) == [trace |-> h.trace, outgoing |-> h.leg, incoming |-> h.incoming]

(* Who knows of a lift knows of one that its initiator has started, for a loop it has
   found.  Nobody but the initiator has the secret before the proposal is home. *)
MembersStarted ==
  \A n \in Nodes, h \in Hashes : Member(n, h) =>
    /\ Member(h.initiator, h)
    /\ lifts[h.initiator][h].secret
    /\ LoopOf(h) \in found[h.initiator]
    /\ lifts[n][h].secret => n = h.initiator \/ IsClosed(h)

(* Initiators are nodes. *)
LEMMA HashFacts ==
  /\ \A h \in Hashes : h.initiator \in Nodes
  /\ \A n, m \in Nodes, t \in Tracing!Traces, leg \in Nodes, k \in Nat :
       /\ Hash(n, t, leg, m, k) \in Hashes
       /\ Hash(n, t, leg, m, k).initiator = n
       /\ LoopOf(Hash(n, t, leg, m, k)) = [trace |-> t, outgoing |-> leg, incoming |-> m]
  /\ \A n, m, t, leg, k, l : Hash(n, t, leg, m, k) = Hash(n, t, leg, m, l) => k = l
BY DEF Hashes, Hash, LoopOf

(* A new hash is new: of the numbers that it is chosen from there are more than lifts. *)
LEMMA NewHashFacts ==
  ASSUME TablesOK, NEW n \in Nodes, NEW m \in Nodes, NEW t \in Tracing!Traces, NEW leg \in Nodes
  PROVE  /\ NewHash(n, t, leg, m) \in Hashes
         /\ NewHash(n, t, leg, m).initiator = n
         /\ LoopOf(NewHash(n, t, leg, m)) = [trace |-> t, outgoing |-> leg, incoming |-> m]
         /\ ~Member(n, NewHash(n, t, leg, m))
<1> DEFINE table == DOMAIN lifts[n]
           size == Cardinality(table)
<1>1. IsFiniteSet(table) /\ size \in Nat
  BY FS_CardinalityType DEF TablesOK
<1> HIDE DEF table
<1>2. \E k \in 0..size : Hash(n, t, leg, m, k) \notin table
  <2> SUFFICES ASSUME \A k \in 0..size : Hash(n, t, leg, m, k) \in table
               PROVE  FALSE
    OBVIOUS
  <2> DEFINE f == [k \in 0..size |-> Hash(n, t, leg, m, k)]
  <2>1. f \in Injection(0..size, table)
    BY HashFacts DEF Injection, IsInjective
  <2>2. IsFiniteSet(0..size) /\ Cardinality(0..size) = size + 1
    BY <1>1, FS_Interval
  <2>3. Cardinality(0..size) <= size
    BY <1>1, <2>1, FS_Injection
  <2> QED
    BY <1>1, <2>2, <2>3
<1>3. PICK k \in 0..size : NewHash(n, t, leg, m) = Hash(n, t, leg, m, k) /\ Hash(n, t, leg, m, k) \notin table
  BY <1>2 DEF NewHash, table
<1>4. k \in Nat
  BY <1>1
<1> QED
  BY <1>3, <1>4, HashFacts DEF Member, table

(* An entry is set, and all others stay. *)
LEMMA Setting ==
  ASSUME TablesOK, NEW n \in Nodes, NEW h \in Hashes, NEW incoming \in BOOLEAN, NEW secret \in BOOLEAN,
         SetLift(n, h, incoming, secret)
  PROVE  /\ TablesOK'
         /\ \A k \in Nodes, g \in Hashes : Member(k, g)' <=> Member(k, g) \/ (k = n /\ g = h)
         /\ lifts'[n][h].incoming = incoming /\ lifts'[n][h].secret = secret
         /\ \A k \in Nodes, g \in Hashes :
              Member(k, g) /\ ~(k = n /\ g = h) => lifts'[k][g] = lifts[k][g]
<1> DEFINE entry == [incoming |-> incoming, secret |-> secret]
           table == [g \in DOMAIN lifts[n] \cup {h} |-> IF g = h THEN entry ELSE lifts[n][g]]
<1>1. lifts' = [lifts EXCEPT ![n] = table]
  BY DEF SetLift
<1>2. entry \in Entries /\ entry.incoming = incoming /\ entry.secret = secret
  BY DEF Entries
<1> HIDE DEF entry
<1>3. DOMAIN lifts' = Nodes /\ lifts'[n] = table /\ \A k \in Nodes \ {n} : lifts'[k] = lifts[k]
  BY <1>1 DEF TablesOK
<1>4. /\ DOMAIN table = DOMAIN lifts[n] \cup {h}
      /\ table[h] = entry
      /\ \A g \in DOMAIN lifts[n] \ {h} : table[g] = lifts[n][g]
  OBVIOUS
<1> HIDE DEF table
<1>5. TablesOK'
  BY <1>2, <1>3, <1>4, FS_AddElement DEF TablesOK
<1>6. \A k \in Nodes, g \in Hashes : Member(k, g)' <=> Member(k, g) \/ (k = n /\ g = h)
  BY <1>3, <1>4 DEF Member
<1>7. lifts'[n][h].incoming = incoming /\ lifts'[n][h].secret = secret
  BY <1>2, <1>3, <1>4
<1>8. \A k \in Nodes, g \in Hashes :
        Member(k, g) /\ ~(k = n /\ g = h) => lifts'[k][g] = lifts[k][g]
  BY <1>3, <1>4 DEF Member
<1> QED
  BY <1>5, <1>6, <1>7, <1>8

(* A lift that is set stays one that its initiator has started: n is the initiator, who
   has the secret, or joins or learns. *)
LEMMA SettingMembers ==
  ASSUME TablesOK, MembersStarted,
         NEW n \in Nodes, NEW h \in Hashes, NEW incoming \in BOOLEAN, NEW secret \in BOOLEAN,
         SetLift(n, h, incoming, secret),
         \A k \in Nodes : found[k] \subseteq found'[k],
         \/ /\ n = h.initiator /\ secret /\ LoopOf(h) \in found'[n]
            /\ incoming \/ \A k \in Nodes : ~Member(k, h)
         \/ /\ n # h.initiator /\ Member(h.initiator, h)
            /\ secret => IsClosed(h)
  PROVE  /\ MembersStarted'
         /\ \A g \in Hashes \ {h} : Member(g.initiator, g) => Member(g.initiator, g)' /\ IsClosed(g)' = IsClosed(g)
         /\ Member(h.initiator, h)'
         /\ n = h.initiator => IsClosed(h)' = incoming
         /\ n # h.initiator => IsClosed(h)' = IsClosed(h)
<1>1. /\ \A k \in Nodes, g \in Hashes : Member(k, g)' <=> Member(k, g) \/ (k = n /\ g = h)
      /\ lifts'[n][h].incoming = incoming /\ lifts'[n][h].secret = secret
      /\ \A k \in Nodes, g \in Hashes :
           Member(k, g) /\ ~(k = n /\ g = h) => lifts'[k][g] = lifts[k][g]
  BY Setting
<1>2. \A g \in Hashes : g.initiator \in Nodes
  BY HashFacts
<1>3. \A g \in Hashes \ {h} : Member(g.initiator, g) => Member(g.initiator, g)' /\ IsClosed(g)' = IsClosed(g)
  BY <1>1, <1>2 DEF IsClosed
<1>4. Member(h.initiator, h)'
  BY <1>1, <1>2
<1>5. n = h.initiator => IsClosed(h)' = incoming
  BY <1>1 DEF IsClosed
<1>6. n # h.initiator => IsClosed(h)' = IsClosed(h)
  BY <1>1, <1>2 DEF IsClosed
<1>7. ASSUME NEW k \in Nodes, NEW g \in Hashes, Member(k, g)'
      PROVE  /\ Member(g.initiator, g)'
             /\ lifts'[g.initiator][g].secret
             /\ LoopOf(g) \in found'[g.initiator]
             /\ lifts'[k][g].secret => k = g.initiator \/ IsClosed(g)'
  <2>1. CASE g # h
    <3>1. Member(k, g) /\ lifts'[k][g] = lifts[k][g]
      BY <1>1, <1>7, <2>1
    <3>2. Member(g.initiator, g) /\ lifts'[g.initiator][g] = lifts[g.initiator][g]
      BY <1>1, <1>2, <2>1, <3>1 DEF MembersStarted
    <3> QED
      BY <1>2, <1>3, <2>1, <3>1, <3>2 DEF MembersStarted
  <2>2. CASE g = h /\ n = h.initiator
    <3>1. CASE k = n
      BY <1>1, <1>4, <2>2, <3>1
    <3>2. CASE k # n
      <4>1. Member(k, h)
        BY <1>1, <1>7, <2>2, <3>2
      <4>2. incoming /\ secret /\ LoopOf(h) \in found'[n]
        BY <2>2, <4>1
      <4>3. IsClosed(h)'
        BY <1>5, <2>2, <4>2
      <4>4. lifts'[n][h].secret
        BY <1>1, <4>2
      <4> QED
        BY <1>4, <2>2, <4>2, <4>3, <4>4
    <3> QED
      BY <3>1, <3>2
  <2>3. CASE g = h /\ n # h.initiator
    <3>1. lifts'[h.initiator][h] = lifts[h.initiator][h] /\ Member(h.initiator, h)
      BY <1>1, <1>2, <2>3
    <3>2. LoopOf(h) \in found'[h.initiator] /\ lifts[h.initiator][h].secret
      BY <1>2, <3>1 DEF MembersStarted
    <3>3. CASE k = n
      BY <1>1, <1>4, <1>6, <2>3, <3>1, <3>2, <3>3
    <3>4. CASE k # n
      <4>1. Member(k, h) /\ lifts'[k][h] = lifts[k][h]
        BY <1>1, <1>7, <2>3, <3>4
      <4> QED
        BY <1>4, <1>6, <2>3, <3>1, <3>2, <4>1 DEF MembersStarted
    <3> QED
      BY <3>3, <3>4
  <2> QED
    BY <2>1, <2>2, <2>3
<1> QED
  BY <1>3, <1>4, <1>5, <1>6, <1>7 DEF MembersStarted

-----------------------------------------------------------------------------
(***************************************************************************)
(* The abstract lift, read off the tables.                                 *)
(***************************************************************************)
Meaning ==
  /\ Joined \subseteq Nodes \X Hashes /\ Knowing \subseteq Nodes \X Hashes /\ Closed \subseteq Hashes
  /\ \A n \in Nodes, h \in Hashes :
       /\ <<n, h>> \in Joined <=> Member(n, h)
       /\ <<n, h>> \in Knowing <=> Member(n, h) /\ lifts[n][h].secret
  /\ \A h \in Hashes : h \in Closed <=> Member(h.initiator, h) /\ IsClosed(h)

(* The tables have that meaning. *)
LEMMA MeaningHolds == TablesOK /\ MembersStarted => Meaning
<1> SUFFICES ASSUME TablesOK, MembersStarted
             PROVE  Meaning
  OBVIOUS
<1>1. UNION {DOMAIN lifts[n] : n \in Nodes} \subseteq Hashes
  BY DEF TablesOK
<1>2. Joined \subseteq Nodes \X Hashes /\ Knowing \subseteq Nodes \X Hashes /\ Closed \subseteq Hashes
  BY <1>1 DEF Joined, Knowing, Closed
<1>3. ASSUME NEW n \in Nodes, NEW h \in Hashes
      PROVE  <<n, h>> \in Joined <=> Member(n, h)
  BY DEF Joined, Member
<1>4. ASSUME NEW n \in Nodes, NEW h \in Hashes
      PROVE  <<n, h>> \in Knowing <=> Member(n, h) /\ lifts[n][h].secret
  BY <1>3 DEF Knowing
<1>5. ASSUME NEW h \in Hashes
      PROVE  h \in Closed <=> Member(h.initiator, h) /\ IsClosed(h)
  <2>1. h \in UNION {DOMAIN lifts[n] : n \in Nodes} <=> \E n \in Nodes : Member(n, h)
    BY DEF Member
  <2>2. (\E n \in Nodes : Member(n, h)) <=> Member(h.initiator, h)
    BY HashFacts DEF MembersStarted
  <2> QED
    BY <2>1, <2>2 DEF Closed, IsClosed
<1> QED
  BY <1>2, <1>3, <1>4, <1>5 DEF Meaning

(* What setting an entry means. *)
LEMMA SettingMeans ==
  ASSUME TablesOK, MembersStarted, MembersStarted',
         NEW n \in Nodes, NEW h \in Hashes, NEW incoming \in BOOLEAN, NEW secret \in BOOLEAN,
         SetLift(n, h, incoming, secret),
         Member(n, h) => (lifts[n][h].secret => secret),
         \A g \in Hashes \ {h} : Member(g.initiator, g) => IsClosed(g)' = IsClosed(g)
  PROVE  /\ Joined' = Joined \cup {<<n, h>>}
         /\ Knowing' = IF secret THEN Knowing \cup {<<n, h>>} ELSE Knowing
         /\ IsClosed(h)' /\ Member(h.initiator, h)' => Closed' = Closed \cup {h}
         /\ ~IsClosed(h)' /\ h \notin Closed => Closed' = Closed
<1>1. /\ TablesOK'
      /\ \A k \in Nodes, g \in Hashes : Member(k, g)' <=> Member(k, g) \/ (k = n /\ g = h)
      /\ lifts'[n][h].secret = secret
      /\ \A k \in Nodes, g \in Hashes :
           Member(k, g) /\ ~(k = n /\ g = h) => lifts'[k][g] = lifts[k][g]
  BY Setting
<1>2. Meaning
  BY MeaningHolds
<1>3. (TablesOK /\ MembersStarted => Meaning)'
  BY MeaningHolds, PTL
<1>4. Meaning'
  BY <1>1, <1>3
<1>5. Joined' = Joined \cup {<<n, h>>}
  <2>1. \A k \in Nodes, g \in Hashes : <<k, g>> \in Joined' <=> <<k, g>> \in Joined \cup {<<n, h>>}
    BY <1>1, <1>2, <1>4 DEF Meaning
  <2>2. Joined' \subseteq Nodes \X Hashes /\ Joined \cup {<<n, h>>} \subseteq Nodes \X Hashes
    BY <1>2, <1>4 DEF Meaning
  <2> QED
    BY <2>1, <2>2
<1>6. Knowing' = IF secret THEN Knowing \cup {<<n, h>>} ELSE Knowing
  <2> DEFINE after == IF secret THEN Knowing \cup {<<n, h>>} ELSE Knowing
  <2>1. ASSUME NEW k \in Nodes, NEW g \in Hashes
        PROVE  <<k, g>> \in Knowing' <=> <<k, g>> \in after
    <3>1. CASE k = n /\ g = h
      <4>1. <<n, h>> \in Knowing' <=> secret
        BY <1>1, <1>4 DEF Meaning
      <4>2. <<n, h>> \in Knowing => secret
        BY <1>2 DEF Meaning
      <4> QED
        BY <3>1, <4>1, <4>2
    <3>2. CASE ~(k = n /\ g = h)
      <4>1. <<k, g>> \in Knowing' <=> <<k, g>> \in Knowing
        BY <1>1, <1>2, <1>4, <3>2 DEF Meaning
      <4>2. <<k, g>> \in after <=> <<k, g>> \in Knowing
        BY <3>2
      <4> QED
        BY <4>1, <4>2
    <3> QED
      BY <3>1, <3>2
  <2>2. Knowing' \subseteq Nodes \X Hashes /\ after \subseteq Nodes \X Hashes
    BY <1>2, <1>4 DEF Meaning
  <2> HIDE DEF after
  <2>3. Knowing' = after
    BY <2>1, <2>2
  <2> QED
    BY <2>3 DEF after
<1>7. ASSUME NEW g \in Hashes, g # h
      PROVE  g \in Closed' <=> g \in Closed
  BY <1>1, <1>2, <1>4, <1>7, HashFacts DEF Meaning
<1>8. IsClosed(h)' /\ Member(h.initiator, h)' => Closed' = Closed \cup {h}
  <2>1. IsClosed(h)' /\ Member(h.initiator, h)' => h \in Closed'
    BY <1>4 DEF Meaning
  <2> QED
    BY <1>2, <1>4, <1>7, <2>1 DEF Meaning
<1>9. ~IsClosed(h)' /\ h \notin Closed => Closed' = Closed
  <2>1. ~IsClosed(h)' => h \notin Closed'
    BY <1>4 DEF Meaning
  <2> QED
    BY <1>2, <1>4, <1>7, <2>1 DEF Meaning
<1> QED
  BY <1>5, <1>6, <1>8, <1>9

-----------------------------------------------------------------------------
(***************************************************************************)
(* The invariant of lifts.                                                 *)
(***************************************************************************)

(* A proposal that is under way has not come home. *)
ProposalsOpen ==
  \A h \in Hashes : Under(Propose(h)) => Member(h.initiator, h) /\ ~IsClosed(h)

(* A commit that is under way carries the secret only if the proposal has come home. *)
CommitsClosed ==
  \A h \in Hashes, secret \in BOOLEAN :
    Under(Commit(h, secret)) => Member(h.initiator, h) /\ (secret => IsClosed(h))

LiftInv ==
  /\ WireOK
  /\ TablesOK
  /\ DOMAIN found = Nodes
  /\ MembersStarted
  /\ OneProposal
  /\ ProposalsOpen
  /\ CommitsClosed

(* There are no lifts at the beginning. *)
LEMMA LiftInit == Init => LiftInv /\ Ideal!Init
<1> SUFFICES ASSUME Init
             PROVE  LiftInv /\ Ideal!Init
  OBVIOUS
<1>1. /\ network = [m \in Nodes |-> [n \in Nodes |-> <<>>]]
      /\ known = [n \in Nodes |-> {}]
      /\ offer = [n \in Nodes |-> [f \in Nodes |-> {}]]
      /\ found = [n \in Nodes |-> {}]
      /\ lifts = [n \in Nodes |-> <<>>]
  BY DEF Init, Tracing!Init, Tracing!Probing!Init
<1>2. WireOK
  BY <1>1 DEF WireOK
<1>3. DOMAIN lifts = Nodes /\ \A n \in Nodes : DOMAIN lifts[n] = {}
  BY <1>1
<1>4. TablesOK /\ MembersStarted
  BY <1>3, FS_EmptySet DEF TablesOK, MembersStarted, Member
<1>5. \A x, y \in Nodes : Len(network[x][y]) = 0
  BY <1>1
<1>6. OneProposal /\ ProposalsOpen /\ CommitsClosed
  BY <1>5 DEF OneProposal, ProposalAt, ProposalsOpen, CommitsClosed, Under
<1>7. Joined = {} /\ Closed = {} /\ Knowing = {}
  BY <1>3 DEF Joined, Closed, Knowing
<1> QED
  BY <1>1, <1>2, <1>4, <1>6, <1>7 DEF LiftInv, Ideal!Init

-----------------------------------------------------------------------------
(***************************************************************************)
(* The steps.                                                              *)
(***************************************************************************)

(* Nothing of a lift changes. *)
LEMMA ElsewhereStep ==
  ASSUME LiftInv, Below, lifts' = lifts, found' = found
  PROVE  LiftInv' /\ UNCHANGED Ideal!vars
<1>1. WireOK'
  BY DEF Below, WireOK, Keeps
<1>2. OneProposal'
  BY KeepsOneProposal DEF LiftInv, Below
<1>3. \A h \in Hashes : Under(Propose(h))' => Under(Propose(h))
  BY KeepsUnder, PlainFacts, LiftFacts DEF Below
<1>4. \A h \in Hashes, secret \in BOOLEAN : Under(Commit(h, secret))' => Under(Commit(h, secret))
  BY KeepsUnder, PlainFacts, LiftFacts DEF Below
<1>5. /\ \A n, h : Member(n, h)' <=> Member(n, h)
      /\ \A h : IsClosed(h)' = IsClosed(h)
  BY DEF Member, IsClosed
<1>6. ProposalsOpen' /\ CommitsClosed'
  BY <1>3, <1>4, <1>5 DEF LiftInv, ProposalsOpen, CommitsClosed
<1>7. TablesOK' /\ MembersStarted' /\ DOMAIN found' = Nodes
  BY <1>5 DEF LiftInv, TablesOK, MembersStarted
<1>8. UNCHANGED Ideal!vars
  BY DEF Ideal!vars, Joined, Closed, Knowing
<1> QED
  BY <1>1, <1>2, <1>6, <1>7, <1>8 DEF LiftInv

(* The messages of the other lifts are those that were there before, and those of h are
   as they must be. *)
LEMMA MessagesStep ==
  ASSUME LiftInv, NEW h \in Hashes,
         \A g \in Hashes \ {h} : Member(g.initiator, g) => Member(g.initiator, g)' /\ IsClosed(g)' = IsClosed(g),
         \A g \in Hashes \ {h} : Under(Propose(g))' => Under(Propose(g)),
         \A g \in Hashes \ {h}, s \in BOOLEAN : Under(Commit(g, s))' => Under(Commit(g, s)),
         Under(Propose(h))' => Member(h.initiator, h)' /\ ~IsClosed(h)',
         \A s \in BOOLEAN : Under(Commit(h, s))' => Member(h.initiator, h)' /\ (s => IsClosed(h)')
  PROVE  ProposalsOpen' /\ CommitsClosed'
<1>1. ASSUME NEW g \in Hashes, Under(Propose(g))'
      PROVE  Member(g.initiator, g)' /\ ~IsClosed(g)'
  <2>1. CASE g = h
    BY <1>1, <2>1
  <2>2. CASE g # h
    <3>1. Member(g.initiator, g) /\ ~IsClosed(g)
      BY <1>1, <2>2 DEF LiftInv, ProposalsOpen
    <3> QED
      BY <2>2, <3>1
  <2> QED
    BY <2>1, <2>2
<1>2. ASSUME NEW g \in Hashes, NEW s \in BOOLEAN, Under(Commit(g, s))'
      PROVE  Member(g.initiator, g)' /\ (s => IsClosed(g)')
  <2>1. CASE g = h
    BY <1>2, <2>1
  <2>2. CASE g # h
    <3>1. Member(g.initiator, g) /\ (s => IsClosed(g))
      BY <1>2, <2>2 DEF LiftInv, CommitsClosed
    <3> QED
      BY <2>2, <3>1
  <2> QED
    BY <2>1, <2>2
<1> QED
  BY <1>1, <1>2 DEF ProposalsOpen, CommitsClosed

(* The oldest message is under way. *)
LEMMA OldestUnder ==
  ASSUME network \in [Nodes -> [Nodes -> Seq(Wire)]],
         NEW m \in Nodes, NEW n \in Nodes, network[m][n] # <<>>
  PROVE  Under(network[m][n][1])
<1>1. network[m][n] \in Seq(Wire)
  OBVIOUS
<1>2. 1 \in 1..Len(network[m][n])
  BY <1>1
<1> QED
  BY <1>2 DEF Under

(* The messages of lifts are different. *)
LEMMA DifferentMessages ==
  /\ \A g, h : g # h => Propose(g) # Propose(h)
  /\ \A g, h, s : Propose(g) # Commit(h, s)
  /\ \A g, h, r, s : Commit(g, r) = Commit(h, s) => g = h /\ r = s
  /\ \A h \in Hashes : Propose(h) \in Wire /\ Propose(h) \in Proposals
  /\ \A h \in Hashes, s \in BOOLEAN : Commit(h, s) \in Wire /\ Commit(h, s) \notin Proposals
<1>1. \A g, h : g # h => Propose(g) # Propose(h)
  BY DEF Propose
<1>2. \A g, h, s : Propose(g) # Commit(h, s)
  BY DEF Propose, Commit
<1>3. \A g, h, r, s : Commit(g, r) = Commit(h, s) => g = h /\ r = s
  BY DEF Commit
<1> QED
  BY <1>1, <1>2, <1>3 DEF Wire, Proposals, Commits

(* A loop is found: a lift starts. *)
LEMMA FoundStep ==
  ASSUME LiftInv, NEW m \in Nodes, NEW n \in Nodes, HandleLoopFound(m, n)
  PROVE  LiftInv' /\ Ideal!Next
<1>1. PICK message \in Tracing!Arriving(m, n) :
        /\ Tracing!RecordLoop(m, n, message.trace, message.leg)
        /\ SetLift(n, NewHash(n, message.trace, message.leg, m), FALSE, TRUE)
        /\ Send(m, n, message.leg, Propose(NewHash(n, message.trace, message.leg, m)))
  BY DEF HandleLoopFound
<1>2. /\ network[m][n] # <<>>
      /\ message.trace \in Tracing!Traces /\ message.leg \in Nodes
  BY DEF Tracing!Arriving, Tracing!TraceMessages, Tracing!TraceMessage
<1>3. PICK h \in Hashes :
        /\ h = NewHash(n, message.trace, message.leg, m)
        /\ h.initiator = n
        /\ LoopOf(h) = [trace |-> message.trace, outgoing |-> message.leg, incoming |-> m]
        /\ ~Member(n, h)
  BY <1>2, NewHashFacts DEF LiftInv
<1>4. /\ known' = known /\ offer' = offer
      /\ found' = [found EXCEPT ![n] = @ \cup
                     {[trace |-> message.trace, outgoing |-> message.leg, incoming |-> m]}]
  BY <1>1 DEF Tracing!RecordLoop, Tracing!probing
<1>5. h.initiator = n /\ ~Member(n, h)
  BY <1>3
<1>6. SetLift(n, h, FALSE, TRUE) /\ Send(m, n, message.leg, Propose(h))
  BY <1>1, <1>3
<1>7. /\ DOMAIN found' = Nodes
      /\ \A k \in Nodes : found[k] \subseteq found'[k]
      /\ LoopOf(h) \in found'[n]
  BY <1>3, <1>4 DEF LiftInv
<1>8. \A k \in Nodes : ~Member(k, h)
  BY <1>5, <1>5 DEF LiftInv, MembersStarted
<1>9. ~Under(Propose(h)) /\ \A s \in BOOLEAN : ~Under(Commit(h, s))
  BY <1>5, <1>8 DEF LiftInv, ProposalsOpen, CommitsClosed
<1>10. /\ TablesOK' /\ MembersStarted'
       /\ \A g \in Hashes \ {h} :
            Member(g.initiator, g) => Member(g.initiator, g)' /\ IsClosed(g)' = IsClosed(g)
       /\ Member(h.initiator, h)' /\ ~IsClosed(h)'
  <2>1. TablesOK /\ MembersStarted /\ TRUE \in BOOLEAN /\ FALSE \in BOOLEAN
    BY DEF LiftInv
  <2>2. TablesOK'
    BY <1>5, <1>6, <2>1, Setting
  <2>3. n = h.initiator /\ TRUE /\ LoopOf(h) \in found'[n] /\ (FALSE \/ \A k \in Nodes : ~Member(k, h))
    BY <1>5, <1>7, <1>8
  <2>4. /\ MembersStarted'
        /\ \A g \in Hashes \ {h} :
             Member(g.initiator, g) => Member(g.initiator, g)' /\ IsClosed(g)' = IsClosed(g)
        /\ Member(h.initiator, h)'
        /\ n = h.initiator => IsClosed(h)' = FALSE
    BY <1>5, <1>6, <1>7, <2>1, <2>3, SettingMembers
  <2> QED
    BY <2>2, <2>3, <2>4
<1>11. network' \in [Nodes -> [Nodes -> Seq(Wire)]]
  BY <1>2, <1>5, <1>6, Sending, DifferentMessages DEF LiftInv, WireOK
<1>12. WireOK'
  BY <1>4, <1>11 DEF LiftInv, WireOK
<1>13. OneProposal'
  BY <1>2, <1>5, <1>6, <1>9, SendingOneProposal, DifferentMessages DEF LiftInv, WireOK
<1>14. \A w : w # Propose(h) /\ Under(w)' => Under(w)
  BY <1>2, <1>5, <1>6, SendingUnder, DifferentMessages DEF LiftInv, WireOK
<1>15. ProposalsOpen' /\ CommitsClosed'
  <2>1. \A g \in Hashes \ {h} : Under(Propose(g))' => Under(Propose(g))
    BY <1>14, DifferentMessages
  <2>2. \A g \in Hashes, s \in BOOLEAN : Under(Commit(g, s))' => Under(Commit(g, s))
    BY <1>14, DifferentMessages
  <2>3. \A s \in BOOLEAN : ~Under(Commit(h, s))'
    BY <1>9, <2>2, <1>5
  <2> QED
    BY <1>5, <1>10, <2>1, <2>2, <2>3, MessagesStep
<1>16. LiftInv'
  BY <1>7, <1>10, <1>12, <1>13, <1>15 DEF LiftInv
<1>17. Meaning
  BY MeaningHolds DEF LiftInv
<1>18. /\ Joined' = Joined \cup {<<n, h>>}
       /\ Knowing' = Knowing \cup {<<n, h>>}
       /\ Closed' = Closed
  <2>1. h \notin Closed
    BY <1>5, <1>8, <1>17 DEF Meaning
  <2>2. TablesOK /\ MembersStarted /\ TRUE \in BOOLEAN /\ FALSE \in BOOLEAN
    BY DEF LiftInv
  <2>3. \A g \in Hashes \ {h} : Member(g.initiator, g) => IsClosed(g)' = IsClosed(g)
    BY <1>10
  <2>4. Member(n, h) => (lifts[n][h].secret => TRUE)
    OBVIOUS
  <2> QED
    BY <1>5, <1>6, <1>10, <2>1, <2>2, <2>3, <2>4, SettingMeans
<1>19. \A k \in Nodes : <<k, h>> \notin Joined
  BY <1>5, <1>8, <1>17 DEF Meaning
<1>20. Ideal!Start(h)
  BY <1>5, <1>18, <1>19 DEF Ideal!Start
<1>21. <<n, h>> \in Joined' \ Joined
  BY <1>5, <1>18, <1>19
<1>22. \E member \in Joined' \ Joined : member[2] \in Hashes /\ Ideal!Start(member[2])
  BY <1>5, <1>20, <1>21
<1> QED
  BY <1>16, <1>22 DEF Ideal!Next

(* A proposal that is passed on: somebody joins. *)
LEMMA ForwardStep ==
  ASSUME LiftInv, NEW m \in Nodes, NEW n \in Nodes, ForwardPropose(m, n)
  PROVE  LiftInv' /\ Ideal!Next
<1>1. PICK message \in Arriving(m, n, "propose") :
        /\ message.lift \notin DOMAIN lifts[n]
        /\ SetLift(n, message.lift, TRUE, FALSE)
        /\ Send(m, n, OtherParty(n, m, message.lift), Propose(message.lift))
        /\ UNCHANGED tracing
  BY DEF ForwardPropose
<1> DEFINE h == message.lift
           f == OtherParty(n, m, h)
<1>2. network[m][n] # <<>> /\ h \in Hashes /\ network[m][n][1] = Propose(h)
  BY ProposalArrives DEF LiftInv, WireOK
<1>3. /\ ~Member(n, h) /\ SetLift(n, h, TRUE, FALSE) /\ Send(m, n, f, Propose(h))
      /\ known' = known /\ offer' = offer /\ found' = found
  BY <1>1 DEF Member, tracing
<1> HIDE DEF h, f
<1>4. network \in [Nodes -> [Nodes -> Seq(Wire)]]
  BY DEF LiftInv, WireOK
<1>5. Under(Propose(h))
  BY <1>2, <1>4, OldestUnder
<1>6. Member(h.initiator, h) /\ ~IsClosed(h) /\ n # h.initiator
  BY <1>2, <1>3, <1>5 DEF LiftInv, ProposalsOpen
<1>7. /\ TablesOK' /\ MembersStarted'
      /\ \A g \in Hashes \ {h} :
           Member(g.initiator, g) => Member(g.initiator, g)' /\ IsClosed(g)' = IsClosed(g)
      /\ Member(h.initiator, h)' /\ ~IsClosed(h)'
  BY <1>2, <1>3, <1>6, Setting, SettingMembers DEF LiftInv
<1>8. WireOK'
  BY <1>2, <1>3, <1>4, Sending, DifferentMessages DEF LiftInv, WireOK
<1>9. OneProposal'
  BY <1>2, <1>3, <1>4, SendingOneProposal, DifferentMessages DEF LiftInv
<1>10. \A w : w # Propose(h) /\ Under(w)' => Under(w)
  BY <1>2, <1>3, <1>4, SendingUnder, DifferentMessages
<1>11. \A s \in BOOLEAN : Under(Commit(h, s))' => ~s
  BY <1>2, <1>6, <1>10, DifferentMessages DEF LiftInv, CommitsClosed
<1>12. ProposalsOpen' /\ CommitsClosed'
  BY <1>2, <1>7, <1>10, <1>11, MessagesStep, DifferentMessages
<1>13. LiftInv'
  BY <1>3, <1>7, <1>8, <1>9, <1>12 DEF LiftInv
<1>14. Meaning
  BY MeaningHolds DEF LiftInv
<1>15. Joined' = Joined \cup {<<n, h>>} /\ Knowing' = Knowing /\ Closed' = Closed /\ h \notin Closed
  <2>1. h \notin Closed
    BY <1>2, <1>6, <1>14 DEF Meaning
  <2>2. TablesOK /\ MembersStarted /\ TRUE \in BOOLEAN /\ FALSE \in BOOLEAN
    BY DEF LiftInv
  <2>3. \A g \in Hashes \ {h} : Member(g.initiator, g) => IsClosed(g)' = IsClosed(g)
    BY <1>7
  <2> QED
    BY <1>2, <1>3, <1>7, <2>1, <2>2, <2>3, SettingMeans
<1>16. Ideal!Join(n, h)
  BY <1>15 DEF Ideal!Join
<1>17. <<h.initiator, h>> \in Joined
  BY <1>2, <1>6, <1>14, HashFacts DEF Meaning
<1>18. \E member \in Joined : \E k \in Nodes : Ideal!Join(k, member[2])
  BY <1>16, <1>17
<1> QED
  BY <1>13, <1>18 DEF Ideal!Next

(* A proposal that is answered with another message is gone. *)
LEMMA Answering ==
  ASSUME network \in [Nodes -> [Nodes -> Seq(Wire)]], OneProposal,
         NEW m \in Nodes, NEW n \in Nodes, network[m][n] # <<>>,
         NEW h \in Hashes, network[m][n][1] = Propose(h),
         NEW f, NEW w \in Wire, w \notin Proposals, Send(m, n, f, w)
  PROVE  OneProposal' /\ ~Under(Propose(h))'
<1>1. w # Propose(h) /\ w \notin Proposals \ {Propose(h)}
  BY DEF Proposals
<1>2. OneProposal'
  BY <1>1, SendingOneProposal
<1> QED
  BY <1>1, <1>2, SendingOneProposal

(* A proposal that has come home closes the circle. *)
LEMMA HomeStep ==
  ASSUME LiftInv, NEW m \in Nodes, NEW n \in Nodes, NEW h \in Hashes,
         network[m][n] # <<>>, network[m][n][1] = Propose(h),
         n = h.initiator, Member(n, h), SetLift(n, h, TRUE, TRUE), Send(m, n, m, Commit(h, TRUE)),
         UNCHANGED <<known, offer, found>>
  PROVE  LiftInv' /\ Ideal!Next
<1>1. network \in [Nodes -> [Nodes -> Seq(Wire)]]
  BY DEF LiftInv, WireOK
<1>2. Under(Propose(h))
  BY <1>1, OldestUnder
<1>3. Member(h.initiator, h) /\ ~IsClosed(h)
  BY <1>2 DEF LiftInv, ProposalsOpen
<1>4. /\ TablesOK /\ MembersStarted /\ TRUE \in BOOLEAN /\ FALSE \in BOOLEAN
      /\ \A k \in Nodes : found[k] \subseteq found'[k]
      /\ LoopOf(h) \in found'[n]
  BY <1>3 DEF LiftInv, MembersStarted
<1>5. /\ TablesOK' /\ MembersStarted'
      /\ \A g \in Hashes \ {h} :
           Member(g.initiator, g) => Member(g.initiator, g)' /\ IsClosed(g)' = IsClosed(g)
      /\ Member(h.initiator, h)' /\ IsClosed(h)'
  BY <1>4, Setting, SettingMembers
<1>6. Commit(h, TRUE) \in Wire /\ Commit(h, TRUE) \notin Proposals /\ Commit(h, TRUE) # Propose(h)
  BY DifferentMessages
<1>7. WireOK'
  BY <1>1, <1>6, Sending DEF LiftInv, WireOK
<1>8. OneProposal' /\ ~Under(Propose(h))'
  BY <1>1, <1>6, Answering DEF LiftInv
<1>9. \A w : w # Commit(h, TRUE) /\ Under(w)' => Under(w)
  BY <1>1, <1>6, SendingUnder
<1>10. ProposalsOpen' /\ CommitsClosed'
  BY <1>5, <1>8, <1>9, MessagesStep, DifferentMessages
<1>11. LiftInv'
  BY <1>5, <1>7, <1>8, <1>10 DEF LiftInv
<1>12. Meaning
  BY MeaningHolds, <1>4
<1>13. <<n, h>> \in Joined /\ <<n, h>> \in Knowing
  BY <1>3, <1>12 DEF Meaning, LiftInv, MembersStarted
<1>14. /\ Joined' = Joined \cup {<<n, h>>}
       /\ Knowing' = Knowing \cup {<<n, h>>}
       /\ Closed' = Closed \cup {h}
  BY <1>4, <1>5, SettingMeans
<1>15. Ideal!Close(h)
  BY <1>13, <1>14 DEF Ideal!Close
<1>16. \E member \in Joined : Ideal!Close(member[2])
  BY <1>13, <1>15
<1> QED
  BY <1>11, <1>16 DEF Ideal!Next

(* A proposal that comes to a node on its way again is lost, and so is the commit that
   answers it, which has no secret. *)
LEMMA AstrayStep ==
  ASSUME LiftInv, NEW m \in Nodes, NEW n \in Nodes, NEW h \in Hashes,
         network[m][n] # <<>>, network[m][n][1] = Propose(h),
         n # h.initiator, Member(n, h), ~lifts[n][h].secret,
         SetLift(n, h, TRUE, FALSE), Send(m, n, m, Commit(h, FALSE)),
         UNCHANGED <<known, offer, found>>
  PROVE  LiftInv' /\ UNCHANGED Ideal!vars
<1>1. network \in [Nodes -> [Nodes -> Seq(Wire)]]
  BY DEF LiftInv, WireOK
<1>2. Under(Propose(h))
  BY <1>1, OldestUnder
<1>3. Member(h.initiator, h) /\ ~IsClosed(h)
  BY <1>2 DEF LiftInv, ProposalsOpen
<1>4. /\ TablesOK /\ MembersStarted /\ TRUE \in BOOLEAN /\ FALSE \in BOOLEAN
      /\ \A k \in Nodes : found[k] \subseteq found'[k]
  BY <1>3 DEF LiftInv
<1>5. /\ TablesOK' /\ MembersStarted'
      /\ \A g \in Hashes \ {h} :
           Member(g.initiator, g) => Member(g.initiator, g)' /\ IsClosed(g)' = IsClosed(g)
      /\ Member(h.initiator, h)' /\ ~IsClosed(h)'
  BY <1>3, <1>4, Setting, SettingMembers
<1>6. Commit(h, FALSE) \in Wire /\ Commit(h, FALSE) \notin Proposals /\ Commit(h, FALSE) # Propose(h)
  BY DifferentMessages
<1>7. WireOK'
  BY <1>1, <1>6, Sending DEF LiftInv, WireOK
<1>8. OneProposal' /\ ~Under(Propose(h))'
  BY <1>1, <1>6, Answering DEF LiftInv
<1>9. \A w : w # Commit(h, FALSE) /\ Under(w)' => Under(w)
  BY <1>1, <1>6, SendingUnder
<1>10. ~Under(Commit(h, TRUE))'
  <2>1. TRUE \in BOOLEAN /\ (Under(Commit(h, TRUE)) => Member(h.initiator, h) /\ (TRUE => IsClosed(h)))
    BY DEF LiftInv, CommitsClosed
  <2>2. Commit(h, TRUE) # Commit(h, FALSE)
    BY DEF Commit
  <2> QED
    BY <1>3, <1>9, <2>1, <2>2
<1>11. ProposalsOpen' /\ CommitsClosed'
  BY <1>5, <1>8, <1>9, <1>10, MessagesStep, DifferentMessages
<1>12. LiftInv'
  BY <1>5, <1>7, <1>8, <1>11 DEF LiftInv
<1>13. Meaning
  BY MeaningHolds, <1>4
<1>14. h \notin Closed /\ <<n, h>> \in Joined
  BY <1>3, <1>13 DEF Meaning
<1>15. Joined' = Joined \cup {<<n, h>>} /\ Knowing' = Knowing /\ Closed' = Closed
  BY <1>4, <1>5, <1>14, SettingMeans
<1> QED
  BY <1>12, <1>14, <1>15 DEF Ideal!vars

(* A proposal of a lift that n knows. *)
LEMMA DecideStep ==
  ASSUME LiftInv, NEW m \in Nodes, NEW n \in Nodes, DecideOnLift(m, n)
  PROVE  LiftInv' /\ [Ideal!Next]_(Ideal!vars)
<1>1. PICK message \in Arriving(m, n, "propose") :
        /\ message.lift \in DOMAIN lifts[n]
        /\ SetLift(n, message.lift, TRUE, lifts[n][message.lift].secret)
        /\ Send(m, n, m, Commit(message.lift, lifts[n][message.lift].secret))
        /\ UNCHANGED tracing
  BY DEF DecideOnLift
<1> DEFINE h == message.lift
<1>2. network[m][n] # <<>> /\ h \in Hashes /\ network[m][n][1] = Propose(h)
  BY ProposalArrives DEF LiftInv, WireOK
<1>3. /\ Member(n, h) /\ SetLift(n, h, TRUE, lifts[n][h].secret)
      /\ Send(m, n, m, Commit(h, lifts[n][h].secret)) /\ UNCHANGED <<known, offer, found>>
  BY <1>1 DEF Member, tracing
<1> HIDE DEF h
<1>4. lifts[n][h].secret \in BOOLEAN
  BY <1>3 DEF LiftInv, TablesOK, Member, Entries
<1>5. Under(Propose(h))
  BY <1>2, OldestUnder DEF LiftInv, WireOK
<1>6. Member(h.initiator, h) /\ ~IsClosed(h)
  BY <1>2, <1>5 DEF LiftInv, ProposalsOpen
<1>7. CASE n = h.initiator
  <2>1. lifts[n][h].secret = TRUE
    BY <1>2, <1>4, <1>6, <1>7 DEF LiftInv, MembersStarted
  <2>2. SetLift(n, h, TRUE, TRUE) /\ Send(m, n, m, Commit(h, TRUE))
    BY <1>3, <2>1
  <2> QED
    BY <1>2, <1>3, <1>7, <2>2, HomeStep
<1>8. CASE n # h.initiator
  <2>1. lifts[n][h].secret = FALSE
    BY <1>2, <1>3, <1>4, <1>6, <1>8 DEF LiftInv, MembersStarted
  <2>2. SetLift(n, h, TRUE, FALSE) /\ Send(m, n, m, Commit(h, FALSE))
    BY <1>3, <2>1
  <2> QED
    BY <1>2, <1>3, <1>8, <2>1, <2>2, AstrayStep
<1> QED
  BY <1>7, <1>8

(* A commit that carries the secret is of a circle that is closed. *)
LEMMA CommitClosed ==
  ASSUME LiftInv, NEW m \in Nodes, NEW n \in Nodes, network[m][n] # <<>>, NEW h \in Hashes,
         network[m][n][1] = Commit(h, TRUE)
  PROVE  Member(h.initiator, h) /\ IsClosed(h) /\ ~Under(Propose(h))
<1>1. Under(Commit(h, TRUE))
  BY OldestUnder DEF LiftInv, WireOK
<1>2. TRUE \in BOOLEAN /\ (Under(Commit(h, TRUE)) => Member(h.initiator, h) /\ (TRUE => IsClosed(h)))
  BY DEF LiftInv, CommitsClosed
<1> QED
  BY <1>1, <1>2 DEF LiftInv, ProposalsOpen

(* n sets its entry for a lift that is closed, with the secret. *)
LEMMA Learning ==
  ASSUME TablesOK, MembersStarted, NEW n \in Nodes, NEW h \in Hashes, NEW incoming \in BOOLEAN,
         Member(n, h), Member(h.initiator, h), IsClosed(h), n = h.initiator => incoming,
         SetLift(n, h, incoming, TRUE), UNCHANGED found
  PROVE  /\ TablesOK' /\ MembersStarted'
         /\ \A g \in Hashes \ {h} :
              Member(g.initiator, g) => Member(g.initiator, g)' /\ IsClosed(g)' = IsClosed(g)
         /\ Member(h.initiator, h)' /\ IsClosed(h)'
         /\ Joined' = Joined /\ Closed' = Closed /\ Knowing' = Knowing \cup {<<n, h>>}
<1>1. /\ TRUE \in BOOLEAN /\ FALSE \in BOOLEAN
      /\ \A k \in Nodes : found[k] \subseteq found'[k]
      /\ LoopOf(h) \in found'[h.initiator]
  BY DEF MembersStarted
<1>2. Meaning
  BY MeaningHolds
<1>3. h \in Closed /\ <<n, h>> \in Joined
  BY <1>2 DEF Meaning
<1>4. CASE incoming = TRUE
  <2>1. SetLift(n, h, TRUE, TRUE)
    BY <1>4
  <2>2. TablesOK'
    BY <1>1, <2>1, Setting
  <2>3. /\ MembersStarted'
        /\ \A g \in Hashes \ {h} :
             Member(g.initiator, g) => Member(g.initiator, g)' /\ IsClosed(g)' = IsClosed(g)
        /\ Member(h.initiator, h)' /\ IsClosed(h)'
    BY <1>1, <2>1, SettingMembers
  <2>4. /\ Joined' = Joined \cup {<<n, h>>}
        /\ Knowing' = Knowing \cup {<<n, h>>}
        /\ Closed' = Closed \cup {h}
    BY <1>1, <2>1, <2>3, SettingMeans
  <2> QED
    BY <1>3, <2>2, <2>3, <2>4
<1>5. CASE incoming = FALSE
  <2>1. SetLift(n, h, FALSE, TRUE) /\ n # h.initiator
    BY <1>5
  <2>2. TablesOK'
    BY <1>1, <2>1, Setting
  <2>3. /\ MembersStarted'
        /\ \A g \in Hashes \ {h} :
             Member(g.initiator, g) => Member(g.initiator, g)' /\ IsClosed(g)' = IsClosed(g)
        /\ Member(h.initiator, h)' /\ IsClosed(h)'
    BY <1>1, <2>1, SettingMembers
  <2>4. /\ Joined' = Joined \cup {<<n, h>>}
        /\ Knowing' = Knowing \cup {<<n, h>>}
        /\ Closed' = Closed \cup {h}
    BY <1>1, <2>1, <2>3, SettingMeans
  <2> QED
    BY <1>3, <2>2, <2>3, <2>4
<1> QED
  BY <1>4, <1>5

(* A commit that is passed on: n learns the secret. *)
LEMMA LearnStep ==
  ASSUME LiftInv, NEW m \in Nodes, NEW n \in Nodes, NEW h \in Hashes, NEW incoming \in BOOLEAN,
         network[m][n] # <<>>, network[m][n][1] = Commit(h, TRUE),
         Member(n, h), ~lifts[n][h].secret,
         NEW f, SetLift(n, h, incoming, TRUE), Send(m, n, f, Commit(h, TRUE)),
         UNCHANGED <<known, offer, found>>
  PROVE  LiftInv' /\ Ideal!Next
<1>1. network \in [Nodes -> [Nodes -> Seq(Wire)]]
  BY DEF LiftInv, WireOK
<1>2. Member(h.initiator, h) /\ IsClosed(h) /\ ~Under(Propose(h))
  BY CommitClosed
<1>3. n # h.initiator
  BY <1>2 DEF LiftInv, MembersStarted
<1>4. TablesOK /\ MembersStarted /\ UNCHANGED found
  BY DEF LiftInv
<1>5. /\ TablesOK' /\ MembersStarted'
      /\ \A g \in Hashes \ {h} :
           Member(g.initiator, g) => Member(g.initiator, g)' /\ IsClosed(g)' = IsClosed(g)
      /\ Member(h.initiator, h)' /\ IsClosed(h)'
      /\ Joined' = Joined /\ Closed' = Closed /\ Knowing' = Knowing \cup {<<n, h>>}
  BY <1>2, <1>3, <1>4, Learning
<1>6. Commit(h, TRUE) \in Wire /\ Commit(h, TRUE) \notin Proposals /\ Commit(h, TRUE) # Propose(h)
  BY DifferentMessages
<1>7. WireOK'
  BY <1>1, <1>6, Sending DEF LiftInv, WireOK
<1>8. OneProposal'
  BY <1>1, <1>2, <1>6, SendingOneProposal DEF LiftInv
<1>9. \A w : w # Commit(h, TRUE) /\ Under(w)' => Under(w)
  BY <1>1, <1>6, SendingUnder
<1>10. ~Under(Propose(h))'
  BY <1>2, <1>6, <1>9
<1>11. ProposalsOpen' /\ CommitsClosed'
  BY <1>5, <1>9, <1>10, MessagesStep, DifferentMessages
<1>12. LiftInv'
  BY <1>5, <1>7, <1>8, <1>11 DEF LiftInv
<1>13. Meaning
  BY MeaningHolds, <1>4
<1>14. h \in Closed /\ <<n, h>> \in Joined /\ <<n, h>> \notin Knowing
  BY <1>2, <1>13 DEF Meaning
<1>15. Ideal!Learn(n, h)
  BY <1>5, <1>14 DEF Ideal!Learn
<1>16. Ideal!SomeoneLearns
  BY <1>14, <1>15 DEF Ideal!SomeoneLearns
<1> QED
  BY <1>12, <1>16 DEF Ideal!Next

(* A commit that comes to a node that has the secret. *)
LEMMA CompleteStep ==
  ASSUME LiftInv, NEW m \in Nodes, NEW n \in Nodes, NEW h \in Hashes, NEW incoming \in BOOLEAN,
         network[m][n] # <<>>, network[m][n][1] = Commit(h, TRUE),
         Member(n, h), lifts[n][h].secret, incoming = lifts[n][h].incoming,
         SetLift(n, h, incoming, TRUE), network' = [network EXCEPT ![m][n] = Tail(@)],
         UNCHANGED <<known, offer, found>>
  PROVE  LiftInv' /\ UNCHANGED Ideal!vars
<1>1. Keeps(network')
  BY KeepsTaken DEF LiftInv, WireOK
<1>2. Member(h.initiator, h) /\ IsClosed(h) /\ ~Under(Propose(h))
  BY CommitClosed
<1>3. TablesOK /\ MembersStarted /\ UNCHANGED found /\ (n = h.initiator => incoming)
  BY <1>2 DEF LiftInv, IsClosed
<1>4. /\ TablesOK' /\ MembersStarted'
      /\ \A g \in Hashes \ {h} :
           Member(g.initiator, g) => Member(g.initiator, g)' /\ IsClosed(g)' = IsClosed(g)
      /\ Member(h.initiator, h)' /\ IsClosed(h)'
      /\ Joined' = Joined /\ Closed' = Closed /\ Knowing' = Knowing \cup {<<n, h>>}
  BY <1>2, <1>3, Learning
<1>5. WireOK' /\ OneProposal'
  BY <1>1, KeepsOneProposal DEF LiftInv, WireOK, Keeps
<1>6. /\ \A g \in Hashes : Under(Propose(g))' => Under(Propose(g))
      /\ \A g \in Hashes, s \in BOOLEAN : Under(Commit(g, s))' => Under(Commit(g, s))
  BY <1>1, KeepsUnder, PlainFacts, LiftFacts
<1>7. ProposalsOpen' /\ CommitsClosed'
  BY <1>2, <1>4, <1>6, MessagesStep
<1>8. LiftInv'
  BY <1>4, <1>5, <1>7 DEF LiftInv
<1>9. Meaning
  BY MeaningHolds, <1>3
<1>10. h \in Closed /\ <<n, h>> \in Joined /\ <<n, h>> \in Knowing
  BY <1>2, <1>9 DEF Meaning
<1> QED
  BY <1>4, <1>8, <1>10 DEF Ideal!vars

(* A commit that n goes by. *)
LEMMA CommitStep ==
  ASSUME LiftInv, NEW m \in Nodes, NEW n \in Nodes, HandleCommit(m, n)
  PROVE  LiftInv' /\ [Ideal!Next]_(Ideal!vars)
<1>1. PICK message \in Arriving(m, n, "commit") :
        /\ message.lift \in DOMAIN lifts[n] /\ message.secret
        /\ SetLift(n, message.lift, lifts[n][message.lift].incoming, TRUE)
        /\ IF lifts[n][message.lift].secret
           THEN network' = Probing!Taken(m, n)
           ELSE Send(m, n, OtherParty(n, m, message.lift), Commit(message.lift, TRUE))
        /\ UNCHANGED tracing
  BY DEF HandleCommit, Accepts
<1> DEFINE h == message.lift
           f == OtherParty(n, m, h)
           incoming == lifts[n][h].incoming
<1>2. network[m][n] # <<>> /\ h \in Hashes /\ network[m][n][1] = Commit(h, message.secret)
  BY CommitArrives DEF LiftInv, WireOK
<1>3. message.secret = TRUE
  BY <1>1, CommitArrives DEF LiftInv, WireOK
<1>4. network[m][n][1] = Commit(h, TRUE)
  BY <1>2, <1>3
<1>5. Member(n, h) /\ SetLift(n, h, incoming, TRUE) /\ UNCHANGED <<known, offer, found>>
  BY <1>1 DEF Member, tracing
<1>6. /\ lifts[n][h].secret => network' = [network EXCEPT ![m][n] = Tail(@)]
      /\ ~lifts[n][h].secret => Send(m, n, f, Commit(h, TRUE))
  BY <1>1 DEF Probing!Taken
<1> HIDE DEF h, f
<1>7. incoming \in BOOLEAN
  BY <1>2, <1>5 DEF LiftInv, TablesOK, Member, Entries
<1>8. incoming = lifts[n][h].incoming
  OBVIOUS
<1> HIDE DEF incoming
<1>9. CASE lifts[n][h].secret
  BY <1>2, <1>4, <1>5, <1>6, <1>7, <1>8, <1>9, CompleteStep
<1>10. CASE ~lifts[n][h].secret
  BY <1>2, <1>4, <1>5, <1>6, <1>7, <1>10, LearnStep
<1> QED
  BY <1>9, <1>10

(* A message that is dropped. *)
LEMMA DropStep ==
  ASSUME LiftInv, NEW m \in Nodes, NEW n \in Nodes, DropLoopMessage(m, n)
  PROVE  LiftInv' /\ UNCHANGED Ideal!vars
<1>1. /\ network[m][n] # <<>> /\ network' = [network EXCEPT ![m][n] = Tail(@)]
      /\ UNCHANGED <<known, offer, found, lifts>>
  BY DEF DropLoopMessage, Arriving, Probing!Taken, tracing
<1>2. Below
  BY <1>1, KeepsTaken DEF Below, LiftInv, WireOK
<1> QED
  BY <1>1, <1>2, ElsewhereStep

(* The engines below go their way. *)
LEMMA EnginesBelowStep ==
  ASSUME LiftInv, NEW m \in Nodes, NEW n \in Nodes, Meet(m, n) \/ HandleTraces(m, n)
  PROVE  LiftInv' /\ UNCHANGED Ideal!vars
<1>1. lifts' = lifts /\ WireOK
  BY DEF Meet, HandleTraces, LiftInv
<1>2. CASE Meet(m, n)
  <2>1. Tracing!Probing!Meet(m, n) /\ found' = found
    BY <1>2 DEF Meet, Tracing!Meet
  <2> QED
    BY <1>1, <2>1, MeetBelow, ElsewhereStep
<1>3. CASE HandleTraces(m, n)
  <2>1. CASE Tracing!HandleProbes(m, n)
    <3>1. found' = found
      BY <2>1 DEF Tracing!HandleProbes
    <3> QED
      BY <1>1, <2>1, <3>1, ProbesBelow, ElsewhereStep
  <2>2. CASE (\E p \in Introductions : Tracing!HandleProbeLoopback(m, n, p)) \/ Tracing!PassTrace(m, n)
    <3>1. found' = found
      BY <2>2 DEF Tracing!HandleProbeLoopback, Tracing!PassTrace, Tracing!IgnoreTrace,
        Tracing!ForwardTrace, Tracing!BounceTrace
    <3> QED
      BY <1>1, <2>2, <3>1, TracesBelow, ElsewhereStep
  <2> QED
    BY <1>3, <2>1, <2>2 DEF HandleTraces, Tracing!HandleOwn
<1> QED
  BY <1>2, <1>3

(* Every step of the loops engines is one of the abstract lift, or none. *)
LEMMA LiftStep ==
  ASSUME LiftInv, [Next]_vars
  PROVE  LiftInv' /\ [Ideal!Next]_(Ideal!vars)
<1>1. CASE UNCHANGED vars
  <2>1. UNCHANGED <<network, known, offer, found, lifts>>
    BY <1>1 DEF vars, tracing
  <2>2. Below
    BY <2>1, KeepsSame DEF Below, LiftInv, WireOK
  <2> QED
    BY <2>1, <2>2, ElsewhereStep
<1>2. ASSUME NEW m \in Nodes, NEW n \in Nodes, Meet(m, n) \/ Handle(m, n)
      PROVE  LiftInv' /\ [Ideal!Next]_(Ideal!vars)
  BY <1>2, EnginesBelowStep, FoundStep, ForwardStep, DecideStep, CommitStep, DropStep DEF Handle
<1> QED
  BY <1>1, <1>2 DEF Next

-----------------------------------------------------------------------------
(***************************************************************************)
(* The theorems.                                                           *)
(***************************************************************************)

(* The loops engines behave as Lift allows, whatever loops the traces find, and how often:
   nobody joins a lift that is closed, and nobody but the initiator learns the secret
   before. *)
THEOREM ImplementsLiftSteps == Spec => Ideal!Spec
BY LiftInit, LiftStep, PTL DEF Spec, Ideal!Spec

(* Whoever has the secret of a lift started it, or the proposal has come home: what
   DecideOnLift commits at a node that a proposal comes to again carries no secret. *)
THEOREM SecretCorrect == Spec => []Ideal!SecretFromHome
<1>1. LiftInv => Ideal!SecretFromHome
  <2> SUFFICES ASSUME LiftInv
               PROVE  Ideal!SecretFromHome
    OBVIOUS
  <2>1. Meaning
    BY MeaningHolds DEF LiftInv
  <2>2. \A member \in Knowing : member[1] = member[2].initiator \/ member[2] \in Closed
    BY <2>1 DEF Meaning, LiftInv, MembersStarted
  <2>3. \A h \in Closed : <<h.initiator, h>> \in Knowing
    BY <2>1, HashFacts DEF Meaning, LiftInv, MembersStarted
  <2> QED
    BY <2>2, <2>3 DEF Ideal!SecretFromHome
<1> QED
  BY LiftInit, LiftStep, <1>1, PTL DEF Spec

(* Nobody joins a lift whose proposal has come home, so that the nodes that handle its
   commit are all that will ever have been promised anything. *)
THEOREM CircleStaysInLoops == Spec => Ideal!CircleStays
<1>1. ASSUME LiftInv, Ideal!Next
      PROVE  Joined \subseteq Joined' /\ \A member \in Joined' \ Joined : member[2] \notin Closed
  <2>1. ASSUME NEW member \in Joined \ Knowing, Ideal!Learn(member[1], member[2])
        PROVE  Joined' = Joined
    BY <2>1 DEF Ideal!Learn
  <2>2. ASSUME NEW member \in Joined, Ideal!Close(member[2])
        PROVE  Joined' = Joined
    BY <2>2 DEF Ideal!Close
  <2>3. ASSUME NEW member \in Joined, NEW n \in Nodes, Ideal!Join(n, member[2])
        PROVE  Joined' = Joined \cup {<<n, member[2]>>} /\ member[2] \notin Closed
    BY <2>3 DEF Ideal!Join
  <2>4. ASSUME NEW h \in Hashes, Ideal!Start(h)
        PROVE  Joined' = Joined \cup {<<h.initiator, h>>} /\ h \notin Closed
    <3>1. Meaning
      BY <1>1, MeaningHolds DEF LiftInv
    <3>2. h \in Closed => <<h.initiator, h>> \in Joined
      BY <3>1, HashFacts DEF Meaning
    <3> QED
      BY <2>4, <3>2, HashFacts DEF Ideal!Start
  <2> QED
    BY <1>1, <2>1, <2>2, <2>3, <2>4 DEF Ideal!Next, Ideal!SomeoneLearns
<1> QED
  BY LiftInit, LiftStep, <1>1, PTL DEF Spec, Ideal!CircleStays

-----------------------------------------------------------------------------
(***************************************************************************)
(* The tables.                                                             *)
(***************************************************************************)
CompletedOK ==
  /\ DOMAIN completed = Nodes
  /\ \A n \in Nodes : completed[n] \subseteq DOMAIN lifts[n]

(* A lift is never forgotten. *)
LEMMA LiftsGrow ==
  ASSUME TablesOK, NEW n \in Nodes, NEW h, NEW incoming, NEW secret, SetLift(n, h, incoming, secret)
  PROVE  /\ \A k \in Nodes : DOMAIN lifts[k] \subseteq DOMAIN lifts'[k]
         /\ h \in DOMAIN lifts'[n]
<1> DEFINE table == [g \in DOMAIN lifts[n] \cup {h} |->
                       IF g = h THEN [incoming |-> incoming, secret |-> secret] ELSE lifts[n][g]]
<1>1. lifts' = [lifts EXCEPT ![n] = table]
  BY DEF SetLift
<1>2. DOMAIN table = DOMAIN lifts[n] \cup {h}
  OBVIOUS
<1> HIDE DEF table
<1> QED
  BY <1>1, <1>2 DEF TablesOK

LEMMA CompletedStep ==
  ASSUME LiftInv, CompletedOK, [Next]_vars
  PROVE  CompletedOK'
<1>1. TablesOK
  BY DEF LiftInv
<1>2. ASSUME UNCHANGED <<lifts, completed>>
      PROVE  CompletedOK'
  BY <1>2 DEF CompletedOK
<1>3. ASSUME NEW n \in Nodes, NEW h, NEW incoming, NEW secret, SetLift(n, h, incoming, secret),
             UNCHANGED completed
      PROVE  CompletedOK'
  BY <1>1, <1>3, LiftsGrow DEF CompletedOK
<1>4. ASSUME NEW m \in Nodes, NEW n \in Nodes, HandleCommit(m, n)
      PROVE  CompletedOK'
  <2>1. PICK message \in Arriving(m, n, "commit") :
          /\ SetLift(n, message.lift, lifts[n][message.lift].incoming, TRUE)
          /\ completed' = [completed EXCEPT ![n] = @ \cup {message.lift}] \/ UNCHANGED completed
    BY <1>4 DEF HandleCommit
  <2>2. /\ \A k \in Nodes : DOMAIN lifts[k] \subseteq DOMAIN lifts'[k]
        /\ message.lift \in DOMAIN lifts'[n]
    BY <1>1, <2>1, LiftsGrow
  <2> QED
    BY <2>1, <2>2 DEF CompletedOK
<1>5. ASSUME NEW m \in Nodes, NEW n \in Nodes, Handle(m, n)
      PROVE  CompletedOK'
  <2>1. CASE HandleTraces(m, n) \/ DropLoopMessage(m, n)
    BY <1>2, <2>1 DEF HandleTraces, DropLoopMessage
  <2>2. CASE HandleLoopFound(m, n)
    BY <1>3, <2>2 DEF HandleLoopFound
  <2>3. CASE ForwardPropose(m, n) \/ DecideOnLift(m, n)
    BY <1>3, <2>3 DEF ForwardPropose, DecideOnLift
  <2> QED
    BY <1>4, <1>5, <2>1, <2>2, <2>3 DEF Handle
<1> QED
  BY <1>2, <1>5 DEF Next, Meet, vars

(* The tables of lifts have the right types, and a node reports only lifts that it has
   in its table. *)
THEOREM LiftTypeCorrect == Spec => []TypeOK
<1>1. Init => CompletedOK
  BY DEF Init, CompletedOK
<1>2. ASSUME LiftInv, CompletedOK
      PROVE  TypeOK
  <2>1. ASSUME NEW n \in Nodes
        PROVE  Range(lifts[n]) \subseteq [incoming : BOOLEAN, secret : BOOLEAN]
    BY <1>2 DEF LiftInv, TablesOK, Range, Entries
  <2> QED
    BY <1>2, <2>1 DEF LiftInv, TablesOK, CompletedOK, TypeOK
<1> QED
  BY <1>1, <1>2, LiftInit, LiftStep, CompletedStep, PTL DEF Spec

-----------------------------------------------------------------------------
(***************************************************************************)
(* The messages of the engines.                                            *)
(***************************************************************************)
Networks == NetworksOf(Nodes, Wire)

(* What the probes engine sees of a network. *)
Shown(net) == Filtered(net, {"trace", "propose", "commit"})

(* The messages it does not see. *)
Upper == Tracing!TraceMessages \cup Proposals \cup Commits

(* They are told apart by their types. *)
LEMMA UpperFacts ==
  /\ \A message \in Upper : message.type \in {"trace", "propose", "commit"}
  /\ \A message \in Tracing!Probing!Messages : message.type \notin {"trace", "propose", "commit"}
  /\ Wire = Tracing!Probing!Messages \cup Upper
<1>1. \A message \in Tracing!TraceMessages : message.type = "trace"
  BY DEF Tracing!TraceMessages, Tracing!TraceMessage
<1>2. \A message \in Proposals \cup Commits : message.type \in {"propose", "commit"}
  BY LiftFacts DEF Proposals, Commits
<1>3. \A message \in Tracing!Probing!Messages : message.type \notin {"trace", "propose", "commit"}
  BY DEF Tracing!Probing!Messages, Tracing!Probing!MeetMessage, Tracing!Probing!HaveProbes,
    Tracing!Probing!OkayToSendProbes, Tracing!Probing!ProbeMessage
<1> QED
  BY <1>1, <1>2, <1>3 DEF Upper, Wire, Plain

(* The messages of the probes engine are the same for all. *)
LEMMA SameMessages ==
  /\ Underneath!MeetMessage = Tracing!Probing!MeetMessage
  /\ Underneath!HaveProbes = Tracing!Probing!HaveProbes
  /\ Underneath!OkayToSendProbes = Tracing!Probing!OkayToSendProbes
  /\ \A p : Underneath!ProbeMessage(p) = Tracing!Probing!ProbeMessage(p)
  /\ \A S : Underneath!Burst(S) = Tracing!Probing!Burst(S)
<1>1. /\ Underneath!MeetMessage = Tracing!Probing!MeetMessage
      /\ Underneath!HaveProbes = Tracing!Probing!HaveProbes
      /\ Underneath!OkayToSendProbes = Tracing!Probing!OkayToSendProbes
      /\ \A p : Underneath!ProbeMessage(p) = Tracing!Probing!ProbeMessage(p)
  BY DEF Underneath!MeetMessage, Underneath!HaveProbes, Underneath!OkayToSendProbes,
    Underneath!ProbeMessage, Tracing!Probing!MeetMessage, Tracing!Probing!HaveProbes,
    Tracing!Probing!OkayToSendProbes, Tracing!Probing!ProbeMessage
<1>2. \A S : Underneath!Cardinality(S) = Tracing!Probing!Cardinality(S)
  BY DEF Underneath!Cardinality, Tracing!Probing!Cardinality
<1>3. ASSUME NEW S
      PROVE  Underneath!AnOrder(S) = Tracing!Probing!AnOrder(S)
  BY <1>2 DEF Underneath!AnOrder, Tracing!Probing!AnOrder, Underneath!Orders,
    Tracing!Probing!Orders, Underneath!Injection, Tracing!Probing!Injection,
    Underneath!IsInjective, Tracing!Probing!IsInjective
<1>4. ASSUME NEW S
      PROVE  Underneath!Burst(S) = Tracing!Probing!Burst(S)
  BY <1>1, <1>2, <1>3 DEF Underneath!Burst, Tracing!Probing!Burst
<1> QED
  BY <1>1, <1>4

-----------------------------------------------------------------------------
(***************************************************************************)
(* Taking and sending.                                                     *)
(***************************************************************************)

(* A message of the engines on top is taken. *)
LEMMA ShownUpper ==
  ASSUME network \in Networks, NEW m \in Nodes, NEW n \in Nodes,
         network[m][n] # <<>>, Head(network[m][n]) \in Upper
  PROVE  /\ Tracing!Probing!Taken(m, n) \in Networks
         /\ Shown(Tracing!Probing!Taken(m, n)) = Shown(network)
<1>1. Tracing!Probing!Taken(m, n) = FirstTaken(network, m, n)
  BY DEF Tracing!Probing!Taken, FirstTaken
<1> DEFINE types == {"trace", "propose", "commit"}
<1>2. network \in NetworksOf(Nodes, Wire) /\ Head(network[m][n]).type \in types
  BY UpperFacts DEF Networks
<1>3. /\ FirstTaken(network, m, n) \in NetworksOf(Nodes, Wire)
      /\ Filtered(FirstTaken(network, m, n), types) = Filtered(network, types)
  <2> HIDE DEF types
  <2> QED
    BY <1>2, FilteredTaken
<1> QED
  BY <1>1, <1>3 DEF Networks, Shown

(* A message of the probes engine is. *)
LEMMA ShownArrives ==
  ASSUME network \in Networks, NEW m \in Nodes, NEW n \in Nodes,
         NEW message \in Tracing!Probing!Messages, Tracing!Probing!Arrives(m, n, message)
  PROVE  /\ Underneath!Arrives(m, n, message)
         /\ Tracing!Probing!Taken(m, n) \in Networks
         /\ Shown(Tracing!Probing!Taken(m, n)) = Underneath!Taken(m, n)
<1>1. network[m][n] # <<>> /\ Head(network[m][n]) = message
  BY DEF Tracing!Probing!Arrives
<1>2. Head(network[m][n]).type \notin {"trace", "propose", "commit"}
  BY <1>1, UpperFacts
<1>3. /\ FirstTaken(network, m, n) \in Networks
      /\ Shown(network)[m][n] # <<>> /\ Head(Shown(network)[m][n]) = message
      /\ Shown(FirstTaken(network, m, n)) = FirstTaken(Shown(network), m, n)
  BY <1>1, <1>2, FilteredTaken DEF Networks, Shown
<1>4. Underneath!Arrives(m, n, message)
  BY <1>3 DEF Underneath!Arrives, Shown
<1>5. /\ Tracing!Probing!Taken(m, n) = FirstTaken(network, m, n)
      /\ Underneath!Taken(m, n) = FirstTaken(Shown(network), m, n)
  BY DEF Tracing!Probing!Taken, Underneath!Taken, FirstTaken, Shown
<1> QED
  BY <1>3, <1>4, <1>5

(* The probes engine sends. *)
LEMMA ShownSending ==
  ASSUME NEW net \in Networks, NEW n \in Nodes,
         NEW more \in [Nodes -> Seq(Tracing!Probing!Messages)]
  PROVE  /\ MoreSent(Nodes, net, n, more) \in Networks
         /\ Shown(MoreSent(Nodes, net, n, more)) = MoreSent(Nodes, Shown(net), n, more)
<1> DEFINE types == {"trace", "propose", "commit"}
<1>1. \A f \in Nodes : more[f] \in Seq(Tracing!Probing!Messages)
  OBVIOUS
<1>2. \A f \in Nodes : Without(more[f], types) = more[f]
  BY <1>1, UpperFacts, WithoutNone
<1>3. more \in SendingsOf(Nodes, Wire)
  BY UpperFacts DEF SendingsOf
<1>4. net \in NetworksOf(Nodes, Wire)
  BY DEF Networks
<1>5. /\ MoreSent(Nodes, net, n, more) \in NetworksOf(Nodes, Wire)
      /\ Filtered(MoreSent(Nodes, net, n, more), types) = MoreSent(Nodes, Filtered(net, types), n, more)
  <2> HIDE DEF types
  <2> QED
    BY <1>2, <1>3, <1>4, FilteredSent
<1> QED
  BY <1>5 DEF Networks, Shown

(* The same for one receiver. *)
LEMMA ShownSent ==
  ASSUME NEW net \in Networks, NEW n \in Nodes, NEW f \in Nodes,
         NEW messages \in Seq(Tracing!Probing!Messages)
  PROVE  /\ Tracing!Probing!Sent(net, n, f, messages) \in Networks
         /\ Shown(Tracing!Probing!Sent(net, n, f, messages)) = Underneath!Sent(Shown(net), n, f, messages)
<1> DEFINE more == [g \in Nodes |-> IF g = f THEN messages ELSE <<>>]
<1>1. more \in [Nodes -> Seq(Tracing!Probing!Messages)]
  OBVIOUS
<1>2. /\ MoreSent(Nodes, net, n, more) \in Networks
      /\ Shown(MoreSent(Nodes, net, n, more)) = MoreSent(Nodes, Shown(net), n, more)
  <2> HIDE DEF more
  <2> QED
    BY <1>1, ShownSending
<1>3. ASSUME NEW any \in Networks
      PROVE  MoreSent(Nodes, any, n, more) = [any EXCEPT ![n][f] = @ \o messages]
  <2>1. any[n] \in [Nodes -> Seq(Wire)]
    BY DEF Networks, NetworksOf
  <2>2. \A g \in Nodes : any[n][g] \o <<>> = any[n][g]
    BY <2>1
  <2>3. [g \in Nodes |-> any[n][g] \o more[g]] = [any[n] EXCEPT ![f] = @ \o messages]
    BY <2>1, <2>2
  <2> QED
    BY <2>3 DEF Networks, NetworksOf, MoreSent
<1>4. Shown(net) \in Networks
  BY FilteredKept DEF Networks, NetworksOf, Shown
<1> QED
  BY <1>2, <1>3, <1>4 DEF Tracing!Probing!Sent, Underneath!Sent

(* An engine on top sends. *)
LEMMA ShownBroadcast ==
  ASSUME NEW net \in Networks, NEW n \in Nodes, NEW messages,
         \A f \in DOMAIN messages \cap Nodes : messages[f] \in Upper
  PROVE  /\ Tracing!Broadcast(net, n, messages) \in Networks
         /\ Shown(Tracing!Broadcast(net, n, messages)) = Shown(net)
<1> DEFINE types == {"trace", "propose", "commit"}
           more == [f \in Nodes |-> IF f \in DOMAIN messages THEN <<messages[f]>> ELSE <<>>]
           none == [f \in Nodes |-> <<>>]
<1>1. more \in [Nodes -> Seq(Upper)] /\ more \in SendingsOf(Nodes, Wire)
  <2>1. \A f \in Nodes : f \in DOMAIN messages => messages[f] \in Upper /\ messages[f] \in Wire
    BY UpperFacts
  <2>2. \A f \in Nodes : (IF f \in DOMAIN messages THEN <<messages[f]>> ELSE <<>>) \in Seq(Upper)
    BY <2>1
  <2>3. \A f \in Nodes : (IF f \in DOMAIN messages THEN <<messages[f]>> ELSE <<>>) \in Seq(Wire)
    BY <2>1
  <2> QED
    BY <2>2, <2>3 DEF SendingsOf
<1>2. \A f \in Nodes : Without(more[f], types) = none[f]
  <2>1. \A f \in Nodes : more[f] \in Seq(Upper)
    BY <1>1
  <2> HIDE DEF more
  <2>2. \A f \in Nodes : Without(more[f], types) = <<>>
    BY <2>1, UpperFacts, WithoutAll
  <2> QED
    BY <2>2
<1>3. net \in NetworksOf(Nodes, Wire)
  BY DEF Networks
<1>4. Filtered(net, types) \in Networks
  BY <1>3, FilteredKept DEF Networks, NetworksOf
<1>5. /\ MoreSent(Nodes, net, n, more) \in NetworksOf(Nodes, Wire)
      /\ Filtered(MoreSent(Nodes, net, n, more), types) = MoreSent(Nodes, Filtered(net, types), n, none)
  <2> HIDE DEF types, more, none
  <2> QED
    BY <1>1, <1>2, <1>3, FilteredSent
<1>6. MoreSent(Nodes, Filtered(net, types), n, none) = Filtered(net, types)
  <2> SUFFICES ASSUME NEW any \in Networks
               PROVE  MoreSent(Nodes, any, n, none) = any
    BY <1>4
  <2>1. any[n] \in [Nodes -> Seq(Wire)]
    BY DEF Networks, NetworksOf
  <2>2. \A f \in Nodes : any[n][f] \o <<>> = any[n][f]
    BY <2>1
  <2>3. [f \in Nodes |-> any[n][f] \o none[f]] = any[n]
    BY <2>1, <2>2
  <2> QED
    BY <2>3 DEF Networks, NetworksOf, MoreSent
<1>7. Tracing!Broadcast(net, n, messages) = MoreSent(Nodes, net, n, more)
  <2>1. \A f \in Nodes : (IF f \in DOMAIN messages THEN Append(net[n][f], messages[f]) ELSE net[n][f])
                          = net[n][f] \o more[f]
    <3> SUFFICES ASSUME NEW f \in Nodes
                 PROVE  (IF f \in DOMAIN messages THEN Append(net[n][f], messages[f]) ELSE net[n][f])
                          = net[n][f] \o more[f]
      OBVIOUS
    <3>1. net[n][f] \in Seq(Wire)
      BY <1>3 DEF NetworksOf
    <3>2. CASE f \in DOMAIN messages
      <4>1. messages[f] \in Wire
        BY <3>2, UpperFacts
      <4> QED
        BY <3>1, <3>2, <4>1
    <3>3. CASE f \notin DOMAIN messages
      BY <3>1, <3>3
    <3> QED
      BY <3>2, <3>3
  <2>2. [f \in Nodes |-> IF f \in DOMAIN messages THEN Append(net[n][f], messages[f]) ELSE net[n][f]]
          = [f \in Nodes |-> net[n][f] \o more[f]]
    BY <2>1
  <2> QED
    BY <2>2 DEF Tracing!Broadcast, MoreSent
<1> QED
  BY <1>5, <1>6, <1>7 DEF Networks, Shown

(* The probes engine queues probes. *)
LEMMA ShownQueueing ==
  ASSUME NEW n \in Nodes, NEW status, NEW net \in Networks,
         NEW queued \in [Nodes -> SUBSET Introductions],
         offer \in [Nodes -> [Nodes -> SUBSET Introductions]],
         Tracing!Probing!QueueProbes(n, status, queued, net)
  PROVE  Underneath!QueueProbes(n, status, queued, Shown(net))
<1> DEFINE more == [f \in Nodes |-> Tracing!Probing!Queued(n, status, queued, f)]
<1>1. \A f \in Nodes :
        /\ Underneath!Flushed(n, status, queued, f) = Tracing!Probing!Flushed(n, status, queued, f)
        /\ Underneath!Raises(status, queued, f) = Tracing!Probing!Raises(status, queued, f)
  BY DEF Underneath!Flushed, Tracing!Probing!Flushed, Underneath!Virgin, Tracing!Probing!Virgin,
    Underneath!Raises, Tracing!Probing!Raises
<1>2. ASSUME NEW f \in Nodes
      PROVE  /\ Tracing!Probing!Queued(n, status, queued, f) \in Seq(Tracing!Probing!Messages)
             /\ Underneath!Queued(n, status, queued, f) = Tracing!Probing!Queued(n, status, queued, f)
  <2> DEFINE S == Tracing!Probing!Flushed(n, status, queued, f)
  <2>1. S \in SUBSET Introductions
    BY DEF Tracing!Probing!Flushed, Tracing!Probing!Virgin
  <2>2. Tracing!Probing!Burst(S) \in Seq(Tracing!Probing!Messages)
    BY <2>1, BurstPlain
  <2>3. Tracing!Probing!HaveProbes \in Tracing!Probing!Messages
    BY DEF Tracing!Probing!Messages
  <2> HIDE DEF S
  <2>4. (IF Tracing!Probing!Raises(status, queued, f) THEN <<Tracing!Probing!HaveProbes>> ELSE <<>>)
          \in Seq(Tracing!Probing!Messages)
    BY <2>3
  <2>5. Tracing!Probing!Queued(n, status, queued, f) \in Seq(Tracing!Probing!Messages)
    BY <2>2, <2>4 DEF Tracing!Probing!Queued, S
  <2>6. Underneath!Queued(n, status, queued, f) = Tracing!Probing!Queued(n, status, queued, f)
    BY <1>1, SameMessages DEF Underneath!Queued, Tracing!Probing!Queued
  <2> QED
    BY <2>5, <2>6
<1>3. more \in [Nodes -> Seq(Tracing!Probing!Messages)]
  BY <1>2
<1>4. network' = MoreSent(Nodes, net, n, more)
  BY DEF Tracing!Probing!QueueProbes, MoreSent
<1>5. Shown(network') = MoreSent(Nodes, Shown(net), n, more)
  <2> HIDE DEF more
  <2> QED
    BY <1>3, <1>4, ShownSending
<1>6. Shown(network') = [Shown(net) EXCEPT ![n] =
                          [f \in Nodes |-> @[f] \o Underneath!Queued(n, status, queued, f)]]
  BY <1>2, <1>5 DEF MoreSent
<1>7. /\ hand' = [hand EXCEPT ![n] =
           [f \in Nodes |-> IF Underneath!Raises(status, queued, f) THEN "waiting" ELSE status[f]]]
      /\ offer' = [offer EXCEPT ![n] = [f \in Nodes |-> @[f] \cup queued[f]]]
      /\ to' = [to EXCEPT ![n] = [p \in Underneath!Probes |->
           @[p] \cup {f \in Nodes : p \in Underneath!Flushed(n, status, queued, f)}]]
  BY <1>1 DEF Tracing!Probing!QueueProbes, Tracing!Probing!Probes, Underneath!Probes
<1> QED
  BY <1>6, <1>7 DEF Underneath!QueueProbes, Shown

-----------------------------------------------------------------------------
(***************************************************************************)
(* The steps of the probes engine are such steps without the rest.         *)
(***************************************************************************)
(* What they are. *)
LEMMA SignalsBottom ==
  /\ Tracing!Probing!MeetMessage \in Tracing!Probing!Messages
  /\ Tracing!Probing!HaveProbes \in Tracing!Probing!Messages
  /\ Tracing!Probing!OkayToSendProbes \in Tracing!Probing!Messages
  /\ \A p \in Introductions : Tracing!Probing!ProbeMessage(p) \in Tracing!Probing!Messages
  /\ <<Tracing!Probing!MeetMessage>> \in Seq(Tracing!Probing!Messages)
  /\ <<Tracing!Probing!OkayToSendProbes>> \in Seq(Tracing!Probing!Messages)
<1>1. /\ Tracing!Probing!MeetMessage \in Tracing!Probing!Messages
      /\ Tracing!Probing!HaveProbes \in Tracing!Probing!Messages
      /\ Tracing!Probing!OkayToSendProbes \in Tracing!Probing!Messages
      /\ \A p \in Introductions : Tracing!Probing!ProbeMessage(p) \in Tracing!Probing!Messages
  BY DEF Tracing!Probing!Messages, Tracing!Probing!Probes
<1> QED
  BY <1>1

(* Two nodes meet. *)
LEMMA ShownMeet ==
  ASSUME NEW a \in Nodes, NEW b \in Nodes, WireOK, Tracing!Probing!Meet(a, b)
  PROVE  Underneath!Meet(a, b)
<1> DEFINE queued == [f \in Nodes |-> IF f = b THEN known[a] \cup {<<a, b>>}
                        ELSE IF f \in Tracing!Probing!Friends(a) THEN {<<a, b>>} ELSE {}]
           met == Tracing!Probing!Sent(network, a, b, <<Tracing!Probing!MeetMessage>>)
           status == [hand[a] EXCEPT ![b] = "talking"]
<1>1. <<a, b>> \in Introductions /\ known[a] \in SUBSET Introductions
  BY DEF Tracing!Probing!Meet, WireOK
<1>2. queued \in [Nodes -> SUBSET Introductions]
  BY <1>1
<1>3. network \in Networks
  BY DEF WireOK, Networks, NetworksOf
<1>4. /\ met \in Networks
      /\ Shown(met) = Underneath!Sent(Shown(network), a, b, <<Underneath!MeetMessage>>)
  BY <1>3, ShownSent, SignalsBottom, SameMessages
<1>5. /\ Tracing!Probing!QueueProbes(a, status, queued, met)
      /\ hand[a][b] = "none"
      /\ known' = [known EXCEPT ![a] = @ \cup {<<a, b>>}]
      /\ UNCHANGED <<from, loopbacks>>
  BY DEF Tracing!Probing!Meet
<1>6. Underneath!QueueProbes(a, status, queued, Shown(met))
  <2> HIDE DEF queued, met, status
  <2> QED
    BY <1>2, <1>4, <1>5, ShownQueueing DEF WireOK
<1>7. Underneath!Friends(a) = Tracing!Probing!Friends(a)
  BY DEF Underneath!Friends, Tracing!Probing!Friends
<1> QED
  BY <1>1, <1>4, <1>5, <1>6, <1>7 DEF Underneath!Meet, Shown

(* A node hears of a friend. *)
LEMMA ShownHandleMeet ==
  ASSUME NEW m \in Nodes, NEW n \in Nodes, WireOK, Tracing!Probing!HandleMeet(m, n)
  PROVE  Underneath!HandleMeet(m, n)
<1> DEFINE queued == [f \in Nodes |-> IF f = m THEN known[n] ELSE {}]
           rest == Tracing!Probing!Taken(m, n)
           status == [hand[n] EXCEPT ![m] = "listening"]
<1>1. queued \in [Nodes -> SUBSET Introductions]
  BY DEF WireOK
<1>2. network \in Networks
  BY DEF WireOK, Networks, NetworksOf
<1>3. /\ Tracing!Probing!Arrives(m, n, Tracing!Probing!MeetMessage)
      /\ Tracing!Probing!QueueProbes(n, status, queued, rest)
      /\ UNCHANGED <<known, from, loopbacks>>
  BY DEF Tracing!Probing!HandleMeet
<1>4. /\ Underneath!Arrives(m, n, Underneath!MeetMessage)
      /\ rest \in Networks /\ Shown(rest) = Underneath!Taken(m, n)
  BY <1>2, <1>3, ShownArrives, SignalsBottom, SameMessages
<1>5. Underneath!QueueProbes(n, status, queued, Shown(rest))
  <2> HIDE DEF queued, rest, status
  <2> QED
    BY <1>1, <1>3, <1>4, ShownQueueing DEF WireOK
<1> QED
  BY <1>3, <1>4, <1>5 DEF Underneath!HandleMeet

(* A probe is new to a node. *)
LEMMA ShownFlood ==
  ASSUME NEW m \in Nodes, NEW n \in Nodes, NEW p \in Introductions, WireOK,
         Tracing!Probing!FloodNewProbe(m, n, p)
  PROVE  Underneath!FloodNewProbe(m, n, p)
<1> DEFINE queued == [f \in Nodes |-> IF f \in Tracing!Probing!Friends(n) \ {m} THEN {p} ELSE {}]
           rest == Tracing!Probing!Taken(m, n)
<1>1. queued \in [Nodes -> SUBSET Introductions]
  OBVIOUS
<1>2. network \in Networks
  BY DEF WireOK, Networks, NetworksOf
<1>3. /\ Tracing!Probing!Arrives(m, n, Tracing!Probing!ProbeMessage(p))
      /\ p \notin known[n]
      /\ known' = [known EXCEPT ![n] = @ \cup {p}]
      /\ from' = [from EXCEPT ![n][p] = @ \cup {m}]
      /\ Tracing!Probing!QueueProbes(n, hand[n], queued, rest)
      /\ UNCHANGED loopbacks
  BY DEF Tracing!Probing!FloodNewProbe
<1>4. /\ Underneath!Arrives(m, n, Underneath!ProbeMessage(p))
      /\ rest \in Networks /\ Shown(rest) = Underneath!Taken(m, n)
  BY <1>2, <1>3, ShownArrives, SignalsBottom, SameMessages
<1>5. Underneath!QueueProbes(n, hand[n], queued, Shown(rest))
  <2> HIDE DEF queued, rest
  <2> QED
    BY <1>1, <1>3, <1>4, ShownQueueing DEF WireOK
<1>6. Underneath!Friends(n) = Tracing!Probing!Friends(n)
  BY DEF Underneath!Friends, Tracing!Probing!Friends
<1> QED
  BY <1>3, <1>4, <1>5, <1>6 DEF Underneath!FloodNewProbe

(* It is not, and has crossed the link before. *)
LEMMA ShownIgnore ==
  ASSUME NEW m \in Nodes, NEW n \in Nodes, NEW p \in Introductions, WireOK,
         Tracing!Probing!IgnoreProbe(m, n, p)
  PROVE  Underneath!IgnoreProbe(m, n, p)
<1>1. network \in Networks
  BY DEF WireOK, Networks, NetworksOf
<1>2. /\ Tracing!Probing!Arrives(m, n, Tracing!Probing!ProbeMessage(p))
      /\ p \in known[n]
      /\ Tracing!Probing!Virgin(n, m, {p}) = {}
      /\ network' = Tracing!Probing!Taken(m, n)
      /\ UNCHANGED <<hand, known, from, to, offer, loopbacks>>
  BY DEF Tracing!Probing!IgnoreProbe
<1>3. /\ Underneath!Arrives(m, n, Underneath!ProbeMessage(p))
      /\ Shown(network') = Underneath!Taken(m, n)
  BY <1>1, <1>2, ShownArrives, SignalsBottom, SameMessages
<1>4. Underneath!Virgin(n, m, {p}) = {}
  BY <1>2 DEF Underneath!Virgin, Tracing!Probing!Virgin
<1> QED
  BY <1>2, <1>3, <1>4 DEF Underneath!IgnoreProbe, Shown

(* A friend asks to talk. *)
LEMMA ShownHaveProbes ==
  ASSUME NEW m \in Nodes, NEW n \in Nodes, WireOK, Tracing!Probing!HandleHaveProbes(m, n)
  PROVE  Underneath!HandleHaveProbes(m, n)
<1> DEFINE rest == Tracing!Probing!Taken(m, n)
<1>1. network \in Networks
  BY DEF WireOK, Networks, NetworksOf
<1>2. /\ Tracing!Probing!Arrives(m, n, Tracing!Probing!HaveProbes)
      /\ hand' = [hand EXCEPT ![n][m] = "listening"]
      /\ network' = Tracing!Probing!Sent(rest, n, m, <<Tracing!Probing!OkayToSendProbes>>)
      /\ UNCHANGED <<known, from, to, offer, loopbacks>>
  BY DEF Tracing!Probing!HandleHaveProbes
<1>3. /\ Underneath!Arrives(m, n, Underneath!HaveProbes)
      /\ rest \in Networks /\ Shown(rest) = Underneath!Taken(m, n)
  BY <1>1, <1>2, ShownArrives, SignalsBottom, SameMessages
<1>4. Shown(network') = Underneath!Sent(Underneath!Taken(m, n), n, m, <<Underneath!OkayToSendProbes>>)
  <2> DEFINE okay == <<Tracing!Probing!OkayToSendProbes>>
  <2>1. okay \in Seq(Tracing!Probing!Messages) /\ okay = <<Underneath!OkayToSendProbes>>
    BY SignalsBottom, SameMessages
  <2>2. network' = Tracing!Probing!Sent(rest, n, m, okay)
    BY <1>2
  <2> HIDE DEF rest, okay
  <2>3. Shown(network') = Underneath!Sent(Shown(rest), n, m, okay)
    BY <1>3, <2>1, <2>2, ShownSent
  <2> QED
    BY <1>3, <2>1, <2>3
<1> QED
  BY <1>2, <1>3, <1>4 DEF Underneath!HandleHaveProbes, Shown

(* A friend lets it talk. *)
LEMMA ShownOkay ==
  ASSUME NEW m \in Nodes, NEW n \in Nodes, WireOK, Tracing!Probing!HandleOkayToSendProbes(m, n)
  PROVE  Underneath!HandleOkayToSendProbes(m, n)
<1> DEFINE rest == Tracing!Probing!Taken(m, n)
           flushed == Tracing!Probing!Virgin(n, m, offer[n][m])
<1>1. network \in Networks
  BY DEF WireOK, Networks, NetworksOf
<1>2. /\ Tracing!Probing!Arrives(m, n, Tracing!Probing!OkayToSendProbes)
      /\ hand' = [hand EXCEPT ![n][m] = "talking"]
      /\ to' = [to EXCEPT ![n] =
           [p \in Introductions |-> IF p \in flushed THEN @[p] \cup {m} ELSE @[p]]]
      /\ network' = Tracing!Probing!Sent(rest, n, m, Tracing!Probing!Burst(flushed))
      /\ UNCHANGED <<known, from, offer, loopbacks>>
  BY DEF Tracing!Probing!HandleOkayToSendProbes, Tracing!Probing!Probes
<1>3. /\ Underneath!Arrives(m, n, Underneath!OkayToSendProbes)
      /\ rest \in Networks /\ Shown(rest) = Underneath!Taken(m, n)
  BY <1>1, <1>2, ShownArrives, SignalsBottom, SameMessages
<1>4. flushed \in SUBSET Introductions
  BY DEF Tracing!Probing!Virgin, WireOK
<1>5. flushed = Underneath!Virgin(n, m, offer[n][m])
  BY DEF Underneath!Virgin, Tracing!Probing!Virgin
<1>6. Tracing!Probing!Burst(flushed) \in Seq(Tracing!Probing!Messages)
  BY <1>4, BurstPlain
<1>7. Shown(network') = Underneath!Sent(Underneath!Taken(m, n), n, m, Underneath!Burst(flushed))
  <2> HIDE DEF rest, flushed
  <2> QED
    BY <1>2, <1>3, <1>6, ShownSent, SameMessages
<1> HIDE DEF flushed
<1> QED
  BY <1>2, <1>3, <1>5, <1>7 DEF Underneath!HandleOkayToSendProbes, Underneath!Probes, Shown

-----------------------------------------------------------------------------
(***************************************************************************)
(* The steps of the engines on top are seen as nothing, but for the probe  *)
(* that has looped back.                                                   *)
(***************************************************************************)
LEMMA ShownLoopback ==
  ASSUME NEW m \in Nodes, NEW n \in Nodes, NEW p \in Introductions, WireOK,
         Tracing!HandleProbeLoopback(m, n, p)
  PROVE  Underneath!ProbeLoopback(m, n, p)
<1> DEFINE t == <<p, n, m>>
           senders == from[n][p] \cup {m}
           messages == [f \in senders |-> Tracing!TraceMessage(t, f)]
           rest == Tracing!Probing!Taken(m, n)
<1>1. network \in Networks
  BY DEF WireOK, Networks, NetworksOf
<1>2. /\ Tracing!Probing!Arrives(m, n, Tracing!Probing!ProbeMessage(p))
      /\ p \in known[n]
      /\ Tracing!Probing!Virgin(n, m, {p}) # {}
      /\ from' = [from EXCEPT ![n][p] = @ \cup {m}]
      /\ loopbacks' = [loopbacks EXCEPT ![n] = @ \cup {<<p, m>>}]
      /\ UNCHANGED <<hand, known, to, offer>>
      /\ network' = Tracing!Broadcast(rest, n, messages)
  BY DEF Tracing!HandleProbeLoopback, Tracing!Probing!RecordLoopback
<1>3. /\ Underneath!Arrives(m, n, Underneath!ProbeMessage(p))
      /\ rest \in Networks /\ Shown(rest) = Underneath!Taken(m, n)
  BY <1>1, <1>2, ShownArrives, SignalsBottom, SameMessages
<1>4. t \in Tracing!Traces
  BY DEF Tracing!Traces
<1>5. \A f \in DOMAIN messages \cap Nodes : messages[f] \in Upper
  BY <1>4 DEF Upper, Tracing!TraceMessages
<1>6. Shown(network') = Underneath!Taken(m, n)
  <2> HIDE DEF rest, messages
  <2> QED
    BY <1>2, <1>3, <1>5, ShownBroadcast
<1>7. Underneath!Virgin(n, m, {p}) # {}
  BY <1>2 DEF Underneath!Virgin, Tracing!Probing!Virgin
<1> QED
  BY <1>2, <1>3, <1>6, <1>7 DEF Underneath!ProbeLoopback, Underneath!RecordLoopback, Shown

(* A trace goes by. *)
LEMMA ShownTrace ==
  ASSUME NEW m \in Nodes, NEW n \in Nodes, WireOK, Tracing!PassTrace(m, n)
  PROVE  UNCHANGED Underneath!vars
<1> DEFINE rest == Tracing!Probing!Taken(m, n)
<1>1. PICK message \in Tracing!Arriving(m, n) :
        /\ \/ Tracing!IgnoreTrace(m, n, message.trace, message.leg)
           \/ Tracing!ForwardTrace(m, n, message.trace, message.leg)
           \/ Tracing!BounceTrace(m, n, message.trace, message.leg)
        /\ UNCHANGED <<hand, known, from, to, offer, loopbacks>>
  BY DEF Tracing!PassTrace, Tracing!probing
<1> DEFINE same == Tracing!TraceMessage(message.trace, message.leg)
<1>2. network[m][n] # <<>> /\ message \in Tracing!TraceMessages /\ message = Head(network[m][n])
  BY DEF Tracing!Arriving
<1>3. same \in Upper
  BY <1>2 DEF Tracing!TraceMessages, Tracing!TraceMessage, Upper
<1>4. rest \in Networks /\ Shown(rest) = Shown(network)
  BY <1>2, ShownUpper DEF WireOK, Networks, NetworksOf, Upper
<1>5. ASSUME NEW hops
      PROVE  Shown(Tracing!Broadcast(rest, n, [f \in hops |-> same])) = Shown(network)
  <2> DEFINE messages == [f \in hops |-> same]
  <2>1. \A f \in DOMAIN messages \cap Nodes : messages[f] \in Upper
    BY <1>3
  <2> HIDE DEF rest, messages
  <2>2. Shown(Tracing!Broadcast(rest, n, messages)) = Shown(network)
    BY <1>4, <2>1, ShownBroadcast
  <2> QED
    BY <2>2 DEF messages
<1>6. Shown(network') = Shown(network)
  BY <1>1, <1>4, <1>5 DEF Tracing!IgnoreTrace, Tracing!ForwardTrace, Tracing!BounceTrace
<1> QED
  BY <1>1, <1>6 DEF Underneath!vars, Shown

(* The loops engine takes a message that the probes engine does not see, and sends one
   or none. *)
LEMMA ShownSend ==
  ASSUME NEW m \in Nodes, NEW n \in Nodes, WireOK,
         network[m][n] # <<>>, Head(network[m][n]) \in Upper,
         \/ network' = Probing!Taken(m, n)
         \/ \E f, w : w \in Upper /\ Send(m, n, f, w),
         UNCHANGED <<hand, known, from, to, offer, loopbacks>>
  PROVE  UNCHANGED Underneath!vars
<1> DEFINE rest == Tracing!Probing!Taken(m, n)
<1>1. rest \in Networks /\ Shown(rest) = Shown(network)
  BY ShownUpper DEF WireOK, Networks, NetworksOf
<1>2. Probing!Taken(m, n) = rest
  BY DEF Probing!Taken, Tracing!Probing!Taken
<1>3. ASSUME NEW f, NEW w, w \in Upper, Send(m, n, f, w)
      PROVE  Shown(network') = Shown(network)
  <2> DEFINE messages == [g \in {f} |-> w]
  <2>1. \A g \in DOMAIN messages \cap Nodes : messages[g] \in Upper
    BY <1>3
  <2>2. network' = Tracing!Broadcast(rest, n, messages)
    BY <1>2, <1>3 DEF Send
  <2> HIDE DEF rest, messages
  <2> QED
    BY <1>1, <2>1, <2>2, ShownBroadcast
<1>4. Shown(network') = Shown(network)
  BY <1>1, <1>2, <1>3
<1> QED
  BY <1>4 DEF Underneath!vars, Shown

(* So does whatever is about a lift. *)
LEMMA ShownLift ==
  ASSUME NEW m \in Nodes, NEW n \in Nodes, LiftInv,
         \/ HandleLoopFound(m, n) \/ ForwardPropose(m, n) \/ DecideOnLift(m, n)
         \/ HandleCommit(m, n) \/ DropLoopMessage(m, n)
  PROVE  UNCHANGED Underneath!vars
<1>1. WireOK /\ TablesOK /\ network \in [Nodes -> [Nodes -> Seq(Wire)]]
  BY DEF LiftInv, WireOK
<1>2. \A h \in Hashes : Propose(h) \in Upper
  BY DEF Upper, Proposals
<1>3. \A h \in Hashes, secret \in BOOLEAN : Commit(h, secret) \in Upper
  BY DEF Upper, Commits
<1>4. ASSUME network[m][n] # <<>>
      PROVE  Head(network[m][n]) = network[m][n][1]
  BY <1>1, <1>4
<1>5. CASE HandleLoopFound(m, n)
  <2>1. PICK message \in Tracing!Arriving(m, n) :
          /\ UNCHANGED <<hand, known, from, to, offer, loopbacks>>
          /\ Send(m, n, message.leg, Propose(NewHash(n, message.trace, message.leg, m)))
    BY <1>5 DEF HandleLoopFound, Tracing!RecordLoop, Tracing!probing
  <2>2. /\ network[m][n] # <<>> /\ Head(network[m][n]) \in Upper
        /\ message \in Tracing!TraceMessages
    BY DEF Tracing!Arriving, Upper
  <2>3. message.trace \in Tracing!Traces /\ message.leg \in Nodes
    BY <2>2 DEF Tracing!TraceMessages, Tracing!TraceMessage
  <2>4. NewHash(n, message.trace, message.leg, m) \in Hashes
    BY <1>1, <2>3, NewHashFacts
  <2> QED
    BY <1>1, <1>2, <2>1, <2>2, <2>4, ShownSend
<1>6. CASE ForwardPropose(m, n)
  <2>1. PICK message \in Arriving(m, n, "propose") :
          /\ Send(m, n, OtherParty(n, m, message.lift), Propose(message.lift))
          /\ UNCHANGED <<hand, known, from, to, offer, loopbacks>>
    BY <1>6 DEF ForwardPropose, tracing
  <2>2. network[m][n] # <<>> /\ Head(network[m][n]) \in Upper /\ message.lift \in Hashes
    BY <1>1, <1>2, <1>4, ProposalArrives
  <2> QED
    BY <1>1, <1>2, <2>1, <2>2, ShownSend
<1>7. CASE DecideOnLift(m, n)
  <2>1. PICK message \in Arriving(m, n, "propose") :
          /\ message.lift \in DOMAIN lifts[n]
          /\ Send(m, n, m, Commit(message.lift, lifts[n][message.lift].secret))
          /\ UNCHANGED <<hand, known, from, to, offer, loopbacks>>
    BY <1>7 DEF DecideOnLift, tracing
  <2>2. network[m][n] # <<>> /\ Head(network[m][n]) \in Upper /\ message.lift \in Hashes
    BY <1>1, <1>2, <1>4, ProposalArrives
  <2>3. lifts[n][message.lift].secret \in BOOLEAN
    BY <1>1, <2>1 DEF TablesOK, Entries
  <2> QED
    BY <1>1, <1>3, <2>1, <2>2, <2>3, ShownSend
<1>8. CASE HandleCommit(m, n)
  <2>1. PICK message \in Arriving(m, n, "commit") :
          /\ \/ network' = Probing!Taken(m, n)
             \/ Send(m, n, OtherParty(n, m, message.lift), Commit(message.lift, TRUE))
          /\ UNCHANGED <<hand, known, from, to, offer, loopbacks>>
    BY <1>8 DEF HandleCommit, tracing
  <2>2. network[m][n] # <<>> /\ Head(network[m][n]) \in Upper /\ message.lift \in Hashes
    BY <1>1, <1>3, <1>4, CommitArrives
  <2> QED
    BY <1>1, <1>3, <2>1, <2>2, ShownSend
<1>9. CASE DropLoopMessage(m, n)
  <2>1. network' = Probing!Taken(m, n) /\ UNCHANGED <<hand, known, from, to, offer, loopbacks>>
    BY <1>9 DEF DropLoopMessage, tracing
  <2>2. network[m][n] # <<>> /\ Head(network[m][n]) \in Upper
    <3>1. CASE \E message \in Arriving(m, n, "propose") : OtherParties(n, m, message.lift) = {}
      BY <1>1, <1>2, <1>4, <3>1, ProposalArrives
    <3>2. CASE \E message \in Arriving(m, n, "commit") : ~Accepts(n, m, message)
      <4>1. PICK message \in Arriving(m, n, "commit") : TRUE
        BY <3>2
      <4>2. /\ network[m][n] # <<>> /\ message.lift \in Hashes /\ message.secret \in BOOLEAN
            /\ network[m][n][1] = Commit(message.lift, message.secret)
        BY <1>1, CommitArrives
      <4> QED
        BY <1>3, <1>4, <4>2
    <3> QED
      BY <1>9, <3>1, <3>2 DEF DropLoopMessage
  <2> QED
    BY <1>1, <2>1, <2>2, ShownSend
<1> QED
  BY <1>5, <1>6, <1>7, <1>8, <1>9

(* At the beginning there is nothing to hide. *)
LEMMA ShownInit == Init => Underneath!Init
<1> SUFFICES ASSUME Init
             PROVE  Underneath!Init
  OBVIOUS
<1>1. network = [m \in Nodes |-> [n \in Nodes |-> <<>>]]
  BY DEF Init, Tracing!Init, Tracing!Probing!Init
<1>2. Shown(network) = [m \in Nodes |-> [n \in Nodes |-> <<>>]]
  BY <1>1, WithoutEmpty DEF Shown, Filtered
<1> QED
  BY <1>2 DEF Init, Tracing!Init, Tracing!Probing!Init, Underneath!Init, Shown,
    Tracing!Probing!Probes, Underneath!Probes

(* Each branch of the handler of probes is an instance of it. *)
LEMMA ProbeHandled ==
  ASSUME NEW m, NEW n, NEW p,
         \/ Underneath!FloodNewProbe(m, n, p)
         \/ Underneath!ProbeLoopback(m, n, p)
         \/ Underneath!IgnoreProbe(m, n, p)
  PROVE  Underneath!HandleProbe(m, n, p)
BY DEF Underneath!HandleProbe, Underneath!FloodNewProbe, Underneath!ProbeLoopback,
  Underneath!RecordLoopback, Underneath!IgnoreProbe

(* Every step is one of the probes engine, or none. *)
LEMMA ShownStep ==
  ASSUME LiftInv, [Next]_vars
  PROVE  [Underneath!Next]_(Underneath!vars)
<1>1. WireOK
  BY DEF LiftInv
<1>2. CASE UNCHANGED vars
  BY <1>2 DEF vars, tracing, Underneath!vars
<1>3. ASSUME NEW a \in Nodes, NEW b \in Nodes, Meet(a, b)
      PROVE  Underneath!Next
  BY <1>1, <1>3, ShownMeet DEF Meet, Tracing!Meet, Underneath!Next
<1>4. ASSUME NEW m \in Nodes, NEW n \in Nodes, Handle(m, n)
      PROVE  Underneath!Handle(m, n) \/ UNCHANGED Underneath!vars
  <2>1. CASE HandleTraces(m, n)
    <3>1. CASE Tracing!HandleProbes(m, n)
      BY <1>1, <3>1, ShownHandleMeet, ShownFlood, ShownIgnore, ShownHaveProbes, ShownOkay,
         ProbeHandled
         DEF Tracing!HandleProbes, Underneath!Handle, Underneath!Probes
    <3>2. CASE \E p \in Introductions : Tracing!HandleProbeLoopback(m, n, p)
      BY <1>1, <3>2, ShownLoopback, ProbeHandled DEF Underneath!Handle, Underneath!Probes
    <3>3. CASE Tracing!PassTrace(m, n)
      BY <1>1, <3>3, ShownTrace
    <3> QED
      BY <2>1, <3>1, <3>2, <3>3 DEF HandleTraces, Tracing!HandleOwn
  <2> QED
    BY <1>4, <2>1, ShownLift DEF Handle
<1> QED
  BY <1>2, <1>3, <1>4 DEF Next, Underneath!Next

(* The probes engine behaves underneath the others as it does by itself: what they send
   over its links, and when they do, does not change what it sends and records. *)
THEOREM KeepsProbesEngineSteps == Spec => Underneath!Spec
BY LiftInit, LiftStep, ShownInit, ShownStep, PTL DEF Spec, Underneath!Spec

-----------------------------------------------------------------------------
(***************************************************************************)
(* So what is proved of the probes engine holds underneath.                *)
(***************************************************************************)
Alone == INSTANCE ProbesEngineProofs WITH
  network <- Filtered(network, {"trace", "propose", "commit"})

(* Alone is Underneath, with the theorems. *)
LEMMA AloneStep == Underneath!Next <=> Alone!Next
BY DEF Underneath!MeetMessage, Alone!MeetMessage,
  Underneath!HaveProbes, Alone!HaveProbes,
  Underneath!OkayToSendProbes, Alone!OkayToSendProbes,
  Underneath!ProbeMessage, Alone!ProbeMessage,
  Underneath!Arrives, Alone!Arrives,
  Underneath!Taken, Alone!Taken,
  Underneath!Sent, Alone!Sent,
  Underneath!Virgin, Alone!Virgin,
  Underneath!Burst, Alone!Burst,
  Underneath!Flushed, Alone!Flushed,
  Underneath!Raises, Alone!Raises,
  Underneath!Queued, Alone!Queued,
  Underneath!QueueProbes, Alone!QueueProbes,
  Underneath!Friends, Alone!Friends,
  Underneath!Probes, Alone!Probes,
  Underneath!AnOrder, Alone!AnOrder,
  Underneath!Orders, Alone!Orders,
  Underneath!Injection, Alone!Injection,
  Underneath!IsInjective, Alone!IsInjective,
  Underneath!Cardinality, Alone!Cardinality,
  Underneath!Meet, Alone!Meet,
  Underneath!HandleMeet, Alone!HandleMeet,
  Underneath!FloodNewProbe, Alone!FloodNewProbe,
  Underneath!RecordLoopback, Alone!RecordLoopback,
  Underneath!ProbeLoopback, Alone!ProbeLoopback,
  Underneath!IgnoreProbe, Alone!IgnoreProbe,
  Underneath!HandleProbe, Alone!HandleProbe,
  Underneath!HandleHaveProbes, Alone!HandleHaveProbes,
  Underneath!HandleOkayToSendProbes, Alone!HandleOkayToSendProbes,
  Underneath!Handle, Alone!Handle,
  Underneath!Next, Alone!Next

LEMMA AloneSpec == Underneath!Spec <=> Alone!Spec
BY AloneStep, PTL DEF Underneath!Spec, Alone!Spec, Underneath!Init, Alone!Init,
  Underneath!vars, Alone!vars, Underneath!Probes, Alone!Probes

(* No node is told to meet itself: the least that the probes engines ask for. *)
NobodyMeetsItself == \A n \in Nodes : <<n, n>> \notin Introductions

LEMMA AloneAssumptions ==
  ASSUME NobodyMeetsItself
  PROVE  Alone!NodesAssumption /\ Alone!IntroductionsAssumption
BY NetworkAssumption DEF NobodyMeetsItself, Alone!NodesAssumption, Alone!IntroductionsAssumption,
  Alone!IsFiniteSet, IsFiniteSet

(* With loops engines on top, too, no node hears of a stranger before 'meet'; once no message
   of the probes engines is under way every probe has crossed every link of the part of the
   network that it reached; and a probe loops back only where there is a loop: in any network,
   and whatever the traces and lifts do in between. *)
THEOREM FloodUnderneath ==
  ASSUME NobodyMeetsItself
  PROVE  Spec => [](Alone!TypeOK /\ Alone!NoStranger /\ Alone!KnownInv
                    /\ Alone!FloodedWhenQuiet /\ Alone!LoopbackMeansLoop)
<1>1. Alone!NodesAssumption /\ Alone!IntroductionsAssumption
  BY AloneAssumptions
<1>2. Alone!Spec => []Alone!TypeOK
  BY <1>1, Alone!TypeCorrect, PTL
<1>3. Alone!Spec => []Alone!NoStranger
  BY <1>1, Alone!NoStrangerCorrect, PTL
<1>4. Alone!Spec => []Alone!KnownInv
  BY <1>1, Alone!KnownCorrect, PTL
<1>5. Alone!Spec => []Alone!FloodedWhenQuiet
  BY <1>1, Alone!FloodedWhenQuietCorrect, PTL
<1>6. Alone!Spec => []Alone!LoopbackMeansLoop
  BY <1>1, Alone!LoopbackMeansLoopCorrect, PTL
<1> QED
  BY <1>2, <1>3, <1>4, <1>5, <1>6, AloneSpec, KeepsProbesEngineSteps, PTL

(* Between nodes that are introduced from one side a link has one talking end, no two copies
   of a probe pass each other in mid-air, no probe is forgotten, and one loops back once for
   every independent loop. *)
THEOREM TalkingUnderneath ==
  ASSUME Underneath!OneSided
  PROVE  Spec => [](Alone!LinkInv /\ Alone!OneTalker /\ Alone!NoMidAirCrossing /\ Alone!SentInv
                    /\ Alone!NothingForgotten /\ Alone!EveryLoopFound)
<1>1. Alone!OneSided /\ Alone!NodesAssumption /\ Alone!IntroductionsAssumption
  <2>1. Alone!OneSided
    BY DEF Underneath!OneSided, Alone!OneSided
  <2>2. NobodyMeetsItself
    BY DEF Underneath!OneSided, NobodyMeetsItself
  <2> QED
    BY <2>1, <2>2, AloneAssumptions
<1>2. Alone!Spec => []Alone!LinkInv
  BY <1>1, Alone!LinksCorrect, PTL
<1>3. Alone!Spec => []Alone!OneTalker
  BY <1>1, Alone!OneTalkerCorrect, PTL
<1>4. Alone!Spec => []Alone!NoMidAirCrossing
  BY <1>1, Alone!NoMidAirCrossingCorrect, PTL
<1>5. Alone!Spec => []Alone!SentInv
  BY <1>1, Alone!SentCorrect, PTL
<1>6. Alone!Spec => []Alone!NothingForgotten
  BY <1>1, Alone!NothingForgottenCorrect, PTL
<1>7. Alone!Spec => []Alone!EveryLoopFound
  BY <1>1, Alone!EveryLoopFoundCorrect, PTL
<1> QED
  BY <1>2, <1>3, <1>4, <1>5, <1>6, <1>7, AloneSpec, KeepsProbesEngineSteps, PTL

=============================================================================
