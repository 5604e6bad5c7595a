-------------------- MODULE BatchedNetworkSimulatorProofs --------------------
(***************************************************************************)
(* What is proved of the nodes holds in the simulator, which delivers      *)
(* their messages in one order: its steps are steps of Saiga.              *)
(***************************************************************************)
EXTENDS BatchedNetworkSimulator, MessageFilterProofs, FiniteSetTheorems

(***************************************************************************)
(* The packages go from node to node.                                      *)
(***************************************************************************)
Links == Nodes \X Nodes

(* The same package several times. *)
LEMMA CopiesType ==
  ASSUME NEW l \in Links, NEW k \in Int
  PROVE  [j \in 1..k |-> l] \in Seq(Links)
<1>1. CASE k \in Nat
  BY <1>1
<1>2. CASE k < 0
  <2>1. 1..k = 1..0
    BY <1>2
  <2>2. [j \in 1..0 |-> l] \in Seq(Links)
    OBVIOUS
  <2> QED BY <2>1, <2>2
<1> QED BY <1>1, <1>2

(* What n pushes. *)
LEMMA PackagesType ==
  ASSUME NEW n \in Nodes, NEW S \in SUBSET Nodes, NEW order \in SetToSeqs(S),
         NEW count \in [Nodes -> Int]
  PROVE  Packages(n, order, count) \in Seq(Links)
<1>1. IsFiniteSet(Nodes)
  BY NetworkAssumption
<1>2. Cardinality(S) \in Nat
  BY <1>1, FS_Subset, FS_CardinalityType
<1>3. order \in [1..Cardinality(S) -> Nodes]
  BY DEF SetToSeqs
<1>4. ASSUME NEW i \in DOMAIN order
      PROVE  [j \in 1..count[order[i]] |-> <<n, order[i]>>] \in Seq(Links)
  <2>1. order[i] \in Nodes /\ count[order[i]] \in Int /\ <<n, order[i]>> \in Links
    BY <1>3 DEF Links
  <2> QED BY <2>1, CopiesType
<1> DEFINE all == [i \in DOMAIN order |-> [j \in 1..count[order[i]] |-> <<n, order[i]>>]]
<1>5. all \in [1..Cardinality(S) -> Seq(Links)]
  BY <1>3, <1>4
<1>6. all \in Seq(Seq(Links))
  <2> HIDE DEF all
  <2> QED BY <1>2, <1>5
<1> HIDE DEF all
<1>7. FlattenSeq(all) \in Seq(Links)
  BY <1>6, FlattenType DEF FlattenSeq, Flattened
<1> QED BY <1>7 DEF Packages, all

(* On every link of w are messages of M. *)
Wired(w, M) == w \in [Nodes -> [Nodes -> Seq(M)]]

(* How many messages are sent in a step is a number. *)
LEMMA EmittedType ==
  ASSUME NEW M, Wired(network, M), Wired(network', M), NEW n \in Nodes, NEW f \in Nodes
  PROVE  Emitted(n, f) \in Int
<1>1. network[n][f] \in Seq(M) /\ network'[n][f] \in Seq(M)
  BY DEF Wired
<1>2. Len(network[n][f]) \in Int /\ Len(network'[n][f]) \in Int
  BY <1>1
<1> QED
  BY <1>2 DEF Emitted

(* What is pushed are packages. *)
LEMMA PushType ==
  ASSUME NEW M, Wired(network, M), Wired(network', M),
         NEW n \in Nodes, NEW rest \in Seq(Links), Push(n, rest)
  PROVE  batch' \in Seq(Links)
<1> DEFINE count == [f \in Nodes |-> IF n \in heard' THEN Emitted(n, f) ELSE 0]
           S == {f \in Nodes : count[f] > 0}
<1>1. count \in [Nodes -> Int]
  BY EmittedType
<1>2. PICK order \in SetToSeqs(S) : batch' = rest \o Packages(n, order, count)
  BY DEF Push
<1>3. S \in SUBSET Nodes
  OBVIOUS
<1> HIDE DEF count, S
<1>4. Packages(n, order, count) \in Seq(Links)
  BY <1>1, <1>3, PackagesType
<1> QED
  BY <1>2, <1>4

-----------------------------------------------------------------------------
(* Node with the theorems about it. *)
Proved == INSTANCE SaigaProofs

LEMMA NetworkSmall == Proved!Small
BY NetworkAssumption DEF Proved!Small, Proved!IsFiniteSet, IsFiniteSet

-----------------------------------------------------------------------------
(***************************************************************************)
(* The nodes of the simulator are those nodes.                             *)
(***************************************************************************)
(* The probes engines take the same steps. *)
LEMMA SameProbing ==
  /\ \A a, b : Node!Loops!Tracing!Probing!Meet(a, b) <=> Proved!Loops!Tracing!Probing!Meet(a, b)
  /\ \A m, n :
       Node!Loops!Tracing!Probing!HandleMeet(m, n)
         <=> Proved!Loops!Tracing!Probing!HandleMeet(m, n)
  /\ \A m, n, p :
       Node!Loops!Tracing!Probing!FloodNewProbe(m, n, p)
         <=> Proved!Loops!Tracing!Probing!FloodNewProbe(m, n, p)
  /\ \A m, n, p :
       Node!Loops!Tracing!Probing!IgnoreProbe(m, n, p)
         <=> Proved!Loops!Tracing!Probing!IgnoreProbe(m, n, p)
  /\ \A m, n :
       Node!Loops!Tracing!Probing!HandleHaveProbes(m, n)
         <=> Proved!Loops!Tracing!Probing!HandleHaveProbes(m, n)
  /\ \A m, n :
       Node!Loops!Tracing!Probing!HandleOkayToSendProbes(m, n)
         <=> Proved!Loops!Tracing!Probing!HandleOkayToSendProbes(m, n)
  /\ \A m, n, p :
       Node!Loops!Tracing!Probing!RecordLoopback(m, n, p)
         <=> Proved!Loops!Tracing!Probing!RecordLoopback(m, n, p)
<1> USE DEF Node!Loops!Tracing!Probing!Raises, Proved!Loops!Tracing!Probing!Raises,
    Node!Loops!Tracing!Probing!Probes, Proved!Loops!Tracing!Probing!Probes,
    Node!Loops!Tracing!Probing!Virgin, Proved!Loops!Tracing!Probing!Virgin,
    Node!Loops!Tracing!Probing!Flushed, Proved!Loops!Tracing!Probing!Flushed,
    Node!Loops!Tracing!Probing!IsInjective, Proved!Loops!Tracing!Probing!IsInjective,
    Node!Loops!Tracing!Probing!Cardinality, Proved!Loops!Tracing!Probing!Cardinality,
    Node!Loops!Tracing!Probing!Injection, Proved!Loops!Tracing!Probing!Injection,
    Node!Loops!Tracing!Probing!Orders, Proved!Loops!Tracing!Probing!Orders,
    Node!Loops!Tracing!Probing!AnOrder, Proved!Loops!Tracing!Probing!AnOrder,
    Node!Loops!Tracing!Probing!ProbeMessage, Proved!Loops!Tracing!Probing!ProbeMessage,
    Node!Loops!Tracing!Probing!Burst, Proved!Loops!Tracing!Probing!Burst,
    Node!Loops!Tracing!Probing!HaveProbes, Proved!Loops!Tracing!Probing!HaveProbes,
    Node!Loops!Tracing!Probing!Queued, Proved!Loops!Tracing!Probing!Queued,
    Node!Loops!Tracing!Probing!QueueProbes, Proved!Loops!Tracing!Probing!QueueProbes,
    Node!Loops!Tracing!Probing!Friends, Proved!Loops!Tracing!Probing!Friends,
    Node!Loops!Tracing!Probing!Sent, Proved!Loops!Tracing!Probing!Sent,
    Node!Loops!Tracing!Probing!MeetMessage, Proved!Loops!Tracing!Probing!MeetMessage,
    Node!Loops!Tracing!Probing!Meet, Proved!Loops!Tracing!Probing!Meet,
    Node!Loops!Tracing!Probing!Arrives, Proved!Loops!Tracing!Probing!Arrives,
    Node!Loops!Tracing!Probing!Taken, Proved!Loops!Tracing!Probing!Taken,
    Node!Loops!Tracing!Probing!HandleMeet, Proved!Loops!Tracing!Probing!HandleMeet,
    Node!Loops!Tracing!Probing!FloodNewProbe, Proved!Loops!Tracing!Probing!FloodNewProbe,
    Node!Loops!Tracing!Probing!IgnoreProbe, Proved!Loops!Tracing!Probing!IgnoreProbe,
    Node!Loops!Tracing!Probing!OkayToSendProbes,
    Proved!Loops!Tracing!Probing!OkayToSendProbes,
    Node!Loops!Tracing!Probing!HandleHaveProbes,
    Proved!Loops!Tracing!Probing!HandleHaveProbes,
    Node!Loops!Tracing!Probing!HandleOkayToSendProbes,
    Proved!Loops!Tracing!Probing!HandleOkayToSendProbes,
    Node!Loops!Tracing!Probing!RecordLoopback, Proved!Loops!Tracing!Probing!RecordLoopback
<1>1. ASSUME NEW a, NEW b
      PROVE  Node!Loops!Tracing!Probing!Meet(a, b)
            <=> Proved!Loops!Tracing!Probing!Meet(a, b)
  OBVIOUS
<1>2. ASSUME NEW m, NEW n
      PROVE  Node!Loops!Tracing!Probing!HandleMeet(m, n)
            <=> Proved!Loops!Tracing!Probing!HandleMeet(m, n)
  OBVIOUS
<1>3. ASSUME NEW m, NEW n, NEW p
      PROVE  Node!Loops!Tracing!Probing!FloodNewProbe(m, n, p)
            <=> Proved!Loops!Tracing!Probing!FloodNewProbe(m, n, p)
  OBVIOUS
<1>4. ASSUME NEW m, NEW n, NEW p
      PROVE  Node!Loops!Tracing!Probing!IgnoreProbe(m, n, p)
            <=> Proved!Loops!Tracing!Probing!IgnoreProbe(m, n, p)
  OBVIOUS
<1>5. ASSUME NEW m, NEW n
      PROVE  Node!Loops!Tracing!Probing!HandleHaveProbes(m, n)
            <=> Proved!Loops!Tracing!Probing!HandleHaveProbes(m, n)
  OBVIOUS
<1>6. ASSUME NEW m, NEW n
      PROVE  Node!Loops!Tracing!Probing!HandleOkayToSendProbes(m, n)
            <=> Proved!Loops!Tracing!Probing!HandleOkayToSendProbes(m, n)
  OBVIOUS
<1>7. ASSUME NEW m, NEW n, NEW p
      PROVE  Node!Loops!Tracing!Probing!RecordLoopback(m, n, p)
            <=> Proved!Loops!Tracing!Probing!RecordLoopback(m, n, p)
  OBVIOUS
<1> HIDE DEF Node!Loops!Tracing!Probing!Meet, Proved!Loops!Tracing!Probing!Meet,
    Node!Loops!Tracing!Probing!HandleMeet, Proved!Loops!Tracing!Probing!HandleMeet,
    Node!Loops!Tracing!Probing!FloodNewProbe, Proved!Loops!Tracing!Probing!FloodNewProbe,
    Node!Loops!Tracing!Probing!IgnoreProbe, Proved!Loops!Tracing!Probing!IgnoreProbe,
    Node!Loops!Tracing!Probing!HandleHaveProbes,
    Proved!Loops!Tracing!Probing!HandleHaveProbes,
    Node!Loops!Tracing!Probing!HandleOkayToSendProbes,
    Proved!Loops!Tracing!Probing!HandleOkayToSendProbes,
    Node!Loops!Tracing!Probing!RecordLoopback, Proved!Loops!Tracing!Probing!RecordLoopback
<1> QED
  BY <1>1, <1>2, <1>3, <1>4, <1>5, <1>6, <1>7

(* So do the traces engines. *)
LEMMA SameTracing ==
  /\ \A m, n, p :
       Node!Loops!Tracing!HandleProbeLoopback(m, n, p)
         <=> Proved!Loops!Tracing!HandleProbeLoopback(m, n, p)
  /\ \A m, n, t, leg :
       Node!Loops!Tracing!IgnoreTrace(m, n, t, leg)
         <=> Proved!Loops!Tracing!IgnoreTrace(m, n, t, leg)
  /\ \A m, n, t, leg :
       Node!Loops!Tracing!ForwardTrace(m, n, t, leg)
         <=> Proved!Loops!Tracing!ForwardTrace(m, n, t, leg)
  /\ \A m, n, t, leg :
       Node!Loops!Tracing!BounceTrace(m, n, t, leg)
         <=> Proved!Loops!Tracing!BounceTrace(m, n, t, leg)
  /\ \A m, n : Node!Loops!Tracing!Arriving(m, n) = Proved!Loops!Tracing!Arriving(m, n)
<1> USE DEF Node!Loops!Tracing!Broadcast, Proved!Loops!Tracing!Broadcast,
    Node!Loops!Tracing!Probing!Taken, Proved!Loops!Tracing!Probing!Taken,
    Node!Loops!Tracing!TraceMessage, Proved!Loops!Tracing!TraceMessage,
    Node!Loops!Tracing!HandleProbeLoopback, Proved!Loops!Tracing!HandleProbeLoopback,
    Node!Loops!Tracing!Values, Proved!Loops!Tracing!Values, Node!Loops!Tracing!Log,
    Proved!Loops!Tracing!Log, Node!Loops!Tracing!IgnoreTrace,
    Proved!Loops!Tracing!IgnoreTrace, Node!Loops!Tracing!Opposite,
    Proved!Loops!Tracing!Opposite, Node!Loops!Tracing!LoggedAll,
    Proved!Loops!Tracing!LoggedAll, Node!Loops!Tracing!Keys, Proved!Loops!Tracing!Keys,
    Node!Loops!Tracing!Logged, Proved!Loops!Tracing!Logged, Node!Loops!Tracing!NewTrace,
    Proved!Loops!Tracing!NewTrace, Node!Loops!Tracing!Range, Proved!Loops!Tracing!Range,
    Node!Loops!Tracing!OtherLegs, Proved!Loops!Tracing!OtherLegs, Node!Loops!Tracing!Bounces,
    Proved!Loops!Tracing!Bounces, Node!Loops!Tracing!Probing!Cardinality,
    Proved!Loops!Tracing!Probing!Cardinality, Node!Loops!Tracing!Probing!IsInjective,
    Proved!Loops!Tracing!Probing!IsInjective, Node!Loops!Tracing!Probing!Injection,
    Proved!Loops!Tracing!Probing!Injection, Node!Loops!Tracing!Probing!Orders,
    Proved!Loops!Tracing!Probing!Orders, Node!Loops!Tracing!WriteLog,
    Proved!Loops!Tracing!WriteLog, Node!Loops!Tracing!ForwardTrace,
    Proved!Loops!Tracing!ForwardTrace, Node!Loops!Tracing!Place, Proved!Loops!Tracing!Place,
    Node!Loops!Tracing!Rank, Proved!Loops!Tracing!Rank, Node!Loops!Tracing!FirstKey,
    Proved!Loops!Tracing!FirstKey, Node!Loops!Tracing!BounceTrace,
    Proved!Loops!Tracing!BounceTrace, Node!Loops!Tracing!Traces, Proved!Loops!Tracing!Traces,
    Node!Loops!Tracing!TraceMessages, Proved!Loops!Tracing!TraceMessages,
    Node!Loops!Tracing!Arriving, Proved!Loops!Tracing!Arriving
<1>1. ASSUME NEW m, NEW n, NEW p
      PROVE  Node!Loops!Tracing!HandleProbeLoopback(m, n, p)
            <=> Proved!Loops!Tracing!HandleProbeLoopback(m, n, p)
  BY SameProbing
<1>2. ASSUME NEW m, NEW n, NEW t, NEW leg
      PROVE  Node!Loops!Tracing!IgnoreTrace(m, n, t, leg)
            <=> Proved!Loops!Tracing!IgnoreTrace(m, n, t, leg)
  OBVIOUS
<1>3. ASSUME NEW m, NEW n, NEW t, NEW leg
      PROVE  Node!Loops!Tracing!ForwardTrace(m, n, t, leg)
            <=> Proved!Loops!Tracing!ForwardTrace(m, n, t, leg)
  OBVIOUS
<1>4. ASSUME NEW m, NEW n, NEW t, NEW leg
      PROVE  Node!Loops!Tracing!BounceTrace(m, n, t, leg)
            <=> Proved!Loops!Tracing!BounceTrace(m, n, t, leg)
  OBVIOUS
<1>5. ASSUME NEW m, NEW n
      PROVE  Node!Loops!Tracing!Arriving(m, n) = Proved!Loops!Tracing!Arriving(m, n)
  OBVIOUS
<1> HIDE DEF Node!Loops!Tracing!HandleProbeLoopback, Proved!Loops!Tracing!HandleProbeLoopback,
    Node!Loops!Tracing!IgnoreTrace, Proved!Loops!Tracing!IgnoreTrace,
    Node!Loops!Tracing!ForwardTrace, Proved!Loops!Tracing!ForwardTrace,
    Node!Loops!Tracing!BounceTrace, Proved!Loops!Tracing!BounceTrace,
    Node!Loops!Tracing!Arriving, Proved!Loops!Tracing!Arriving
<1> QED
  BY <1>1, <1>2, <1>3, <1>4, <1>5

(* The loops engines. *)
LEMMA SameLoops ==
  /\ \A m, n : Node!Loops!HandleLoopFound(m, n) <=> Proved!Loops!HandleLoopFound(m, n)
  /\ \A m, n : Node!Loops!ForwardPropose(m, n) <=> Proved!Loops!ForwardPropose(m, n)
  /\ \A m, n : Node!Loops!DecideOnLift(m, n) <=> Proved!Loops!DecideOnLift(m, n)
  /\ \A m, n : Node!Loops!HandleCommit(m, n) <=> Proved!Loops!HandleCommit(m, n)
  /\ \A m, n : Node!Loops!DropLoopMessage(m, n) <=> Proved!Loops!DropLoopMessage(m, n)
<1> USE DEF Node!Loops!Tracing!TraceMessage, Proved!Loops!Tracing!TraceMessage,
    Node!Loops!Tracing!Traces, Proved!Loops!Tracing!Traces, Node!Loops!Tracing!TraceMessages,
    Proved!Loops!Tracing!TraceMessages, Node!Loops!Tracing!Arriving,
    Proved!Loops!Tracing!Arriving, Node!Loops!Cardinality, Proved!Loops!Cardinality,
    Node!Loops!Hash, Proved!Loops!Hash, Node!Loops!NewHash, Proved!Loops!NewHash,
    Node!Loops!Tracing!Probing!Arrives, Proved!Loops!Tracing!Probing!Arrives,
    Node!Loops!Tracing!probing, Proved!Loops!Tracing!probing, Node!Loops!Tracing!RecordLoop,
    Proved!Loops!Tracing!RecordLoop, Node!Loops!SetLift, Proved!Loops!SetLift,
    Node!Loops!Tracing!Broadcast, Proved!Loops!Tracing!Broadcast, Node!Loops!Probing!Taken,
    Proved!Loops!Probing!Taken, Node!Loops!Send, Proved!Loops!Send, Node!Loops!Propose,
    Proved!Loops!Propose, Node!Loops!HandleLoopFound, Proved!Loops!HandleLoopFound,
    Node!Loops!Arriving, Proved!Loops!Arriving, Node!Loops!Tracing!Log,
    Proved!Loops!Tracing!Log, Node!Loops!Tracing!Keys, Proved!Loops!Tracing!Keys,
    Node!Loops!Range, Proved!Loops!Range, Node!Loops!OtherParties, Proved!Loops!OtherParties,
    Node!Loops!Tracing!Range, Proved!Loops!Tracing!Range, Node!Loops!Tracing!Place,
    Proved!Loops!Tracing!Place, Node!Loops!Tracing!Rank, Proved!Loops!Tracing!Rank,
    Node!Loops!Tracing!FirstKey, Proved!Loops!Tracing!FirstKey, Node!Loops!OtherParty,
    Proved!Loops!OtherParty, Node!Loops!tracing, Proved!Loops!tracing,
    Node!Loops!ForwardPropose, Proved!Loops!ForwardPropose, Node!Loops!Commit,
    Proved!Loops!Commit, Node!Loops!DecideOnLift, Proved!Loops!DecideOnLift,
    Node!Loops!Accepts, Proved!Loops!Accepts, Node!Loops!HandleCommit,
    Proved!Loops!HandleCommit, Node!Loops!DropLoopMessage, Proved!Loops!DropLoopMessage
<1>1. ASSUME NEW m, NEW n
      PROVE  Node!Loops!HandleLoopFound(m, n) <=> Proved!Loops!HandleLoopFound(m, n)
  OBVIOUS
<1>2. ASSUME NEW m, NEW n
      PROVE  Node!Loops!ForwardPropose(m, n) <=> Proved!Loops!ForwardPropose(m, n)
  OBVIOUS
<1>3. ASSUME NEW m, NEW n
      PROVE  Node!Loops!DecideOnLift(m, n) <=> Proved!Loops!DecideOnLift(m, n)
  OBVIOUS
<1>4. ASSUME NEW m, NEW n
      PROVE  Node!Loops!HandleCommit(m, n) <=> Proved!Loops!HandleCommit(m, n)
  OBVIOUS
<1>5. ASSUME NEW m, NEW n
      PROVE  Node!Loops!DropLoopMessage(m, n) <=> Proved!Loops!DropLoopMessage(m, n)
  OBVIOUS
<1> HIDE DEF Node!Loops!HandleLoopFound, Proved!Loops!HandleLoopFound,
    Node!Loops!ForwardPropose, Proved!Loops!ForwardPropose, Node!Loops!DecideOnLift,
    Proved!Loops!DecideOnLift, Node!Loops!HandleCommit, Proved!Loops!HandleCommit,
    Node!Loops!DropLoopMessage, Proved!Loops!DropLoopMessage
<1> QED
  BY <1>1, <1>2, <1>3, <1>4, <1>5

(* And the friends engines. *)
LEMMA SameFriends ==
  /\ \A a, b, amount : Node!ChangeTrust(a, b, amount) <=> Proved!ChangeTrust(a, b, amount)
  /\ \A a, b, amount : Node!SetBalance(a, b, amount) <=> Proved!SetBalance(a, b, amount)
  /\ \A m, n : Node!HandleSetBalance(m, n) <=> Proved!HandleSetBalance(m, n)
<1> USE DEF Node!AreFriends, Proved!AreFriends, Node!handled, Proved!handled, Node!engines,
    Proved!engines, Node!ChangeTrust, Proved!ChangeTrust, Node!Credit, Proved!Credit,
    Node!Loops!Probing!Sent, Proved!Loops!Probing!Sent, Node!SetBalanceMessage,
    Proved!SetBalanceMessage, Node!SetBalance, Proved!SetBalance, Node!Loops!Arriving,
    Proved!Loops!Arriving, Node!Loops!Probing!Taken, Proved!Loops!Probing!Taken,
    Node!HandleSetBalance, Proved!HandleSetBalance
<1>1. ASSUME NEW a, NEW b, NEW amount
      PROVE  Node!ChangeTrust(a, b, amount) <=> Proved!ChangeTrust(a, b, amount)
  OBVIOUS
<1>2. ASSUME NEW a, NEW b, NEW amount
      PROVE  Node!SetBalance(a, b, amount) <=> Proved!SetBalance(a, b, amount)
  OBVIOUS
<1>3. ASSUME NEW m, NEW n
      PROVE  Node!HandleSetBalance(m, n) <=> Proved!HandleSetBalance(m, n)
  OBVIOUS
<1> HIDE DEF Node!ChangeTrust, Proved!ChangeTrust, Node!SetBalance, Proved!SetBalance,
    Node!HandleSetBalance, Proved!HandleSetBalance
<1> QED
  BY <1>1, <1>2, <1>3


LEMMA SameNodes ==
  /\ Node!Init <=> Proved!Init
  /\ Node!Next <=> Proved!Next
  /\ Node!vars = Proved!vars
<1>1. Node!Init <=> Proved!Init
  BY DEF Node!Init, Proved!Init, Node!Loops!Init, Proved!Loops!Init, Node!Loops!Tracing!Init,
    Proved!Loops!Tracing!Init, Node!Loops!Tracing!Probing!Init, Proved!Loops!Tracing!Probing!Init,
    Node!Loops!Tracing!Probing!Probes, Proved!Loops!Tracing!Probing!Probes
<1>2. \A a, b, amount : Node!Meet(a, b, amount) <=> Proved!Meet(a, b, amount)
  BY SameProbing DEF Node!Meet, Proved!Meet, Node!Loops!Meet, Proved!Loops!Meet,
    Node!Loops!Tracing!Meet, Proved!Loops!Tracing!Meet
<1>3. ASSUME NEW m, NEW n
      PROVE  Node!Loops!HandleTraces(m, n) <=> Proved!Loops!HandleTraces(m, n)
  <2>1. Node!Loops!Tracing!HandleProbes(m, n) <=> Proved!Loops!Tracing!HandleProbes(m, n)
    BY SameProbing DEF Node!Loops!Tracing!HandleProbes, Proved!Loops!Tracing!HandleProbes
  <2>2. Node!Loops!Tracing!PassTrace(m, n) <=> Proved!Loops!Tracing!PassTrace(m, n)
    BY SameTracing DEF Node!Loops!Tracing!PassTrace, Proved!Loops!Tracing!PassTrace,
      Node!Loops!Tracing!probing, Proved!Loops!Tracing!probing
  <2> QED
    BY <2>1, <2>2, SameTracing DEF Node!Loops!HandleTraces, Proved!Loops!HandleTraces,
      Node!Loops!Tracing!HandleOwn, Proved!Loops!Tracing!HandleOwn
<1>4. \A m, n : Node!Handle(m, n) <=> Proved!Handle(m, n)
  BY <1>3, SameLoops, SameFriends DEF Node!Handle, Proved!Handle, Node!HandleEngines,
    Proved!HandleEngines, Node!Loops!Handle, Proved!Loops!Handle
<1>5. Node!Next <=> Proved!Next
  BY <1>2, <1>4, SameFriends DEF Node!Next, Proved!Next
<1>6. Node!vars = Proved!vars
  BY DEF Node!vars, Proved!vars, Node!engines, Proved!engines, Node!handled, Proved!handled
<1> QED
  BY <1>1, <1>5, <1>6

-----------------------------------------------------------------------------
(***************************************************************************)
(* The steps of the simulator.                                             *)
(***************************************************************************)
BatchInv == Proved!NodesOK /\ batch \in Seq(Links)

(* Every step is one of the nodes, or none. *)
LEMMA SimulatorStep ==
  ASSUME BatchInv, [Next]_vars
  PROVE  BatchInv' /\ [Node!Next]_(Node!vars)
<1>1. [Node!Next]_(Node!vars)
  <2>1. CASE UNCHANGED vars
    BY <2>1 DEF vars, node, Node!vars, Node!engines, Node!handled
  <2>2. CASE Receive
    <3>1. /\ batch # <<>> /\ batch \in Seq(Links)
          /\ Node!Handle(Head(batch)[1], Head(batch)[2])
      BY <2>2 DEF Receive, BatchInv
    <3>2. Head(batch) \in Links
      BY <3>1
    <3>3. Head(batch)[1] \in Nodes /\ Head(batch)[2] \in Nodes
      BY <3>2 DEF Links
    <3> QED
      BY <3>1, <3>3 DEF Node!Next
  <2> QED
    BY <2>1, <2>2 DEF Next, Meet, ChangeTrust, SetBalance, Node!Next
<1>2. Proved!NodesOK'
  <2>1. [Proved!Next]_(Proved!vars)
    BY <1>1, SameNodes DEF Node!vars, Proved!vars, Node!engines, Node!handled, Proved!engines,
      Proved!handled
  <2> QED
    BY <2>1, NetworkSmall, Proved!SeenStep DEF BatchInv
<1>3. Wired(network, Proved!Cable) /\ Wired(network', Proved!Cable) /\ batch \in Seq(Links)
  BY <1>2 DEF BatchInv, Proved!NodesOK, Proved!Cabled, Proved!NetworksOf, Wired
<1>4. CASE UNCHANGED vars
  BY <1>1, <1>2, <1>3, <1>4 DEF BatchInv, vars
<1>5. ASSUME NEW a \in Nodes, NEW b \in Nodes, NEW amount, Meet(a, b, amount)
      PROVE  batch' \in Seq(Links)
  <2> DEFINE last == [f \in Nodes |-> IF a \in heard' /\ Emitted(a, f) > 0 THEN 1 ELSE 0]
             first == IF a \in heard' THEN Emitted(a, b) - 1 ELSE 0
             S == {f \in Nodes : last[f] > 0}
             olds == [j \in 1..first |-> <<a, b>>]
  <2>1. PICK order \in SetToSeqs(S) : batch' = batch \o olds \o Packages(a, order, last)
    BY <1>5 DEF Meet
  <2>2. last \in [Nodes -> Int] /\ S \in SUBSET Nodes
    OBVIOUS
  <2>3. first \in Int
    BY <1>3, EmittedType
  <2>4. <<a, b>> \in Links
    BY DEF Links
  <2>5. olds \in Seq(Links)
    <3> HIDE DEF first
    <3> QED
      BY <2>3, <2>4, CopiesType
  <2> HIDE DEF last, S, olds
  <2>6. Packages(a, order, last) \in Seq(Links)
    BY <2>2, PackagesType
  <2> QED
    BY <1>3, <2>1, <2>5, <2>6
<1>6. ASSUME NEW a \in Nodes, NEW b \in Nodes, NEW amount, ChangeTrust(a, b, amount)
      PROVE  batch' \in Seq(Links)
  BY <1>3, <1>6 DEF ChangeTrust
<1>7. ASSUME NEW a \in Nodes, NEW b \in Nodes, NEW amount, SetBalance(a, b, amount)
      PROVE  batch' \in Seq(Links)
  BY <1>3, <1>7, PushType DEF SetBalance
<1>8. ASSUME Receive
      PROVE  batch' \in Seq(Links)
  <2>1. batch # <<>> /\ Push(Head(batch)[2], Tail(batch))
    BY <1>8 DEF Receive
  <2>2. Head(batch) \in Links /\ Tail(batch) \in Seq(Links)
    BY <1>3, <2>1
  <2>3. Head(batch)[2] \in Nodes
    BY <2>2 DEF Links
  <2>4. PICK n \in Nodes, rest \in Seq(Links) : Push(n, rest)
    BY <2>1, <2>2, <2>3
  <2> QED
    BY <1>3, <2>4, PushType
<1> QED
  BY <1>1, <1>2, <1>4, <1>5, <1>6, <1>7, <1>8 DEF BatchInv, Next

(* The nodes of the simulator behave as Saiga says, whatever the commands and the order in
   which the batch delivers: so a property of Saiga is one of the simulator. *)
THEOREM ImplementsNodes == Spec => Node!Spec
<1>1. Init => BatchInv /\ Node!Init
  <2> SUFFICES ASSUME Init
               PROVE  BatchInv /\ Node!Init
    OBVIOUS
  <2>1. Node!Init /\ batch = <<>>
    BY DEF Init
  <2>2. Proved!NodesOK
    BY <2>1, NetworkSmall, SameNodes, Proved!SeenInit, Proved!SmallUnderneath, Proved!Underneath!LiftInit
       DEF Proved!NodesOK
  <2> QED
    BY <2>1, <2>2 DEF BatchInv
<1>2. BatchInv /\ [Next]_vars => BatchInv' /\ [Node!Next]_(Node!vars)
  BY SimulatorStep
<1> QED
  BY <1>1, <1>2, PTL DEF Spec, Node!Spec

(* The same steps, with the theorems. *)
LEMMA ImplementsProved == Spec => Proved!Spec
<1>1. [Node!Next]_(Node!vars) <=> [Proved!Next]_(Proved!vars)
  BY SameNodes DEF Node!vars, Proved!vars, Node!engines, Node!handled, Proved!engines,
    Proved!handled
<1> QED
  BY <1>1, ImplementsNodes, SameNodes, PTL DEF Node!Spec, Proved!Spec

(* In the simulator, too, once no message is under way every probe has crossed every link of
   the part of the network that it reached, and has looped back only where there is a loop. *)
THEOREM FloodOfSimulator ==
  ASSUME \A n \in Nodes : <<n, n>> \notin Introductions
  PROVE  Spec => [](Node!Loops!Probing!FloodedWhenQuiet /\ Node!Loops!Probing!LoopbackMeansLoop)
<1>1. Proved!Spec => [](/\ Proved!Loops!Probing!FloodedWhenQuiet
                        /\ Proved!Loops!Probing!LoopbackMeansLoop)
  BY NetworkSmall, Proved!FloodOfNodes, PTL
<1> USE DEF Node!Loops!Probing!Friends, Proved!Loops!Probing!Friends, Node!Loops!Probing!Virgin,
    Proved!Loops!Probing!Virgin, Node!Loops!Probing!Probes, Proved!Loops!Probing!Probes,
    Node!Loops!Probing!Quiet, Proved!Loops!Probing!Quiet
<1>2. Proved!Loops!Probing!FloodedWhenQuiet => Node!Loops!Probing!FloodedWhenQuiet
  BY DEF Node!Loops!Probing!FloodedWhenQuiet, Proved!Loops!Probing!FloodedWhenQuiet
<1>3. Proved!Loops!Probing!LoopbackMeansLoop => Node!Loops!Probing!LoopbackMeansLoop
  BY DEF Node!Loops!Probing!LoopbackMeansLoop, Proved!Loops!Probing!LoopbackMeansLoop,
    Node!Loops!Probing!LeftElsewhere, Proved!Loops!Probing!LeftElsewhere
<1> QED
  BY <1>1, <1>2, <1>3, ImplementsProved, PTL

(* Between nodes introduced from one side a link has one end that may talk, no two copies of
   a probe pass each other and none is forgotten, and every independent loop has been found
   once no message is under way. *)
THEOREM TalkingOfSimulator ==
  ASSUME Node!Loops!Probing!OneSided
  PROVE  Spec => [](/\ EveryLoopFound
                    /\ Node!Loops!Probing!OneTalker
                    /\ Node!Loops!Probing!NoMidAirCrossing
                    /\ Node!Loops!Probing!NothingForgotten)
<1>1. Proved!Spec => [](/\ Proved!Loops!Probing!OneTalker
                        /\ Proved!Loops!Probing!NoMidAirCrossing
                        /\ Proved!Loops!Probing!NothingForgotten
                        /\ Proved!Loops!Probing!EveryLoopFound)
  <2>1. Proved!Loops!Probing!OneSided
    BY DEF Node!Loops!Probing!OneSided, Proved!Loops!Probing!OneSided
  <2> QED
    BY <2>1, NetworkSmall, Proved!TalkingOfNodes, PTL
<1> USE DEF Node!Loops!Probing!Friends, Proved!Loops!Probing!Friends, Node!Loops!Probing!Virgin,
    Proved!Loops!Probing!Virgin, Node!Loops!Probing!Probes, Proved!Loops!Probing!Probes,
    Node!Loops!Probing!Quiet, Proved!Loops!Probing!Quiet
<1>2. Proved!Loops!Probing!OneTalker => Node!Loops!Probing!OneTalker
  BY DEF Node!Loops!Probing!OneTalker, Proved!Loops!Probing!OneTalker,
    Node!Loops!Probing!MayTalk, Proved!Loops!Probing!MayTalk, Node!Loops!Probing!InTransit,
    Proved!Loops!Probing!InTransit, Node!Loops!Probing!Range, Proved!Loops!Probing!Range,
    Node!Loops!Probing!OkayToSendProbes, Proved!Loops!Probing!OkayToSendProbes
<1>3. Proved!Loops!Probing!NoMidAirCrossing => Node!Loops!Probing!NoMidAirCrossing
  BY DEF Node!Loops!Probing!NoMidAirCrossing, Proved!Loops!Probing!NoMidAirCrossing
<1>4. Proved!Loops!Probing!NothingForgotten => Node!Loops!Probing!NothingForgotten
  BY DEF Node!Loops!Probing!NothingForgotten, Proved!Loops!Probing!NothingForgotten
<1>5. Proved!Loops!Probing!EveryLoopFound => EveryLoopFound
  BY DEF EveryLoopFound, Node!Loops!Probing!EveryLoopFound, Proved!Loops!Probing!EveryLoopFound,
    Node!Loops!Probing!LinksAmong, Proved!Loops!Probing!LinksAmong,
    Node!Loops!Probing!LoopbacksOf, Proved!Loops!Probing!LoopbacksOf,
    Node!Loops!Probing!Cardinality, Proved!Loops!Probing!Cardinality
<1> QED
  BY <1>1, <1>2, <1>3, <1>4, <1>5, ImplementsProved, PTL

(* One end of each trustline sets the balance, and does so when it has the other for a
   friend. *)
OneSetter == \A a, b \in Nodes : <<a, b>> \in Accounts => a # b /\ <<b, a>> \notin Accounts

SetsOfFriends ==
  \A a, b \in Nodes : \A amount \in Balances :
    Node!SetBalance(a, b, amount) => Node!AreFriends(a, b)

(* Then the ends of every trustline agree on it as soon as nothing about it is under way:
   in the order of delivery of the batch as in any other. *)
THEOREM EndsAgreeInSimulator ==
  ASSUME OneSetter, \A n \in Nodes : <<n, n>> \notin Introductions
  PROVE  Spec /\ [][SetsOfFriends]_vars => []EndsAgree
<1>1. Proved!Spec /\ [][Proved!SetsOfFriends]_(Proved!vars) => []Proved!EndsAgree
  <2>1. Proved!OneSetter
    BY DEF OneSetter, Proved!OneSetter
  <2> QED
    BY <2>1, NetworkSmall, Proved!EndsAgreeCorrect, PTL
<1>2. [SetsOfFriends]_vars => [Proved!SetsOfFriends]_(Proved!vars)
  <2>1. SetsOfFriends => Proved!SetsOfFriends
    BY SameFriends DEF SetsOfFriends, Proved!SetsOfFriends, Node!AreFriends, Proved!AreFriends
  <2>2. UNCHANGED vars => UNCHANGED Proved!vars
    BY DEF vars, node, Proved!vars, Proved!engines, Proved!handled
  <2> QED
    BY <2>1, <2>2
<1>3. Proved!EndsAgree => EndsAgree
  BY DEF EndsAgree, Node!EndsAgree, Proved!EndsAgree, Node!AreFriends, Proved!AreFriends,
    Node!Settling, Proved!Settling, Node!Range, Proved!Range
<1> QED
  BY <1>1, <1>2, <1>3, ImplementsProved, PTL

(* And the tables of the friends engines hold amounts. *)
THEOREM NodeTypesInSimulator == Spec => []Node!TypeOK
<1>1. Proved!Spec => []Proved!TypeOK
  BY NetworkSmall, Proved!NodeTypesCorrect, PTL
<1>2. Proved!TypeOK => Node!TypeOK
  BY DEF Proved!TypeOK, Node!TypeOK
<1> QED
  BY <1>1, <1>2, ImplementsProved, PTL

=============================================================================
