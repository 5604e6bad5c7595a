----------------------- MODULE BatchedNetworkSimulator -----------------------
(***************************************************************************)
(* The batched network simulator (src/src/simulator/networksimulator.ts):  *)
(* one queue for the messages of all nodes.  A flush delivers the messages *)
(* that are there when it begins, and the commands flush until a flush     *)
(* finds nothing (src/src/cmd.ts: after), so messages are delivered in the *)
(* order in which they were sent, whoever sent them.                       *)
(***************************************************************************)
EXTENDS Integers, Sequences, FiniteSets, SequencesExt

CONSTANTS Nodes, Introductions, Numbered, Trusts, Accounts, Balances   \* as in Saiga

ASSUME NetworkAssumption == IsFiniteSet(Nodes) /\ Introductions \subseteq Nodes \X Nodes

ASSUME AmountsAssumption ==
  /\ Trusts \subseteq Int
  /\ Balances \subseteq Int
  /\ Accounts \subseteq Nodes \X Nodes
  /\ \A n \in Nodes : <<n, n>> \notin Accounts

VARIABLES
  hand, known, from, to, offer, loopbacks, network, created, forwarded, found, lifts,
  completed, trust, balance,   \* of the nodes
  nodes,   \* the names in the table of nodes
  heard,   \* the nodes to whose 'message' events the simulator listens
  batch    \* the <<sender, receiver>> of the packages, oldest first: the messages are
           \* those of network[sender][receiver], in the same order

Node == INSTANCE Saiga

node == <<hand, known, from, to, offer, loopbacks, network, created, forwarded, found, lifts,
          completed, trust, balance>>

vars == <<node, nodes, heard, batch>>

(* The number of messages that n sends to f in this step. *)
Emitted(n, f) == Len(network'[n][f]) - Len(network[n][f])

(* The packages for the friends in order, those for one friend next to each
   other. *)
Packages(n, order, count) ==
  FlattenSeq([i \in DOMAIN order |-> [j \in 1..count[order[i]] |-> <<n, order[i]>>]])

(* Mutants of Push: one package for each friend, or packages of nodes to which nobody
   listens. *)
PushOnce(n, rest) ==
  LET count == [f \in Nodes |-> IF n \in heard' /\ Emitted(n, f) > 0 THEN 1 ELSE 0]
  IN \E order \in SetToSeqs({f \in Nodes : count[f] > 0}) :
       batch' = rest \o Packages(n, order, count)

PushUnheard(n, rest) ==
  LET count == [f \in Nodes |-> Emitted(n, f)]
  IN \E order \in SetToSeqs({f \in Nodes : count[f] > 0}) :
       batch' = rest \o Packages(n, order, count)

(* The packages of this step are pushed behind those of rest.  A handler sends to
   one friend after the other, in an order that depends on their names.  What a node
   emits to which nobody listens stays in network, and nobody receives it. *)
Push(n, rest) ==
  LET count == [f \in Nodes |-> IF n \in heard' THEN Emitted(n, f) ELSE 0]
  IN \E order \in SetToSeqs({f \in Nodes : count[f] > 0}) :
       batch' = rest \o Packages(n, order, count)

(* ensureNode: the simulator listens to the nodes that it adds itself. *)
Ensure(names) ==
  /\ nodes' = nodes \cup names
  /\ heard' = heard \cup (names \ nodes)

-----------------------------------------------------------------------------
Init ==
  /\ Node!Init
  /\ nodes = {}
  /\ heard = {}
  /\ batch = <<>>

(* setTrust of a stranger: 'meet' and the old probes go to b before the new probe
   goes to anyone. *)
Meet(a, b, amount) ==
  /\ Ensure({a, b})
  /\ Node!Meet(a, b, amount)
  /\ LET last == [f \in Nodes |-> IF a \in heard' /\ Emitted(a, f) > 0 THEN 1 ELSE 0]
         first == IF a \in heard' THEN Emitted(a, b) - 1 ELSE 0
     IN \E order \in SetToSeqs({f \in Nodes : last[f] > 0}) :
          batch' = batch \o [j \in 1..first |-> <<a, b>>] \o Packages(a, order, last)

(* setTrust of a friend. *)
ChangeTrust(a, b, amount) ==
  /\ Ensure({a, b})
  /\ Node!ChangeTrust(a, b, amount)
  /\ UNCHANGED batch

SetBalance(a, b, amount) ==
  /\ Ensure({a, b})
  /\ Node!SetBalance(a, b, amount)
  /\ Push(a, batch)

(* One step of a flush.  The receivers are all in the table: who sends to a node
   has been told of it, or has heard from it. *)
Receive ==
  /\ batch # <<>>
  /\ Node!Handle(Head(batch)[1], Head(batch)[2])
  /\ UNCHANGED <<nodes, heard>>
  /\ Push(Head(batch)[2], Tail(batch))

Next ==
  \/ \E a, b \in Nodes :
       \/ \E amount \in Trusts : Meet(a, b, amount) \/ ChangeTrust(a, b, amount)
       \/ \E amount \in Balances : SetBalance(a, b, amount)
  \/ Receive

Spec == Init /\ [][Next]_vars

(* The flush loop goes on while a flush delivers anything. *)
FairSpec == Spec /\ WF_vars(Receive)

-----------------------------------------------------------------------------
(***************************************************************************)
(* What the engines promise, in this order of delivery.                    *)
(***************************************************************************)

(* The packages are exactly the messages under way from the nodes that are heard. *)
TypeOK ==
  /\ Node!TypeOK
  /\ heard \subseteq nodes /\ nodes \subseteq Nodes
  /\ batch \in Seq(heard \X nodes)
  /\ \A m \in heard, n \in Nodes :
       Len(SelectSeq(batch, LAMBDA package : package = <<m, n>>)) = Len(network[m][n])

(* Every probe loops back once for every independent loop it reached. *)
EveryLoopFound == Node!Loops!Probing!EveryLoopFound

(* Every loopback's trace comes home. *)
EveryTraceComesHome == Node!Loops!Tracing!EveryTraceComesHome

(* A trace comes home only along a loop: false where the branches of a leg pass a
   node that has forgotten it. *)
LoopFoundMeansLoop == Node!Loops!Tracing!LoopFoundMeansLoop

(* A lift that was started is completed at its initiator. *)
EveryLiftCompletes == Node!Loops!EveryLiftCompletes

(* The ends of a trustline agree on what it stands at, once they have heard of it. *)
EndsAgree == Node!EndsAgree

(* The balances of the ends of a trustline have opposite signs, as the README says: false. *)
OppositeSigns == Node!OppositeSigns

(* Once a command has ended, every probe has crossed every link that it could reach. *)
FloodedWhenQuiet == Node!Loops!Probing!FloodedWhenQuiet

(* A node sends and offers only probes that it knows, and only to friends. *)
KnownInv == Node!Loops!Probing!KnownInv

(* No end of a link waits for ever for its turn to talk. *)
EveryHandIsTaken == Node!Loops!Probing!EveryHandIsTaken

(* Every command ends: some flush finds nothing. *)
EventuallyQuiet == []<>(batch = <<>>)

=============================================================================
