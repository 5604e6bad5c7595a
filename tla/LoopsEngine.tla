----------------------------- MODULE LoopsEngine -----------------------------
(***************************************************************************)
(* The loops engine of a LedgerLoops node (src/src/engine/loopsengine.ts)  *)
(* on top of its probes and traces engines, with the wiring between them   *)
(* (src/src/saiga.ts: connectLoopsEngine and handleLoopMessage).           *)
(*                                                                         *)
(* A node that has found a loop starts a lift: it sends a proposal under   *)
(* the hash of a secret along the leg that came home.  The nodes of the    *)
(* loop pass it on; when it has come home the initiator commits, and the   *)
(* secret travels back the other way.                                      *)
(***************************************************************************)
EXTENDS Naturals, Sequences, FiniteSets, Functions, MessageFilter

CONSTANTS Nodes, Introductions, Numbered   \* as in TracesEngine

ASSUME NetworkAssumption == IsFiniteSet(Nodes) /\ Introductions \subseteq Nodes \X Nodes

VARIABLES
  hand, known, from, to, offer, loopbacks, network,   \* of the probes engine
  created, forwarded, found,                          \* of the traces engine
  lifts,      \* lifts[n][h]: the lift with hash h at n: does it have an incoming
              \* amount, and does it have the secret?
  completed   \* completed[n]: the lifts that n reported as successfully completed

Tracing == INSTANCE TracesEngine
Probing == INSTANCE ProbesEngine

tracing == <<hand, known, from, to, offer, loopbacks, created, forwarded, found>>

vars == <<tracing, network, lifts, completed>>

(* Every loop that is found starts a lift under a secret of its own (genRanHex).  The
   hash goes by the initiator and by the loop: the trace, the leg that came home, which
   goes by the friend it was sent to, and the friend it came home from; and by a number,
   for a loop that is found again. *)
Hash(n, t, leg, m, k) ==
  [initiator |-> n, trace |-> t, leg |-> leg, incoming |-> m, number |-> k]

NewHash(n, t, leg, m) ==
  LET number == CHOOSE k \in 0..Cardinality(DOMAIN lifts[n]) :
                  Hash(n, t, leg, m, k) \notin DOMAIN lifts[n]
  IN Hash(n, t, leg, m, number)

(* All amounts are 1: the initiator proposes 1, and neither exchange rates nor
   profits change that. *)
Propose(h) == [type |-> "propose", lift |-> h]
Commit(h, secret) == [type |-> "commit", lift |-> h, secret |-> secret]

Arriving(m, n, type) ==
  IF network[m][n] = <<>> THEN {} ELSE {message \in {Head(network[m][n])} : message.type = type}

Send(m, n, f, message) ==
  network' = Tracing!Broadcast(Probing!Taken(m, n), n, [g \in {f} |-> message])

SetLift(n, h, incoming, secret) ==
  lifts' = [lifts EXCEPT ![n] =
    [g \in DOMAIN @ \cup {h} |->
       IF g = h THEN [incoming |-> incoming, secret |-> secret] ELSE @[g]]]

(* getOtherParty: the friends on the other side of the leg of h from m, of which the
   first is taken.  A node that created any leg of the trace knows one friend for each
   of them. *)
OtherParties(n, m, h) ==
  LET log == Tracing!Log(n, h.trace)
  IN IF \E f \in Nodes : <<h.trace, f>> \in created[n]
     THEN {f \in {h.leg} : <<h.trace, f>> \in created[n]} \ {m}
     ELSE {f \in Tracing!Keys(log) : [friend |-> f, leg |-> h.leg] \in Range(log)} \ {m}

OtherParty(n, m, h) == Tracing!FirstKey(Tracing!Log(n, h.trace), OtherParties(n, m, h))

(* Whether n goes by a commit: the leg has another party, n knows the lift, and the
   secret is that of the hash. *)
Accepts(n, m, message) ==
  /\ OtherParties(n, m, message.lift) # {}
  /\ message.lift \in DOMAIN lifts[n]
  /\ message.secret

-----------------------------------------------------------------------------
(***************************************************************************)
(* Mutants: the ways in which a plausible bug changes the definitions      *)
(* below.                                                                  *)
(***************************************************************************)

(* HandleLoopFound that names the lift for the probe. *)
LoopFoundOfProbe(m, n) ==
  \E message \in Tracing!Arriving(m, n) :
    LET h == NewHash(n, message.trace[1], message.leg, m)
    IN /\ Tracing!RecordLoop(m, n, message.trace, message.leg)
       /\ SetLift(n, h, FALSE, TRUE)
       /\ network' = Probing!Taken(m, n)
       /\ UNCHANGED completed

(* ForwardPropose that keeps a secret it cannot have. *)
ForwardSecret(m, n) ==
  \E message \in Arriving(m, n, "propose") :
    LET h == message.lift
    IN /\ OtherParties(n, m, h) # {}
       /\ h \notin DOMAIN lifts[n]
       /\ SetLift(n, h, TRUE, TRUE)
       /\ Send(m, n, OtherParty(n, m, h), Propose(h))
       /\ UNCHANGED <<tracing, completed>>

(* HandleCommit that keeps the secret to itself. *)
KeepSecret(m, n) ==
  \E message \in Arriving(m, n, "commit") :
    /\ Accepts(n, m, message)
    /\ SetLift(n, message.lift, lifts[n][message.lift].incoming, TRUE)
    /\ network' = Probing!Taken(m, n)
    /\ UNCHANGED <<tracing, completed>>

-----------------------------------------------------------------------------
Init ==
  /\ Tracing!Init
  /\ lifts = [n \in Nodes |-> <<>>]
  /\ completed = [n \in Nodes |-> {}]

(* The steps of the other engines that the loops engine does not notice. *)
Meet(a, b) == Tracing!Meet(a, b) /\ UNCHANGED <<lifts, completed>>

HandleTraces(m, n) == Tracing!HandleOwn(m, n) /\ UNCHANGED <<lifts, completed>>

(* A trace has come home from m: propose a lift over the leg that it was. *)
HandleLoopFound(m, n) ==
  \E message \in Tracing!Arriving(m, n) :
    LET h == NewHash(n, message.trace, message.leg, m)
    IN /\ Tracing!RecordLoop(m, n, message.trace, message.leg)
       /\ SetLift(n, h, FALSE, TRUE)
       /\ Send(m, n, message.leg, Propose(h))
       /\ UNCHANGED completed

(* 'propose' of an unknown lift: pass it on. *)
ForwardPropose(m, n) ==
  \E message \in Arriving(m, n, "propose") :
    LET h == message.lift
    IN /\ OtherParties(n, m, h) # {}
       /\ h \notin DOMAIN lifts[n]
       /\ SetLift(n, h, TRUE, FALSE)
       /\ Send(m, n, OtherParty(n, m, h), Propose(h))
       /\ UNCHANGED <<tracing, completed>>

(* 'propose' of a known lift: n takes itself for the initiator and commits, with
   the secret if it has it. *)
DecideOnLift(m, n) ==
  \E message \in Arriving(m, n, "propose") :
    LET h == message.lift
    IN /\ OtherParties(n, m, h) # {}
       /\ h \in DOMAIN lifts[n]
       /\ SetLift(n, h, TRUE, lifts[n][h].secret)
       /\ Send(m, n, m, Commit(h, lifts[n][h].secret))
       /\ UNCHANGED <<tracing, completed>>

(* 'commit' of a known lift: n passes the secret on, or reports success if it has
   it. *)
HandleCommit(m, n) ==
  \E message \in Arriving(m, n, "commit") :
    LET h == message.lift
    IN /\ Accepts(n, m, message)
       /\ SetLift(n, h, lifts[n][h].incoming, TRUE)
       /\ IF lifts[n][h].secret
          THEN /\ network' = Probing!Taken(m, n)
               /\ completed' = [completed EXCEPT ![n] = @ \cup {h}]
          ELSE /\ Send(m, n, OtherParty(n, m, h), Commit(h, TRUE))
               /\ UNCHANGED completed
       /\ UNCHANGED tracing

(* 'propose' or 'commit' of a leg that has no other party here, and 'commit' of an
   unknown lift or without the secret: dropped.  The node also drops them, and a
   loop that was found, when it has not got both parties for friends, which cannot be:
   the log that names them has only friends in it. *)
DropLoopMessage(m, n) ==
  /\ \/ \E message \in Arriving(m, n, "propose") : OtherParties(n, m, message.lift) = {}
     \/ \E message \in Arriving(m, n, "commit") : ~Accepts(n, m, message)
  /\ network' = Probing!Taken(m, n)
  /\ UNCHANGED <<tracing, lifts, completed>>

Handle(m, n) ==
  \/ HandleTraces(m, n)
  \/ HandleLoopFound(m, n)
  \/ ForwardPropose(m, n)
  \/ DecideOnLift(m, n)
  \/ HandleCommit(m, n)
  \/ DropLoopMessage(m, n)

Next ==
  \/ \E a, b \in Nodes : Meet(a, b)
  \/ \E m, n \in Nodes : Handle(m, n)

Spec == Init /\ [][Next]_vars

(* The flush loop goes on delivering messages as long as there are any. *)
FairSpec == Spec /\ WF_vars(\E m, n \in Nodes : Handle(m, n))

-----------------------------------------------------------------------------
(***************************************************************************)
(* What the lifts promise.                                                 *)
(***************************************************************************)
Hashes ==
  [initiator : Nodes, trace : Tracing!Traces, leg : Nodes, incoming : Nodes, number : Nat]

(* A node completes only lifts that it knows. *)
TypeOK ==
  /\ \A n \in Nodes :
       /\ DOMAIN lifts[n] \subseteq Hashes
       /\ Range(lifts[n]) \subseteq [incoming : BOOLEAN, secret : BOOLEAN]
       /\ completed[n] \subseteq DOMAIN lifts[n]
  /\ DOMAIN completed = Nodes

(* A lift that was started is completed at its initiator: its proposal comes home,
   whichever leg of the trace it is for, and so does its commit. *)
EveryLiftCompletes ==
  Probing!Quiet =>
    \A n \in Nodes : \A h \in DOMAIN lifts[n] : h.initiator = n => h \in completed[n]

(* A lift is what Lift says: a node that knows the hash has joined, and the circle is
   closed when the initiator has been promised something itself. *)
Joined == {member \in Nodes \X UNION {DOMAIN lifts[n] : n \in Nodes} :
             member[2] \in DOMAIN lifts[member[1]]}

Closed == {h \in UNION {DOMAIN lifts[n] : n \in Nodes} : lifts[h.initiator][h].incoming}

Knowing == {member \in Joined : lifts[member[1]][member[2]].secret}

Ideal == INSTANCE Lift WITH
  Lifts <- Hashes, joined <- Joined, closed <- Closed, knowing <- Knowing

(* Nobody can claim what it was promised before everyone else was promised the same,
   and once the proposal has come home everybody who joined gets the secret. *)
ImplementsLift == Ideal!FairSpec

-----------------------------------------------------------------------------
(***************************************************************************)
(* The probes engine does not notice the engines it feeds: without their   *)
(* messages, the network behaves as ProbesEngine allows, and as fairly.    *)
(***************************************************************************)
Underneath == INSTANCE ProbesEngine WITH
  network <- Filtered(network, {"trace", "propose", "commit"})

KeepsProbesEngine == Underneath!FairSpec

=============================================================================
