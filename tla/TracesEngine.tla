---------------------------- MODULE TracesEngine ----------------------------
(***************************************************************************)
(* The traces engine of a LedgerLoops node                                 *)
(* (src/src/engine/tracesengine.ts) on top of its probes engine, with the  *)
(* wiring between the two (src/src/saiga.ts: connectTracesEngine).         *)
(*                                                                         *)
(* A node at which a probe loops back sends traces to all friends that the *)
(* probe came from.  A trace goes back along the way of the probe; where   *)
(* it meets the other leg of the same trace it turns round and follows     *)
(* that leg to where it came from.  A trace that comes home has found a    *)
(* loop.                                                                   *)
(***************************************************************************)
EXTENDS Naturals, Sequences, FiniteSets, Functions

CONSTANTS
  Nodes,          \* the names of the nodes
  Introductions,  \* the pairs <<first, second>> that may be told to meet
  Numbered        \* the nodes whose names are integers, smallest first

ASSUME NetworkAssumption == IsFiniteSet(Nodes) /\ Introductions \subseteq Nodes \X Nodes

ASSUME NumberedAssumption == Numbered \in Seq(Nodes)

VARIABLES
  hand, known, from, to, offer, loopbacks, network,   \* of the probes engine
  created,    \* created[n]: the legs <<t, f>> of traces t that n created, sent to f
  forwarded,  \* forwarded[n][t]: the log of the legs of t that came and went by n
  found       \* found[n]: the 'loop-found' events at n

Probing == INSTANCE ProbesEngine

probing == <<hand, known, from, to, offer, loopbacks>>

vars == <<probing, network, created, forwarded, found>>

(* Each loopback starts one trace under a nonce of its own, and a friend's copy
   of a probe loops back once: a trace goes by the probe, the node and the friend
   whose copy looped back. *)
Traces == Introductions \X Nodes \X Nodes

(* A leg of a trace goes by the friend its minter sends it to. *)
TraceMessage(t, leg) == [type |-> "trace", trace |-> t, leg |-> leg]

TraceMessages == {TraceMessage(t, leg) : t \in Traces, leg \in Nodes}

Arriving(m, n) ==
  IF network[m][n] = <<>> THEN {} ELSE {Head(network[m][n])} \cap TraceMessages

(* Mutant of Broadcast: the messages overtake those under way. *)
Urgent(net, n, messages) ==
  [net EXCEPT ![n] = [f \in Nodes |-> IF f \in DOMAIN messages THEN <<messages[f]>> \o @[f] ELSE @[f]]]

(* n sends messages[f] to every friend f in the domain of messages. *)
Broadcast(net, n, messages) ==
  [net EXCEPT ![n] = [f \in Nodes |-> IF f \in DOMAIN messages THEN Append(@[f], messages[f]) ELSE @[f]]]

-----------------------------------------------------------------------------
(***************************************************************************)
(* The log of the legs of one trace: an object with a key for each friend. *)
(***************************************************************************)
Log(n, t) == IF t \in DOMAIN forwarded[n] THEN forwarded[n][t] ELSE <<>>

WriteLog(n, t, log) ==
  forwarded' = [forwarded EXCEPT ![n] = [u \in DOMAIN @ \cup {t} |-> IF u = t THEN log ELSE @[u]]]

Keys(log) == {log[i].friend : i \in DOMAIN log}

Values(log) == {log[i].leg : i \in DOMAIN log}

(* Assignments to the keys friends: those that are there keep their place, and the
   others are inserted in some order. *)
LoggedAll(log, friends, order, leg) ==
  [i \in DOMAIN log |-> IF log[i].friend \in friends THEN [log[i] EXCEPT !.leg = leg] ELSE log[i]]
    \o [i \in DOMAIN order |-> [friend |-> order[i], leg |-> leg]]

Logged(log, f, leg) == LoggedAll(log, {f}, IF f \in Keys(log) THEN <<>> ELSE <<f>>, leg)

(* The first of some keys in the order in which JavaScript enumerates them: integers
   first and in their own order, then all others in the order of insertion. *)
Place(s, f) == CHOOSE i \in DOMAIN s : s[i] = f

Rank(log, f) ==
  IF f \in Range(Numbered) THEN Place(Numbered, f)
  ELSE Len(Numbered) + Place([i \in DOMAIN log |-> log[i].friend], f)

(* Mutant of FirstKey. *)
LastKey(log, friends) ==
  CHOOSE f \in friends : \A g \in friends \ {f} : Rank(log, g) <= Rank(log, f)

FirstKey(log, friends) ==
  CHOOSE f \in friends : \A g \in friends \ {f} : Rank(log, f) <= Rank(log, g)

(* Mutant of OtherLegs. *)
NoOtherLegs(log, leg) == {}

(* The friends for which another leg is logged. *)
OtherLegs(log, leg) == {f \in Keys(log) : [friend |-> f, leg |-> leg] \notin Range(log)}

-----------------------------------------------------------------------------
(***************************************************************************)
(* Mutants: the ways in which a plausible bug changes the actions below.   *)
(***************************************************************************)

(* HandleProbeLoopback that does not record where the probe came from. *)
TraceUnrecorded(m, n, p) ==
  LET t == <<p, n, m>>
      senders == from[n][p] \cup {m}
  IN /\ Probing!Arrives(m, n, Probing!ProbeMessage(p))
     /\ p \in known[n]
     /\ Probing!Virgin(n, m, {p}) # {}
     /\ loopbacks' = [loopbacks EXCEPT ![n] = @ \cup {<<p, m>>}]
     /\ created' = [created EXCEPT ![n] = @ \cup {<<t, f>> : f \in senders}]
     /\ network' = Broadcast(Probing!Taken(m, n), n, [f \in senders |-> TraceMessage(t, f)])
     /\ UNCHANGED <<hand, known, from, to, offer, forwarded, found>>

(* TraceHome that reports the probe for the trace. *)
TraceHomeOfProbe(m, n, t, leg) ==
  /\ Probing!Arrives(m, n, TraceMessage(t, leg))
  /\ <<t, leg>> \in created[n]
  /\ found' = [found EXCEPT ![n] = @ \cup {[trace |-> t[1], outgoing |-> leg, incoming |-> m]}]
  /\ network' = Probing!Taken(m, n)
  /\ UNCHANGED <<probing, created, forwarded>>

(* Opposite that includes both sides. *)
AllParties(m, n, p) == from[n][p] \cup to[n][p]

-----------------------------------------------------------------------------
Init ==
  /\ Probing!Init
  /\ created = [n \in Nodes |-> {}]
  /\ forwarded = [n \in Nodes |-> <<>>]
  /\ found = [n \in Nodes |-> {}]

(* The steps of the probes engine that the traces engine does not notice. *)
Meet(a, b) == Probing!Meet(a, b) /\ UNCHANGED <<created, forwarded, found>>

HandleProbes(m, n) ==
  /\ \/ Probing!HandleMeet(m, n)
     \/ \E p \in Introductions : Probing!FloodNewProbe(m, n, p)
     \/ \E p \in Introductions : Probing!IgnoreProbe(m, n, p)
     \/ Probing!HandleHaveProbes(m, n)
     \/ Probing!HandleOkayToSendProbes(m, n)
  /\ UNCHANGED <<created, forwarded, found>>

(* A probe that loops back starts a trace, with a leg to each friend it has come
   from, the last one included. *)
HandleProbeLoopback(m, n, p) ==
  LET t == <<p, n, m>>
      senders == from[n][p] \cup {m}
  IN /\ Probing!RecordLoopback(m, n, p)
     /\ created' = [created EXCEPT ![n] = @ \cup {<<t, f>> : f \in senders}]
     /\ network' = Broadcast(Probing!Taken(m, n), n, [f \in senders |-> TraceMessage(t, f)])
     /\ UNCHANGED <<forwarded, found>>

(* 'trace' from m, of a leg that n created: a loop.  What the listener to the
   event sends is left open. *)
RecordLoop(m, n, t, leg) ==
  /\ Probing!Arrives(m, n, TraceMessage(t, leg))
  /\ <<t, leg>> \in created[n]
  /\ found' = [found EXCEPT ![n] = @ \cup {[trace |-> t, outgoing |-> leg, incoming |-> m]}]
  /\ UNCHANGED <<probing, created, forwarded>>

(* The same without a listener. *)
TraceHome(m, n, t, leg) ==
  /\ RecordLoop(m, n, t, leg)
  /\ network' = Probing!Taken(m, n)

(* 'trace' from m, of a leg n has seen. *)
IgnoreTrace(m, n, t, leg) ==
  /\ <<t, leg>> \notin created[n]
  /\ leg \in Values(Log(n, t))
  /\ network' = Probing!Taken(m, n)
  /\ UNCHANGED <<created, forwarded, found>>

NewTrace(n, t, leg) == <<t, leg>> \notin created[n] /\ leg \notin Values(Log(n, t))

(* The friends on the other side: a trace from a friend that sent the probe goes
   on probe-wise, one from a friend that was sent it counter-probe-wise, and one
   from any other friend nowhere. *)
Opposite(m, n, p) ==
  IF m \in from[n][p] THEN to[n][p] ELSE IF m \in to[n][p] THEN from[n][p] ELSE {}

(* The friends for which n logged another leg of t than this one from m, which
   goes counter-probe-wise. *)
Bounces(m, n, t, leg) ==
  IF m \in to[n][t[1]] \ from[n][t[1]] THEN OtherLegs(Logged(Log(n, t), m, leg), leg) ELSE {}

(* 'trace' from m, of a new leg that has met no other: it is logged for m, and
   for all opposite friends as it goes there, in the order in which the probe came
   or went, which is not modelled. *)
ForwardTrace(m, n, t, leg) ==
  LET hops == Opposite(m, n, t[1])
      log == Logged(Log(n, t), m, leg)
  IN /\ NewTrace(n, t, leg)
     /\ Bounces(m, n, t, leg) = {}
     /\ \E order \in Probing!Orders(hops \ Keys(log)) :
          WriteLog(n, t, LoggedAll(log, hops, order, leg))
     /\ network' = Broadcast(Probing!Taken(m, n), n,
                   [f \in hops |-> TraceMessage(t, leg)])
     /\ UNCHANGED <<created, found>>

(* 'trace' from m, of a new leg that has met another: it bounces, over the first
   friend for which the other is logged.  It is logged for m alone. *)
BounceTrace(m, n, t, leg) ==
  LET log == Logged(Log(n, t), m, leg)
      others == Bounces(m, n, t, leg)
  IN /\ NewTrace(n, t, leg)
     /\ others # {}
     /\ WriteLog(n, t, log)
     /\ network' = Broadcast(Probing!Taken(m, n), n,
                   [f \in {FirstKey(log, others)} |-> TraceMessage(t, leg)])
     /\ UNCHANGED <<created, found>>

(* 'trace' from m, of a leg that n did not create. *)
PassTrace(m, n) ==
  \E message \in Arriving(m, n) :
    LET t == message.trace
        leg == message.leg
    IN /\ \/ IgnoreTrace(m, n, t, leg)
          \/ ForwardTrace(m, n, t, leg)
          \/ BounceTrace(m, n, t, leg)
       /\ UNCHANGED probing

(* All that does not report a loop. *)
HandleOwn(m, n) ==
  \/ HandleProbes(m, n)
  \/ \E p \in Introductions : HandleProbeLoopback(m, n, p)
  \/ PassTrace(m, n)

Handle(m, n) ==
  \/ HandleOwn(m, n)
  \/ \E message \in Arriving(m, n) : TraceHome(m, n, message.trace, message.leg)

Next ==
  \/ \E a, b \in Nodes : Meet(a, b)
  \/ \E m, n \in Nodes : Handle(m, n)

Spec == Init /\ [][Next]_vars

-----------------------------------------------------------------------------
(***************************************************************************)
(* What the traces promise.                                                *)
(***************************************************************************)
Legs == [friend : Nodes, leg : Nodes]

TypeOK ==
  /\ created \in [Nodes -> SUBSET (Traces \X Nodes)]
  /\ \A n \in Nodes : DOMAIN forwarded[n] \subseteq Traces /\ Range(forwarded[n]) \subseteq Seq(Legs)
  /\ found \in [Nodes -> SUBSET [trace : Traces, outgoing : Nodes, incoming : Nodes]]

(* A trace about a probe comes from a friend that the probe was exchanged with,
   and that the receiver knows to have been: the probe never comes after the
   trace. *)
NoStrayTrace ==
  \A m, n \in Nodes : \A message \in Arriving(m, n) :
    LET p == message.trace[1]
    IN <<message.trace, message.leg>> \in created[n] \/ m \in from[n][p] \cup to[n][p]

Linked(x, y) == hand[x][y] # "none" \/ hand[y][x] # "none"

(* A trace comes home only along a loop: its first and its last member are two
   friends, connected without the node that announces the loop. Said with cuts:
   every set of other nodes that holds the one and not the other is left by a
   link to yet another node. *)
LoopFoundMeansLoop ==
  \A n \in Nodes : \A loop \in found[n] :
    /\ Linked(n, loop.outgoing) /\ Linked(n, loop.incoming)
    /\ loop.outgoing # loop.incoming
    /\ \A S \in SUBSET (Nodes \ {n}) :
         loop.outgoing \in S /\ loop.incoming \notin S =>
           \E x \in S, y \in Nodes \ (S \cup {n}) : Linked(x, y)

(* A leg that bounces changes direction, to go where the leg it met came from
   (DLD.md, bouncing rule). *)
BounceTurnsRound ==
  \A m, n \in Nodes : \A message \in Arriving(m, n) :
    LET t == message.trace
        others == Bounces(m, n, t, message.leg)
        log == Logged(Log(n, t), m, message.leg)
    IN NewTrace(n, t, message.leg) /\ others # {} => FirstKey(log, others) \in to[n][t[1]]

(* Every loopback is confirmed: once no message is under way the trace that was
   started for it has come home. *)
EveryTraceComesHome ==
  Probing!Quiet =>
    \A n \in Nodes : \A l \in loopbacks[n] :
      \E loop \in found[n] : loop.trace = <<l[1], n, l[2]>>

-----------------------------------------------------------------------------
(***************************************************************************)
(* Why no trace is stray: what n has recorded of the probes that it has    *)
(* exchanged with m, and what is still under way.                          *)
(***************************************************************************)
Exchanged(m, n) == {p \in Introductions : m \in from[n][p] \cup to[n][p]}

UnderWay(m, n, p) == Probing!InTransit(m, n, Probing!ProbeMessage(p))

(* What n has received m has sent, and what m has sent n has received, has sent itself
   or has still to receive. *)
RecordsAgree ==
  \A m, n \in Nodes, p \in Introductions :
    /\ m \in from[n][p] \/ UnderWay(m, n, p) => n \in to[m][p]
    /\ n \in to[m][p] => p \in Exchanged(m, n) \/ UnderWay(m, n, p)

(* A trace comes behind its probe. *)
TracesBehind ==
  \A m, n \in Nodes : \A i \in DOMAIN network[m][n] :
    network[m][n][i] \in TraceMessages =>
      LET p == network[m][n][i].trace[1]
      IN p \in Exchanged(m, n) \/ \E j \in 1..(i - 1) : network[m][n][j] = Probing!ProbeMessage(p)

(* Legs are logged only for friends that the probe was exchanged with. *)
LogsExchanged ==
  \A n \in Nodes : \A t \in DOMAIN forwarded[n] :
    \A f \in Keys(forwarded[n][t]) : t[1] \in Exchanged(f, n)

TraceInv == RecordsAgree /\ TracesBehind /\ LogsExchanged

=============================================================================
